------------------------------- MODULE Amf0 -------------------------------
(***************************************************************************)
(* AMF0 values and their bytes: srs_rtmp_amf0.cpp over the big-endian      *)
(* reads and writes of SrsStream.                                          *)
(*                                                                         *)
(* A value is a record with one field for its kind.  The properties of an  *)
(* Object or an EcmaArray are a sequence of pairs, SrsUnSortedHashtable.   *)
(* A reader gives the set of its results, empty when the code returns an   *)
(* error: the value read and the rest of the stream.                       *)
(*                                                                         *)
(* Texts and doubles are names for their bytes.                            *)
(***************************************************************************)
EXTENDS Integers, SequencesExt

CONSTANTS
    Spelling,          \* the bytes of a text
    Bits               \* the eight bytes of a double, or of the time of a date

Byte == 0 .. 255

\* No double starts with the bytes 0, 9: behind the marker of a number, which is 0,
\* they would read as an object end.  Only doubles below 2.3e-308 do.
ASSUME Amf0Assumption ==
    /\ \A t \in DOMAIN Spelling : Spelling[t] \in Seq(Byte) /\ Len(Spelling[t]) < 2 ^ 15
    /\ \A t, u \in DOMAIN Spelling : Spelling[t] = Spelling[u] => t = u
    /\ "" \in DOMAIN Spelling /\ Spelling[""] = <<>>
    /\ \A n \in DOMAIN Bits : /\ Bits[n] \in [1 .. 8 -> Byte]
                              /\ SubSeq(Bits[n], 1, 2) # <<0, 9>>
    /\ \A n, m \in DOMAIN Bits : Bits[n] = Bits[m] => n = m

----------------------------------------------------------------------------
(* SrsStream: integers in network order. *)

Int16(n) == << (n \div 256) % 256, n % 256 >>
Int32(n) == Int16((n \div 65536) % 65536) \o Int16(n % 65536)
AsInt16(s) == LET n == s[1] * 256 + s[2] IN IF n < 32768 THEN n ELSE n - 65536
AsInt32(s) == AsInt16(SubSeq(s, 1, 2)) * 65536 + s[3] * 256 + s[4]

\* require(n), then read n bytes.
Take(n, s) ==
    IF Len(s) < n THEN {}
    ELSE {[value |-> SubSeq(s, 1, n), rest |-> SubSeq(s, n + 1, Len(s))]}

----------------------------------------------------------------------------
(* The values. *)

Str(t) == [String |-> t]
Num(n) == [Number |-> n]
Bool(b) == [Boolean |-> b]
Obj(ps) == [Object |-> ps]
Null == [Null |-> <<>>]
Undefined == [Undefined |-> <<>>]

Is(kind, v) == kind \in DOMAIN v

Marker == [Number |-> 0, Boolean |-> 1, String |-> 2, Object |-> 3, Null |-> 5,
           Undefined |-> 6, EcmaArray |-> 8, StrictArray |-> 10, Date |-> 11]

\* SrsUnSortedHashtable::set, with no value in the second.
Removed(ps, key) == SelectSeq(ps, LAMBDA p : p[1] # key)
SetProperty(ps, key, v) == Append(Removed(ps, key), <<key, v>>)

----------------------------------------------------------------------------
(* Writing. *)

WriteUtf8(t) == Int16(Len(Spelling[t])) \o Spelling[t]
Eof == <<0, 0, 9>>

RECURSIVE WriteAny(_)
WriteProperties(ps) ==
    FoldLeft(LAMBDA bytes, p : bytes \o WriteUtf8(p[1]) \o WriteAny(p[2]), <<>>, ps) \o Eof

\* The count of an EcmaArray is the one it was read with, that of a StrictArray what
\* it had after the last append.
WriteBody(v) ==
    CASE Is("String", v) -> WriteUtf8(v.String)
      [] Is("Number", v) -> Bits[v.Number]
      [] Is("Boolean", v) -> IF v.Boolean THEN <<1>> ELSE <<0>>
      [] Is("Date", v) -> Bits[v.Date] \o Int16(v.zone)
      [] Is("Object", v) -> WriteProperties(v.Object)
      [] Is("EcmaArray", v) -> Int32(v.count) \o WriteProperties(v.EcmaArray)
      [] Is("StrictArray", v) ->
            FoldLeft(LAMBDA bytes, e : bytes \o WriteAny(e), Int32(v.count), v.StrictArray)
      [] OTHER -> <<>>
WriteAny(v) == << Marker[CHOOSE kind \in DOMAIN Marker : Is(kind, v)] >> \o WriteBody(v)

----------------------------------------------------------------------------
(* Sizes. *)

Utf8Size(t) == 2 + Len(Spelling[t])
RECURSIVE Size(_)
PropertiesSize(ps) == FoldLeft(LAMBDA size, p : size + Utf8Size(p[1]) + Size(p[2]), 3, ps)
\* Mutant: the count of an EcmaArray has no room.
SizeWithoutCount(v) ==
    CASE Is("String", v) -> 1 + Utf8Size(v.String)
      [] Is("Number", v) -> 9
      [] Is("Boolean", v) -> 2
      [] Is("Date", v) -> 11
      [] Is("Object", v) -> 1 + PropertiesSize(v.Object)
      [] Is("EcmaArray", v) -> 1 + PropertiesSize(v.EcmaArray)
      [] Is("StrictArray", v) -> FoldLeft(LAMBDA size, e : size + Size(e), 5, v.StrictArray)
      [] OTHER -> 1
Size(v) ==
    CASE Is("String", v) -> 1 + Utf8Size(v.String)
      [] Is("Number", v) -> 9
      [] Is("Boolean", v) -> 2
      [] Is("Date", v) -> 11
      [] Is("Object", v) -> 1 + PropertiesSize(v.Object)
      [] Is("EcmaArray", v) -> 5 + PropertiesSize(v.EcmaArray)
      [] Is("StrictArray", v) -> FoldLeft(LAMBDA size, e : size + Size(e), 5, v.StrictArray)
      [] OTHER -> 1

----------------------------------------------------------------------------
(* Reading. *)

Map(results, F(_)) == {[value |-> F(r.value), rest |-> r.rest] : r \in results}

TextOf(bytes) ==
    IF \E t \in DOMAIN Spelling : Spelling[t] = bytes
    THEN CHOOSE t \in DOMAIN Spelling : Spelling[t] = bytes ELSE "unknown"
NumberOf(bytes) ==
    IF \E n \in DOMAIN Bits : Bits[n] = bytes
    THEN CHOOSE n \in DOMAIN Bits : Bits[n] = bytes ELSE 0

\* The length is a signed number: from 32768 on the text is empty and its bytes stay.
ReadUtf8(s) ==
    UNION {IF AsInt16(r.value) <= 0 THEN {[value |-> "", rest |-> r.rest]}
           ELSE Map(Take(AsInt16(r.value), r.rest), TextOf) : r \in Take(2, s)}

IsObjectEof(s) == Len(s) >= 3 /\ SubSeq(s, 1, 3) = Eof

RECURSIVE ReadAny(_)
\* Until an object end, or the end of the stream without one.
RECURSIVE ReadProperties(_, _)
ReadProperties(ps, s) ==
    IF s = <<>> THEN {[value |-> ps, rest |-> s]}
    ELSE IF IsObjectEof(s) THEN {[value |-> ps, rest |-> SubSeq(s, 4, Len(s))]}
    ELSE UNION {UNION {ReadProperties(SetProperty(ps, key.value, v.value), v.rest)
                         : v \in ReadAny(key.rest)} : key \in ReadUtf8(s)}

RECURSIVE ReadElements(_, _, _)
ReadElements(elements, count, s) ==
    IF Len(elements) >= count \/ s = <<>> THEN {[value |-> elements, rest |-> s]}
    ELSE UNION {ReadElements(Append(elements, v.value), count, v.rest) : v \in ReadAny(s)}

ReadBody(kind, s) ==
    CASE kind = "String" -> Map(ReadUtf8(s), Str)
      [] kind = "Number" -> Map(Take(8, s), LAMBDA b : Num(NumberOf(b)))
      [] kind = "Boolean" -> Map(Take(1, s), LAMBDA b : Bool(b # <<0>>))
      [] kind = "Date" -> Map(Take(10, s), LAMBDA b : [Date |-> NumberOf(SubSeq(b, 1, 8)),
                                                       zone |-> AsInt16(SubSeq(b, 9, 10))])
      [] kind = "Object" -> Map(ReadProperties(<<>>, s), Obj)
      [] kind = "EcmaArray" ->
            UNION {Map(ReadProperties(<<>>, c.rest),
                       LAMBDA ps : [EcmaArray |-> ps, count |-> AsInt32(c.value)]) : c \in Take(4, s)}
      [] kind = "StrictArray" ->
            UNION {Map(ReadElements(<<>>, AsInt32(c.value), c.rest),
                       LAMBDA es : [StrictArray |-> es, count |-> AsInt32(c.value)]) : c \in Take(4, s)}
      [] OTHER -> {[value |-> (kind :> <<>>), rest |-> s]}

\* read() of an instance of the kind.
Read(kind, s) ==
    IF s # <<>> /\ s[1] = Marker[kind] THEN ReadBody(kind, Tail(s)) ELSE {}

\* discovery(), then read().
ReadAny(s) ==
    IF IsObjectEof(s) THEN {[value |-> [ObjectEnd |-> <<>>], rest |-> SubSeq(s, 4, Len(s))]}
    ELSE UNION {Read(kind, s) : kind \in DOMAIN Marker}
============================================================================
