----------------------------- MODULE TsLinkProofs -----------------------------
(***************************************************************************)
(* Proofs about TsLink, for packets, frames, caches and a clock of every   *)
(* size: a packet of the encoder that arrives is full, and its clock is    *)
(* not ahead of its frame.  The invariant says this of all that is on the  *)
(* way, and of the messages in the cache what it needs.                    *)
(***************************************************************************)
EXTENDS TsLink, SequenceTheorems, FiniteSetTheorems, WellFoundedInduction, TLAPS

\* What PacketsAreSound says of the packet that arrived.
Sound(w) ==
    IsPes(w) =>
        /\ ~AdaptationFails(w) /\ w.data.n = DataRead(w)
        /\ "pcr" \in w.adaptation.parts
           => DtsRead(w) - w.adaptation.clock \in 0..ClockStep - 1

AllSound(s) == \E S : s \in Seq(S) /\ \A w \in S : Sound(w)

\* A message of the cache, as far as the sizes and the times of its packets need it.
Sendable(m) ==
    /\ m.size \in Nat /\ m.dts \in Nat /\ m.pts \in Nat
    /\ m.sid \in {"none", "VideoCommon", "AudioCommon"}

Streams == {"audio", "video"}
CacheOK(c) == c = [s \in Streams |-> c[s]] /\ \A s \in Streams : Sendable(c[s])

LinkInv ==
    /\ AllSound(stream)
    /\ Arrived => Sound(packet)
    /\ now \in Nat
    /\ CacheOK(cache)

----------------------------------------------------------------------------
(* Numbers. *)

LEMMA Counting ==
    ASSUME NEW S, 0 \in S, \A n \in Nat : n \in S => n + 1 \in S
    PROVE  Nat \subseteq S
<1> SUFFICES ASSUME NEW k \in Nat, k \notin S PROVE FALSE
    OBVIOUS
<1> DEFINE T == {1..n : n \in Nat \ S}
<1>1. IsWellFoundedOn(StrictSubsetOrdering(Nat), FiniteSubsetsOf(Nat))
    BY FS_StrictSubsetOrderingWellFounded
<1>2. T \subseteq FiniteSubsetsOf(Nat) /\ T # {}
  <2>1. ASSUME NEW n \in Nat PROVE IsFiniteSet(1..n) /\ 1..n \subseteq Nat
    BY FS_Interval
  <2> QED BY <2>1 DEF FiniteSubsetsOf
<1>3. PICK x \in T : \A y \in T : ~ (<< y, x >> \in StrictSubsetOrdering(Nat))
  <2> HIDE DEF T
  <2> QED BY <1>1, <1>2, WFMin
<1>4. PICK n \in Nat \ S : x = 1..n
    BY <1>3
<1>5. n - 1 \in Nat \ S
  <2>1. n # 0
    BY <1>4
  <2>2. n - 1 \in Nat /\ (n - 1) + 1 = n
    BY <1>4, <2>1
  <2> QED BY <1>4, <2>2
<1>6. << 1..(n - 1), 1..n >> \in StrictSubsetOrdering(Nat)
  <2>1. 1..(n - 1) \subseteq 1..n /\ n \in 1..n /\ n \notin 1..(n - 1) /\ 1..n \subseteq Nat
    BY <1>5
  <2> QED BY <2>1 DEF StrictSubsetOrdering
<1>7. 1..(n - 1) \in T
    BY <1>5
<1> QED BY <1>3, <1>4, <1>6, <1>7

LEMMA LeastOf ==
    ASSUME NEW S, S \subseteq Nat, S # {}
    PROVE  Min(S) \in S
<1> DEFINE P(x) == x \in S /\ \A y \in S : x <= y
<1>1. \E x : P(x)
  <2> SUFFICES ASSUME \A x : ~P(x) PROVE FALSE
    OBVIOUS
  <2> DEFINE Below == {n \in Nat : \A y \in S : n <= y}
  <2>1. 0 \in Below
    OBVIOUS
  <2>2. ASSUME NEW n \in Nat, n \in Below PROVE n + 1 \in Below
    <3>1. n \notin S
      BY <2>2
    <3>2. \A y \in S : n <= y /\ y # n /\ y \in Nat
      BY <2>2, <3>1
    <3> QED BY <3>2
  <2>3. Nat \subseteq Below
    <3> HIDE DEF Below
    <3> QED BY <2>1, <2>2, Counting
  <2>4. PICK y \in S : y \in Nat
    OBVIOUS
  <2>5. y + 1 \in Below
    BY <2>3, <2>4
  <2> QED BY <2>4, <2>5
<1>2. Min(S) = CHOOSE x : P(x)
    BY DEF Min
<1>3. P(Min(S))
  <2> HIDE DEF P
  <2> QED BY <1>1, <1>2
<1> QED BY <1>3

LEMMA LeastOfTwo ==
    ASSUME NEW a \in Int, NEW b \in Int
    PROVE  Min({a, b}) = IF a <= b THEN a ELSE b
<1> DEFINE P(x) == x \in {a, b} /\ \A y \in {a, b} : x <= y
<1>1. Min({a, b}) = CHOOSE x : P(x)
    BY DEF Min
<1>2. \E x : P(x)
  <2>1. CASE a <= b
    <3>1. P(a)
        BY <2>1
    <3> QED BY <3>1
  <2>2. CASE ~ (a <= b)
    <3>1. P(b)
        BY <2>2
    <3> QED BY <3>1
  <2> QED BY <2>1, <2>2
<1>3. P(Min({a, b}))
  <2> HIDE DEF P
  <2> QED BY <1>1, <1>2
<1> QED BY <1>3

LEMMA GreatestOfTwo ==
    ASSUME NEW a \in Int, NEW b \in Int
    PROVE  Max({a, b}) = IF a <= b THEN b ELSE a
<1> DEFINE P(x) == x \in {a, b} /\ \A y \in {a, b} : x >= y
<1>1. Max({a, b}) = CHOOSE x : P(x)
    BY DEF Max
<1>2. \E x : P(x)
  <2>1. CASE a <= b
    <3>1. P(b)
        BY <2>1
    <3> QED BY <3>1
  <2>2. CASE ~ (a <= b)
    <3>1. P(a)
        BY <2>2
    <3> QED BY <3>1
  <2> QED BY <2>1, <2>2
<1>3. P(Max({a, b}))
  <2> HIDE DEF P
  <2> QED BY <1>1, <1>2
<1> QED BY <1>3

----------------------------------------------------------------------------
(* Times.  What is told of one is its remainder. *)

LEMMA DivMod ==
    ASSUME NEW v \in Nat, NEW d \in Nat \ {0}, NEW q, q = v \div d, NEW r, r = v % d
    PROVE  q \in Nat /\ r \in 0..(d - 1) /\ v = d * q + r
OBVIOUS

LEMMA Remainder ==
    ASSUME NEW d \in Nat \ {0}, NEW q \in Nat, NEW r \in 0..d - 1, NEW v \in Nat, v = d * q + r
    PROVE  v % d = r /\ v \div d = q
OBVIOUS

\* With v = T*T*a + T*b + c in parts, a of any size.
LEMMA TimeIsTold ==
    ASSUME NEW v \in Nat
    PROVE  TimeOf(Time33(v)) = v % TimeRange
<1>1. PICK T, H, A, a, b, c : /\ T = TimePart /\ H = TimeHigh /\ A = T * T
                              /\ a = v \div A /\ b = (v \div T) % T /\ c = v % T
    OBVIOUS
<1>2. T \in Nat \ {0} /\ H \in Nat \ {0}
    BY <1>1, PacketAssumption
<1>3. A \in Nat \ {0}
    BY <1>1, <1>2
<1>4. PICK e, q : e = v \div T /\ q = e \div T
    OBVIOUS
<1>5. e \in Nat /\ c \in 0..(T - 1) /\ v = T * e + c
  <2>1. e = v \div T /\ c = v % T
    BY <1>1, <1>4
  <2> QED BY <1>2, <2>1
<1>6. q \in Nat /\ b \in 0..(T - 1) /\ e = T * q + b
  <2>1. q = e \div T /\ b = e % T
    BY <1>1, <1>4
  <2> QED BY <1>2, <1>5, <2>1
<1>7. T * e = T * (T * q) + T * b /\ T * (T * q) = A * q
  <2>1. T * (T * q + b) = T * (T * q) + T * b
    BY <1>2, <1>6
  <2>2. T * (T * q) = (T * T) * q
    BY <1>2, <1>6
  <2> QED BY <1>1, <1>6, <2>1, <2>2
<1>8. PICK r : r = T * b + c
    OBVIOUS
<1>9. r \in 0..(A - 1) /\ v = A * q + r
  <2>1. T * b <= T * (T - 1)
    BY <1>2, <1>6
  <2>2. T * (T - 1) = A - T
    BY <1>1, <1>2
  <2>3. T * b \in Nat
    BY <1>2, <1>6
  <2> QED BY <1>2, <1>3, <1>5, <1>6, <1>7, <1>8, <2>1, <2>2, <2>3
<1>10. a = q
    BY <1>1, <1>3, <1>6, <1>9, Remainder
<1>11. PICK x, y : x = a % H /\ y = a \div H
    OBVIOUS
<1>12. x \in 0..(H - 1) /\ y \in Nat /\ a = H * y + x
  <2>1. a \in Nat
    BY <1>6, <1>10
  <2> QED BY <1>2, <1>11, <2>1
<1>13. A * a = A * (H * y) + A * x /\ A * (H * y) = (A * H) * y
  <2>1. A * (H * y + x) = A * (H * y) + A * x
    BY <1>2, <1>3, <1>12
  <2>2. A * (H * y) = (A * H) * y
    BY <1>2, <1>3, <1>12
  <2> QED BY <1>12, <2>1, <2>2
<1>14. PICK R, s : R = A * H /\ s = A * x + r
    OBVIOUS
<1>15. R \in Nat \ {0} /\ s \in 0..(R - 1)
  <2>1. A * x <= A * (H - 1)
    BY <1>2, <1>3, <1>12
  <2>2. A * (H - 1) = R - A
    BY <1>2, <1>3, <1>14
  <2>3. A * x \in Nat /\ R \in Nat \ {0}
    BY <1>2, <1>3, <1>12, <1>14
  <2> QED BY <1>3, <1>9, <1>14, <2>1, <2>2, <2>3
<1>16. v = R * y + s
    BY <1>3, <1>9, <1>10, <1>12, <1>13, <1>14, <1>15
<1>17. v % R = s
    BY <1>12, <1>15, <1>16, Remainder
<1>18. TimeOf(Time33(v)) = (x * T + b) * T + c
    BY <1>1, <1>11 DEF TimeOf, Time33
<1>19. (x * T + b) * T + c = s
  <2>1. (x * T + b) * T = (x * T) * T + b * T
    BY <1>2, <1>6, <1>12
  <2>2. (x * T) * T = A * x
    BY <1>1, <1>2, <1>12
  <2>3. b * T = T * b
    BY <1>2, <1>6
  <2> QED BY <1>2, <1>3, <1>5, <1>6, <1>8, <1>12, <1>14, <2>1, <2>2, <2>3
<1>20. TimeRange = R
    BY <1>1, <1>14 DEF TimeRange
<1> QED BY <1>17, <1>18, <1>19, <1>20

LEMMA ClockIsBehind ==
    ASSUME NEW v \in Nat
    PROVE  (v % TimeRange) - ClockBase(v) \in 0..ClockStep - 1
<1>1. TimeRange \in Nat \ {0} /\ ClockStep \in Nat \ {0}
    BY PacketAssumption DEF TimeRange
<1>2. v % TimeRange \in Nat /\ v % ClockStep \in 0..ClockStep - 1
    BY <1>1, DivMod
<1>3. (v % TimeRange) - ClockBase(v) = v % ClockStep
    BY <1>2 DEF ClockBase
<1> QED BY <1>2, <1>3

----------------------------------------------------------------------------
(* What the parts of the headers take. *)

LEMMA PartSize ==
    ASSUME NEW p, NEW n \in Nat
    PROVE  IsFiniteSet({p} \X (1..n)) /\ Cardinality({p} \X (1..n)) = n
<1>1. IsFiniteSet({p}) /\ Cardinality({p}) = 1
    BY FS_Singleton
<1>2. IsFiniteSet(1..n) /\ Cardinality(1..n) = n
    BY FS_Interval
<1>3. IsFiniteSet({p} \X (1..n)) /\ Cardinality({p} \X (1..n)) = Cardinality({p}) * Cardinality(1..n)
    BY <1>1, <1>2, FS_Product
<1>4. 1 * n = n
    OBVIOUS
<1> QED BY <1>1, <1>2, <1>3, <1>4

LEMMA NoParts == ASSUME NEW sizes PROVE SizeOf({}, sizes) = 0
<1>1. UNION {{p} \X (1..sizes[p]) : p \in {}} = {}
    OBVIOUS
<1> QED BY <1>1, FS_EmptySet DEF SizeOf

LEMMA OnePart ==
    ASSUME NEW sizes, NEW p, sizes[p] \in Nat
    PROVE  SizeOf({p}, sizes) = sizes[p]
<1>1. UNION {{q} \X (1..sizes[q]) : q \in {p}} = {p} \X (1..sizes[p])
    OBVIOUS
<1> QED BY <1>1, PartSize DEF SizeOf

LEMMA TwoParts ==
    ASSUME NEW sizes, NEW p, NEW q, p # q, sizes[p] \in Nat, sizes[q] \in Nat
    PROVE  SizeOf({p, q}, sizes) = sizes[p] + sizes[q]
<1> DEFINE P == {p} \X (1..sizes[p])
           Q == {q} \X (1..sizes[q])
<1>1. UNION {{r} \X (1..sizes[r]) : r \in {p, q}} = P \cup Q
    OBVIOUS
<1>2. P \cap Q = {}
    OBVIOUS
<1>3. IsFiniteSet(P) /\ Cardinality(P) = sizes[p] /\ IsFiniteSet(Q) /\ Cardinality(Q) = sizes[q]
    BY PartSize
<1>4. Cardinality(P \cup Q) = sizes[p] + sizes[q]
  <2>1. Cardinality({}) = 0
    BY FS_EmptySet
  <2>2. Cardinality(P \cup Q) = Cardinality(P) + Cardinality(Q) - Cardinality(P \cap Q)
    BY <1>3, FS_Union
  <2>3. sizes[p] + sizes[q] - 0 = sizes[p] + sizes[q]
    OBVIOUS
  <2> HIDE DEF P, Q
  <2> QED BY <1>2, <1>3, <2>1, <2>2, <2>3, Zenon
<1> QED BY <1>1, <1>4 DEF SizeOf

\* The headers the encoder makes.
LEMMA HeaderSizes ==
    /\ SizeOf({}, AdaptationParts) = 0 /\ SizeOf({"pcr"}, AdaptationParts) = 6
    /\ SizeOf({}, PesParts) = 0 /\ SizeOf({"pts"}, PesParts) = 5
    /\ SizeOf({"pts", "dts"}, PesParts) = 10
<1>1. AdaptationParts["pcr"] = 6
    BY DEF AdaptationParts
<1>2. PesParts["pts"] = 5 /\ PesParts["dts"] = 5
    BY DEF PesParts
<1>3. SizeOf({"pcr"}, AdaptationParts) = 6
    BY <1>1, OnePart
<1>4. SizeOf({"pts"}, PesParts) = 5
    BY <1>2, OnePart
<1>5. SizeOf({"pts", "dts"}, PesParts) = 10
  <2>1. PesParts["pts"] \in Nat /\ PesParts["dts"] \in Nat /\ "pts" # "dts"
    BY <1>2
  <2>2. SizeOf({"pts", "dts"}, PesParts) = PesParts["pts"] + PesParts["dts"]
    BY <2>1, TwoParts
  <2> QED BY <1>2, <2>2
<1> QED BY <1>3, <1>4, <1>5, NoParts

----------------------------------------------------------------------------
(* One packet. *)

\* A packet of the encoder in memory, and what its payload takes.
PesMade(start, pid, control, cc, a, payload) ==
    [sync |-> TRUE, start |-> start, pid |-> pid, control |-> control, cc |-> cc,
     adaptation |-> a, payload |-> payload]
Stuffed(parts, clock, n) == [parts |-> parts, clock |-> clock, reserved |-> n]
PesHeader(sid, length, dts, pts) ==
    PesPayload(sid, length, IF dts = pts THEN {"pts"} ELSE {"pts", "dts"}, dts, pts)
Sids == {"none", "VideoCommon", "AudioCommon"}
HeaderTakes(dts, pts) == IF dts = pts THEN 14 ELSE 19
AdaptationTakes(control, parts, n) ==
    IF control = Both THEN 2 + SizeOf(parts, AdaptationParts) + n ELSE 0

LEMMA HeaderRecord ==
    ASSUME NEW sid \in Sids, NEW length, NEW dts, NEW pts, NEW pay, pay = PesHeader(sid, length, dts, pts)
    PROVE  /\ pay.kind = "PES" /\ pay.sid = sid /\ pay.length = length /\ pay.stuffing = 0
           /\ pay.parts = IF dts = pts THEN {"pts"} ELSE {"pts", "dts"}
           /\ pay.dts = dts /\ pay.pts = pts /\ sid \notin Headless
           /\ HeaderDataLength(pay) = HeaderTakes(dts, pts) - 9
           /\ PesSize(pay) = HeaderTakes(dts, pts)
<1>1. /\ pay.kind = "PES" /\ pay.sid = sid /\ pay.length = length /\ pay.stuffing = 0
      /\ pay.parts = IF dts = pts THEN {"pts"} ELSE {"pts", "dts"}
      /\ pay.dts = dts /\ pay.pts = pts
    BY DEF PesHeader, PesPayload
<1>2. sid \notin Headless
    BY DEF Sids, Headless
<1>3. HeaderDataLength(pay) = HeaderTakes(dts, pts) - 9
    BY <1>1, HeaderSizes DEF HeaderDataLength, HeaderTakes
<1>4. PesSize(pay) = HeaderTakes(dts, pts)
    BY <1>1, <1>2, <1>3 DEF PesSize, HeaderTakes
<1> QED BY <1>1, <1>2, <1>3, <1>4

LEMMA MadeSize ==
    ASSUME NEW start, NEW pid, NEW control \in {PayloadOnly, Both}, NEW cc, NEW parts, NEW clock,
           NEW n \in Nat, NEW pay, NEW h \in Nat,
           \/ pay = NoPayload /\ h = 0
           \/ pay.kind = "PES" /\ PesSize(pay) = h,
           SizeOf(parts, AdaptationParts) \in Nat,
           NEW p, p = PesMade(start, pid, control, cc, Stuffed(parts, clock, n), pay)
    PROVE  SizeOfPacket(p) = 4 + AdaptationTakes(control, parts, n) + h
<1>1. p.control = control /\ p.payload = pay
      /\ p.adaptation.parts = parts /\ p.adaptation.reserved = n
    BY DEF PesMade, Stuffed
<1>2. PayloadSize(p) = h
    BY <1>1 DEF PayloadSize, NoPayload
<1>3. HasAdaptation(p) <=> control = Both
    BY <1>1 DEF HasAdaptation, AdaptationOnly, Both, PayloadOnly
<1>4. AdaptationSize(p.adaptation) = 2 + SizeOf(parts, AdaptationParts) + n
    BY <1>1 DEF AdaptationSize
<1> QED BY <1>2, <1>3, <1>4 DEF SizeOfPacket, AdaptationTakes

\* The updates of a packet; its first field is always TRUE.
LEMMA Readapted ==
    ASSUME NEW start, NEW pid, NEW control, NEW cc, NEW a, NEW pay, NEW v, NEW o,
           o = PesMade(start, pid, control, cc, a, pay)
    PROVE  [o EXCEPT !.adaptation = v] = PesMade(start, pid, control, cc, v, pay)
<1>1. PICK t : t = TRUE
    OBVIOUS
<1>2. o = [sync |-> t, start |-> start, pid |-> pid, control |-> control, cc |-> cc,
           adaptation |-> a, payload |-> pay]
    BY <1>1 DEF PesMade
<1>3. [o EXCEPT !.adaptation = v]
         = [sync |-> t, start |-> start, pid |-> pid, control |-> control, cc |-> cc,
            adaptation |-> v, payload |-> pay]
    BY <1>2
<1> QED BY <1>1, <1>3 DEF PesMade

LEMMA Recontrolled ==
    ASSUME NEW start, NEW pid, NEW control, NEW cc, NEW a, NEW pay, NEW v, NEW o,
           o = PesMade(start, pid, control, cc, a, pay)
    PROVE  [o EXCEPT !.control = v] = PesMade(start, pid, v, cc, a, pay)
<1>1. PICK t : t = TRUE
    OBVIOUS
<1>2. o = [sync |-> t, start |-> start, pid |-> pid, control |-> control, cc |-> cc,
           adaptation |-> a, payload |-> pay]
    BY <1>1 DEF PesMade
<1>3. [o EXCEPT !.control = v]
         = [sync |-> t, start |-> start, pid |-> pid, control |-> v, cc |-> cc,
            adaptation |-> a, payload |-> pay]
    BY <1>2
<1> QED BY <1>1, <1>3 DEF PesMade

LEMMA Recounted ==
    ASSUME NEW start, NEW pid, NEW control, NEW cc, NEW a, NEW pay, NEW v, NEW o,
           o = PesMade(start, pid, control, cc, a, pay)
    PROVE  [o EXCEPT !.cc = v] = PesMade(start, pid, control, v, a, pay)
<1>1. PICK t : t = TRUE
    OBVIOUS
<1>2. o = [sync |-> t, start |-> start, pid |-> pid, control |-> control, cc |-> cc,
           adaptation |-> a, payload |-> pay]
    BY <1>1 DEF PesMade
<1>3. [o EXCEPT !.cc = v]
         = [sync |-> t, start |-> start, pid |-> pid, control |-> control, cc |-> v,
            adaptation |-> a, payload |-> pay]
    BY <1>2
<1> QED BY <1>1, <1>3 DEF PesMade

LEMMA PaddedIs ==
    ASSUME NEW start, NEW pid, NEW control \in {PayloadOnly, Both}, NEW parts, NEW clock, NEW pay,
           NEW n \in Nat \ {0},
           NEW p, p = PesMade(start, pid, control, 0, Stuffed(parts, clock, 0), pay)
    PROVE  Padding(p, n) = PesMade(start, pid, Both, 0,
                              Stuffed(parts, clock,
                                      IF control = Both THEN n ELSE IF n <= 2 THEN 0 ELSE n - 2),
                              pay)
<1>1. PICK r : r = IF HasAdaptation(p) THEN n ELSE Max({0, n - 2})
    OBVIOUS
<1>2. HasAdaptation(p) <=> control = Both
    BY DEF HasAdaptation, AdaptationOnly, Both, PayloadOnly, PesMade
<1>3. Max({0, n - 2}) = IF n <= 2 THEN 0 ELSE n - 2
  <2>1. Max({0, n - 2}) = IF 0 <= n - 2 THEN n - 2 ELSE 0
    BY GreatestOfTwo
  <2> QED BY <2>1
<1>4. Padding(p, n) = [p EXCEPT !.adaptation.reserved = r, !.control = Both]
    BY <1>1 DEF Padding
<1>5. [p EXCEPT !.adaptation.reserved = r, !.control = Both]
         = PesMade(start, pid, Both, 0, Stuffed(parts, clock, r), pay)
  <2>1. PICK a, b : a = Stuffed(parts, clock, 0) /\ b = Stuffed(parts, clock, r)
    OBVIOUS
  <2>2. [a EXCEPT !.reserved = r] = b
    BY <2>1 DEF Stuffed
  <2>3. p = PesMade(start, pid, control, 0, a, pay) /\ p.adaptation = a
    BY <2>1 DEF PesMade
  <2>4. [p EXCEPT !.adaptation.reserved = r, !.control = Both]
           = [p EXCEPT !.adaptation = b, !.control = Both]
    BY <2>2, <2>3 DEF PesMade
  <2>5. [p EXCEPT !.adaptation = b, !.control = Both] = PesMade(start, pid, Both, 0, b, pay)
    <3>1. PICK o : o = [p EXCEPT !.adaptation = b]
      OBVIOUS
    <3>2. o = PesMade(start, pid, control, 0, b, pay)
      <4>1. p = PesMade(start, pid, control, 0, a, pay)
        BY <2>3
      <4>2. [p EXCEPT !.adaptation = b] = PesMade(start, pid, control, 0, b, pay)
        BY <4>1, Readapted
      <4> QED BY <3>1, <4>2
    <3>3. [o EXCEPT !.control = Both] = PesMade(start, pid, Both, 0, b, pay)
      <4>1. PICK q : q = [o EXCEPT !.control = Both]
        OBVIOUS
      <4>2. q = PesMade(start, pid, Both, 0, b, pay)
        BY <3>2, <4>1, Recontrolled
      <4> QED BY <4>1, <4>2
    <3> QED BY <3>1, <3>3
  <2> QED BY <2>1, <2>4, <2>5
<1>6. r = IF control = Both THEN n ELSE IF n <= 2 THEN 0 ELSE n - 2
    BY <1>1, <1>2, <1>3
<1> QED BY <1>4, <1>5, <1>6

\* The room of a packet, what of it is stuffed, and the packet padded (encode_pes).
Room(p) == PacketSize - SizeOfPacket(p)
Over(p, left) == Room(p) - Min({left, Room(p)})
Finished(p, left) == IF Over(p, left) > 0 THEN Padding(p, Over(p, left)) ELSE p

\* Headers, stuffing and n bytes fill the packet q.
IsFilled(q, n, start, pid, parts, clock, pay, h, left) ==
    \E c \in {PayloadOnly, Both}, r \in Nat :
        /\ q = PesMade(start, pid, c, 0, Stuffed(parts, clock, r), pay)
        /\ n \in 1..left
        /\ n = PacketSize - 4 - AdaptationTakes(c, parts, r) - h

\* Stuffing and data fill a packet, and there is some of the data.
LEMMA FilledUp ==
    ASSUME NEW start, NEW pid, NEW control \in {PayloadOnly, Both}, NEW parts, NEW clock,
           NEW pay, NEW h \in Nat, h <= 19,
           \/ pay = NoPayload /\ h = 0
           \/ pay.kind = "PES" /\ PesSize(pay) = h,
           SizeOf(parts, AdaptationParts) \in 0..6,
           control = Both \/ SizeOf(parts, AdaptationParts) = 0,
           NEW p, p = PesMade(start, pid, control, 0, Stuffed(parts, clock, 0), pay),
           NEW left \in Nat \ {0}
    PROVE  IsFilled(Finished(p, left), Min({left, Room(Finished(p, left))}),
                    start, pid, parts, clock, pay, h, left)
<1>1. PICK room, stuffing, q, n :
          /\ room = PacketSize - SizeOfPacket(p) /\ stuffing = room - Min({left, room})
          /\ q = Finished(p, left) /\ q = IF stuffing > 0 THEN Padding(p, stuffing) ELSE p
          /\ n = Min({left, Room(Finished(p, left))}) /\ n = Min({left, PacketSize - SizeOfPacket(q)})
    BY DEF Room, Over, Finished
<1>2. PICK z : z = SizeOf(parts, AdaptationParts)
    OBVIOUS
<1>3. z \in 0..6 /\ (control = Both \/ z = 0)
    BY <1>2
<1>4. SizeOfPacket(p) = 4 + AdaptationTakes(control, parts, 0) + h
  <2>1. SizeOf(parts, AdaptationParts) \in Nat /\ 0 \in Nat
    BY <1>2, <1>3
  <2> QED BY <2>1, MadeSize
<1>5. AdaptationTakes(control, parts, 0) = IF control = Both THEN 2 + z ELSE 0
    BY <1>2, <1>3 DEF AdaptationTakes
<1>6. PacketSize \in Nat /\ PacketSize > 40 /\ room \in Nat /\ room > 8
      /\ room = PacketSize - 4 - (IF control = Both THEN 2 + z ELSE 0) - h
    BY <1>1, <1>3, <1>4, <1>5, PacketAssumption
<1>7. stuffing = IF left <= room THEN room - left ELSE 0
  <2>1. Min({left, room}) = IF left <= room THEN left ELSE room
    BY <1>6, LeastOfTwo
  <2> QED BY <1>1, <1>6, <2>1
<1>8. CASE stuffing > 0
  <2>1. PICK r : r = IF control = Both THEN stuffing ELSE IF stuffing <= 2 THEN 0 ELSE stuffing - 2
    OBVIOUS
  <2>2. stuffing \in Nat \ {0} /\ left < room /\ stuffing = room - left /\ r \in Nat
    BY <1>6, <1>7, <1>8, <2>1
  <2>3. q = PesMade(start, pid, Both, 0, Stuffed(parts, clock, r), pay)
    BY <1>1, <1>8, <2>1, <2>2, PaddedIs
  <2>4. SizeOfPacket(q) = 4 + AdaptationTakes(Both, parts, r) + h
    BY <1>2, <1>3, <2>2, <2>3, MadeSize
  <2>5. AdaptationTakes(Both, parts, r) = 2 + z + r
    BY <1>2, <1>3, <2>2 DEF AdaptationTakes
  <2>6. PICK rest : rest = PacketSize - SizeOfPacket(q)
    OBVIOUS
  <2>7. rest = PacketSize - 4 - (2 + z + r) - h
    BY <1>3, <1>6, <2>2, <2>4, <2>5, <2>6
  <2>8. rest \in 1..left
    BY <1>3, <1>6, <2>1, <2>2, <2>7
  <2>9. n = rest
    <3>1. n = IF left <= rest THEN left ELSE rest
      BY <1>1, <2>6, <2>8, LeastOfTwo
    <3> QED BY <2>8, <3>1
  <2>10. Both \in {PayloadOnly, Both}
    OBVIOUS
  <2> QED BY <1>1, <2>2, <2>3, <2>5, <2>7, <2>8, <2>9, <2>10 DEF IsFilled
<1>9. CASE ~ (stuffing > 0)
  <2>1. q = p /\ room <= left
    BY <1>1, <1>6, <1>7, <1>9
  <2>2. n = IF left <= room THEN left ELSE room
    BY <1>1, <1>6, <2>1, LeastOfTwo
  <2>3. n = room /\ n \in 1..left
    BY <1>6, <2>1, <2>2
  <2>4. n = PacketSize - 4 - AdaptationTakes(control, parts, 0) - h
    BY <1>5, <1>6, <2>3
  <2>5. q = PesMade(start, pid, control, 0, Stuffed(parts, clock, 0), pay) /\ 0 \in Nat
    BY <2>1
  <2> QED BY <1>1, <2>3, <2>4, <2>5 DEF IsFilled
<1> QED BY <1>8, <1>9

\* On the wire a packet says of its headers what they take.
LEMMA EncodedIs ==
    ASSUME NEW start, NEW pid, NEW control, NEW cc, NEW parts, NEW clock, NEW r, NEW pay, NEW d,
           NEW w, w = EncodePacket(PesMade(start, pid, control, cc, Stuffed(parts, clock, r), pay), d)
    PROVE  /\ w.start = start /\ w.control = control /\ w.data = d
           /\ w.adaptation.parts = parts
           /\ w.adaptation.length = (2 + SizeOf(parts, AdaptationParts) + r) - 1
           /\ w.adaptation.clock = IF "pcr" \in parts THEN ClockBase(clock) ELSE 0
           /\ w.payload = EncodePayload(pay)
<1>1. PICK p : p = PesMade(start, pid, control, cc, Stuffed(parts, clock, r), pay)
    OBVIOUS
<1>2. PICK a : a = Stuffed(parts, clock, r)
    OBVIOUS
<1>3. /\ p.start = start /\ p.control = control /\ p.payload = pay /\ p.adaptation = a
    BY <1>1, <1>2 DEF PesMade
<1>4. a.parts = parts /\ a.clock = clock /\ a.reserved = r
    BY <1>2 DEF Stuffed
<1>5. /\ w.start = p.start /\ w.control = p.control /\ w.data = d
      /\ w.adaptation = EncodeAdaptation(a) /\ w.payload = EncodePayload(pay)
    BY <1>1, <1>3 DEF EncodePacket
<1>6. PICK e : e = EncodeAdaptation(a)
    OBVIOUS
<1>7. /\ e.parts = parts
      /\ e.length = AdaptationSize(a) - 1
      /\ e.clock = IF "pcr" \in parts THEN ClockBase(clock) ELSE 0
    BY <1>4, <1>6 DEF EncodeAdaptation
<1>8. AdaptationSize(a) = 2 + SizeOf(parts, AdaptationParts) + r
    BY <1>4 DEF AdaptationSize
<1> QED BY <1>3, <1>5, <1>6, <1>7, <1>8

\* What is read of a header of the encoder.
LEMMA HeaderRead ==
    ASSUME NEW sid \in Sids, NEW length, NEW dts \in Nat, NEW pts \in Nat,
           NEW pay, pay = PesHeader(sid, length, dts, pts),
           NEW w, w.start, w.payload = EncodePayload(pay)
    PROVE  /\ PesHeaderRead(w) = HeaderTakes(dts, pts)
           /\ DtsRead(w) = dts % TimeRange
<1>1. /\ pay.kind = "PES" /\ pay.sid = sid
      /\ pay.parts = IF dts = pts THEN {"pts"} ELSE {"pts", "dts"}
      /\ pay.dts = dts /\ pay.pts = pts /\ sid \notin Headless
      /\ HeaderDataLength(pay) = HeaderTakes(dts, pts) - 9
    BY HeaderRecord
<1>2. PICK e : e = EncodePes(pay)
    OBVIOUS
<1>3. w.payload = e
    BY <1>1, <1>2 DEF EncodePayload
<1>4. /\ e.sid = sid /\ e.parts = pay.parts /\ e.header = HeaderDataLength(pay)
      /\ e.pts = Time33(pts)
      /\ e.dts = IF "dts" \in pay.parts THEN Time33(dts) ELSE <<0, 0, 0>>
    BY <1>1, <1>2 DEF EncodePes
<1>5. PesHeaderRead(w) = HeaderTakes(dts, pts)
    BY <1>1, <1>3, <1>4 DEF PesHeaderRead, HeaderTakes
<1>6. CASE dts = pts
  <2>1. pay.parts = {"pts"} /\ "dts" \notin {"pts"}
    BY <1>1, <1>6
  <2>2. DtsRead(w) = TimeOf(Time33(pts))
    BY <1>3, <1>4, <2>1 DEF DtsRead, PtsRead
  <2> QED BY <1>5, <1>6, <2>2, TimeIsTold
<1>7. CASE dts # pts
  <2>1. pay.parts = {"pts", "dts"} /\ "dts" \in {"pts", "dts"}
    BY <1>1, <1>7
  <2>2. DtsRead(w) = TimeOf(Time33(dts))
    BY <1>3, <1>4, <2>1 DEF DtsRead
  <2> QED BY <1>5, <2>2, TimeIsTold
<1> QED BY <1>6, <1>7

\* A packet that is filled is sound on the wire, its clock that of its frame.
LEMMA FilledIsSound ==
    ASSUME NEW start, NEW pid, NEW control \in {PayloadOnly, Both}, NEW cc, NEW parts, NEW clock,
           NEW r \in Nat,
           SizeOf(parts, AdaptationParts) \in Nat, NEW dts \in Nat, NEW pts \in Nat,
           "pcr" \in parts => clock = dts,
           NEW pay, NEW h \in Nat, NEW d, d.n \in Nat \ {0},
           \/ start = FALSE /\ h = 0 /\ parts = {}
           \/ /\ start = TRUE /\ h = HeaderTakes(dts, pts)
              /\ \E sid \in Sids : \E length : pay = PesHeader(sid, length, dts, pts),
           d.n = PacketSize - 4 - AdaptationTakes(control, parts, r) - h
    PROVE  Sound(EncodePacket(PesMade(start, pid, control, cc, Stuffed(parts, clock, r), pay), d))
<1>1. PICK w : w = EncodePacket(PesMade(start, pid, control, cc, Stuffed(parts, clock, r), pay), d)
    OBVIOUS
<1>2. /\ w.start = start /\ w.control = control /\ w.data = d
      /\ w.adaptation.parts = parts
      /\ w.adaptation.length = (2 + SizeOf(parts, AdaptationParts) + r) - 1
      /\ w.adaptation.clock = IF "pcr" \in parts THEN ClockBase(clock) ELSE 0
      /\ w.payload = EncodePayload(pay)
    BY <1>1, EncodedIs
<1>3. PICK z : z = SizeOf(parts, AdaptationParts)
    OBVIOUS
<1>4. z \in Nat /\ PacketSize \in Nat
      /\ AdaptationTakes(control, parts, r) = IF control = Both THEN 2 + z + r ELSE 0
    BY <1>3, PacketAssumption DEF AdaptationTakes
<1>5. ~AdaptationFails(w)
    BY <1>2, <1>3, <1>4 DEF AdaptationFails, AdaptationOnly, Both, PayloadOnly
<1>6. PayloadRead(w) = PacketSize - 4 - AdaptationTakes(control, parts, r)
  <2>1. HasAdaptation(w) <=> control = Both
    BY <1>2 DEF HasAdaptation, AdaptationOnly, Both, PayloadOnly
  <2> QED BY <1>2, <1>3, <1>4, <2>1 DEF PayloadRead, AdaptationRead
<1>7. PesHeaderRead(w) = h /\ ("pcr" \in parts => DtsRead(w) = dts % TimeRange)
  <2>1. CASE start = FALSE /\ h = 0 /\ parts = {}
    BY <1>2, <2>1 DEF PesHeaderRead
  <2>2. CASE /\ start = TRUE /\ h = HeaderTakes(dts, pts)
             /\ \E sid \in Sids : \E length : pay = PesHeader(sid, length, dts, pts)
    <3>1. PICK sid \in Sids : \E length : pay = PesHeader(sid, length, dts, pts)
      BY <2>2
    <3>2. PICK length : pay = PesHeader(sid, length, dts, pts)
      BY <3>1
    <3>3. w.start /\ w.payload = EncodePayload(pay)
      BY <1>2, <2>2
    <3>4. PesHeaderRead(w) = HeaderTakes(dts, pts) /\ DtsRead(w) = dts % TimeRange
      BY <3>2, <3>3, HeaderRead
    <3> QED BY <2>2, <3>4
  <2> QED BY <2>1, <2>2
<1>8. w.data.n = DataRead(w)
    BY <1>2, <1>4, <1>6, <1>7 DEF DataRead
<1>9. "pcr" \in w.adaptation.parts => DtsRead(w) - w.adaptation.clock \in 0..ClockStep - 1
    BY <1>2, <1>7, ClockIsBehind
<1> QED BY <1>1, <1>5, <1>8, <1>9 DEF Sound

\* What encode_pes makes, before it is padded.
LEMMA BaseIs ==
    ASSUME NEW pid, NEW start, NEW cc, NEW pay
    PROVE  Base(pid, start, cc, pay) = PesMade(start, pid, PayloadOnly, cc, Stuffed({}, 0, 0), pay)
BY DEF Base, PesMade, Stuffed, Adaptation

WithClock(o, key, dts) ==
    IF key THEN [o EXCEPT !.control = Both, !.adaptation = Adaptation({"pcr"}, dts)] ELSE o
IsMade(p, start, pid, pay, dts) ==
    \E control \in {PayloadOnly, Both}, parts \in {{}, {"pcr"}} : \E clock :
        /\ p = PesMade(start, pid, control, 0, Stuffed(parts, clock, 0), pay)
        /\ control = Both \/ parts = {}
        /\ "pcr" \in parts => clock = dts

LEMMA ClockAdded ==
    ASSUME NEW dts, NEW pid, NEW start, NEW pay, NEW key
    PROVE  IsMade(WithClock(Base(pid, start, 0, pay), key, dts), start, pid, pay, dts)
<1>1. PICK o, p : o = Base(pid, start, 0, pay) /\ p = WithClock(o, key, dts)
    OBVIOUS
<1>2. o = PesMade(start, pid, PayloadOnly, 0, Stuffed({}, 0, 0), pay)
    BY <1>1, BaseIs
<1>3. CASE key
  <2>1. PICK a : a = Stuffed({"pcr"}, dts, 0) /\ a = Adaptation({"pcr"}, dts)
    BY DEF Adaptation, Stuffed
  <2>2. PICK q : q = [o EXCEPT !.control = Both]
    OBVIOUS
  <2>3. q = PesMade(start, pid, Both, 0, Stuffed({}, 0, 0), pay)
    BY <1>2, <2>2, Recontrolled
  <2>4. p = [q EXCEPT !.adaptation = a]
    BY <1>1, <1>3, <2>1, <2>2 DEF WithClock
  <2>5. [q EXCEPT !.adaptation = a] = PesMade(start, pid, Both, 0, a, pay)
    BY <2>3, Readapted
  <2> QED BY <1>1, <2>1, <2>4, <2>5 DEF IsMade
<1>4. CASE ~key
  <2>1. p = PesMade(start, pid, PayloadOnly, 0, Stuffed({}, 0, 0), pay) /\ ~ ("pcr" \in {})
    BY <1>1, <1>2, <1>4 DEF WithClock
  <2> QED BY <1>1, <2>1 DEF IsMade
<1> QED BY <1>3, <1>4

LEMMA FirstIs ==
    ASSUME NEW m, Sendable(m), NEW pid, NEW length,
           length = IF m.size > PesLengthMax THEN 0 ELSE m.size
    PROVE  CreatePesFirst(pid, m.sid, 0, IF m.key THEN m.dts ELSE -1, m.dts, m.pts, m.size)
              = WithClock(Base(pid, TRUE, 0, PesHeader(m.sid, length, m.dts, m.pts)), m.key, m.dts)
<1>1. ~ (m.dts < 0) /\ -1 < 0
    BY DEF Sendable
<1> QED BY <1>1 DEF CreatePesFirst, PesHeader, WithClock

\* One packet of a message: some of its data, and sound whatever its counter.
PieceSound(x) == \A cc : Sound(EncodePacket([x.made EXCEPT !.cc = cc], x.data))

LEMMA PieceOf ==
    ASSUME NEW m, Sendable(m), NEW pid, NEW from \in 0..(m.size - 1), NEW unit,
           NEW q, q = MadeFor(m, pid, from), NEW n, n = Taken(m, q, from),
           NEW x, x = [made |-> q, data |-> [unit |-> unit, from |-> from, n |-> n]]
    PROVE  n \in 1..(m.size - from) /\ PieceSound(x)
<1>1. m.size \in Nat /\ m.dts \in Nat /\ m.pts \in Nat /\ m.sid \in Sids
    BY DEF Sendable, Sids
<1>2. PICK left : left = m.size - from
    OBVIOUS
<1>3. left \in Nat \ {0}
    BY <1>1, <1>2
<1>4. PICK p : p = IF from = 0
                   THEN CreatePesFirst(pid, m.sid, 0, IF m.key THEN m.dts ELSE -1, m.dts, m.pts, m.size)
                   ELSE CreatePesContinue(pid, 0)
    OBVIOUS
<1>5. q = Finished(p, left)
    BY <1>2, <1>4 DEF MadeFor, Finished, Over, Room
<1>6. n = Min({left, Room(q)})
    BY <1>2 DEF Taken, Room
<1>7. PICK d : d = [unit |-> unit, from |-> from, n |-> n]
    OBVIOUS
<1>8. x.made = q /\ x.data = d /\ d.n = n
    BY <1>7
<1>9. \E start : \E control \in {PayloadOnly, Both}, parts \in {{}, {"pcr"}} :
      \E h \in Nat : \E clock, pay :
         /\ p = PesMade(start, pid, control, 0, Stuffed(parts, clock, 0), pay)
         /\ control = Both \/ parts = {}
         /\ "pcr" \in parts => clock = m.dts
         /\ h <= 19
         /\ \/ start = FALSE /\ h = 0 /\ parts = {} /\ pay = NoPayload
            \/ /\ start = TRUE /\ h = HeaderTakes(m.dts, m.pts)
               /\ \E sid \in Sids : \E length : pay = PesHeader(sid, length, m.dts, m.pts)
               /\ pay.kind = "PES" /\ PesSize(pay) = h
  <2>1. CASE from = 0
    <3>1. PICK length : length = IF m.size > PesLengthMax THEN 0 ELSE m.size
      OBVIOUS
    <3>2. PICK start, pay, h : /\ start = TRUE /\ pay = PesHeader(m.sid, length, m.dts, m.pts)
                               /\ h = HeaderTakes(m.dts, m.pts)
      OBVIOUS
    <3>3. p = WithClock(Base(pid, start, 0, pay), m.key, m.dts)
      BY <1>4, <2>1, <3>1, <3>2, FirstIs
    <3>4. IsMade(p, start, pid, pay, m.dts)
      BY <3>3, ClockAdded
    <3>5. PICK control \in {PayloadOnly, Both}, parts \in {{}, {"pcr"}} : \E clock :
              /\ p = PesMade(start, pid, control, 0, Stuffed(parts, clock, 0), pay)
              /\ control = Both \/ parts = {}
              /\ "pcr" \in parts => clock = m.dts
      BY <3>4 DEF IsMade
    <3>6. pay.kind = "PES" /\ PesSize(pay) = h
      BY <1>1, <3>2, HeaderRecord
    <3>7. h \in Nat /\ h <= 19
      BY <3>2 DEF HeaderTakes
    <3> QED BY <1>1, <3>2, <3>5, <3>6, <3>7
  <2>2. CASE from # 0
    <3>1. PICK start, control, parts : start = FALSE /\ control = PayloadOnly /\ parts = {}
      OBVIOUS
    <3>2. p = Base(pid, start, 0, NoPayload)
      BY <1>4, <2>2, <3>1 DEF CreatePesContinue
    <3>3. p = PesMade(start, pid, control, 0, Stuffed(parts, 0, 0), NoPayload)
      BY <3>1, <3>2, BaseIs
    <3>4. /\ control \in {PayloadOnly, Both} /\ parts \in {{}, {"pcr"}}
          /\ 0 \in Nat /\ 0 <= 19 /\ ~ ("pcr" \in parts)
      BY <3>1
    <3> QED BY <3>1, <3>3, <3>4
  <2> QED BY <2>1, <2>2
<1>10. PICK start : \E control \in {PayloadOnly, Both}, parts \in {{}, {"pcr"}} :
       \E h \in Nat : \E clock, pay :
          /\ p = PesMade(start, pid, control, 0, Stuffed(parts, clock, 0), pay)
          /\ control = Both \/ parts = {}
          /\ "pcr" \in parts => clock = m.dts
          /\ h <= 19
          /\ \/ start = FALSE /\ h = 0 /\ parts = {} /\ pay = NoPayload
             \/ /\ start = TRUE /\ h = HeaderTakes(m.dts, m.pts)
                /\ \E sid \in Sids : \E length : pay = PesHeader(sid, length, m.dts, m.pts)
                /\ pay.kind = "PES" /\ PesSize(pay) = h
    BY <1>9
<1>11. PICK control \in {PayloadOnly, Both}, parts \in {{}, {"pcr"}} : \E h \in Nat : \E clock, pay :
          /\ p = PesMade(start, pid, control, 0, Stuffed(parts, clock, 0), pay)
          /\ control = Both \/ parts = {}
          /\ "pcr" \in parts => clock = m.dts
          /\ h <= 19
          /\ \/ start = FALSE /\ h = 0 /\ parts = {} /\ pay = NoPayload
             \/ /\ start = TRUE /\ h = HeaderTakes(m.dts, m.pts)
                /\ \E sid \in Sids : \E length : pay = PesHeader(sid, length, m.dts, m.pts)
                /\ pay.kind = "PES" /\ PesSize(pay) = h
    BY <1>10
<1>12. PICK h \in Nat : \E clock, pay :
          /\ p = PesMade(start, pid, control, 0, Stuffed(parts, clock, 0), pay)
          /\ control = Both \/ parts = {}
          /\ "pcr" \in parts => clock = m.dts
          /\ h <= 19
          /\ \/ start = FALSE /\ h = 0 /\ parts = {} /\ pay = NoPayload
             \/ /\ start = TRUE /\ h = HeaderTakes(m.dts, m.pts)
                /\ \E sid \in Sids : \E length : pay = PesHeader(sid, length, m.dts, m.pts)
                /\ pay.kind = "PES" /\ PesSize(pay) = h
    BY <1>11
<1>13. PICK clock, pay :
          /\ p = PesMade(start, pid, control, 0, Stuffed(parts, clock, 0), pay)
          /\ control = Both \/ parts = {}
          /\ "pcr" \in parts => clock = m.dts
          /\ h <= 19
          /\ \/ start = FALSE /\ h = 0 /\ parts = {} /\ pay = NoPayload
             \/ /\ start = TRUE /\ h = HeaderTakes(m.dts, m.pts)
                /\ \E sid \in Sids : \E length : pay = PesHeader(sid, length, m.dts, m.pts)
                /\ pay.kind = "PES" /\ PesSize(pay) = h
    BY <1>12
<1>14. /\ SizeOf(parts, AdaptationParts) \in 0..6
       /\ control = Both \/ SizeOf(parts, AdaptationParts) = 0
  <2>1. CASE parts = {}
    BY <2>1, HeaderSizes
  <2>2. CASE parts = {"pcr"}
    <3>1. control = Both
      BY <1>13, <2>2
    <3> QED BY <2>2, <3>1, HeaderSizes
  <2> QED BY <1>11, <2>1, <2>2
<1>15. \/ pay = NoPayload /\ h = 0
       \/ pay.kind = "PES" /\ PesSize(pay) = h
    BY <1>13
<1>16. IsFilled(q, n, start, pid, parts, clock, pay, h, left)
  <2>1. p = PesMade(start, pid, control, 0, Stuffed(parts, clock, 0), pay) /\ h <= 19
    BY <1>13
  <2>2. IsFilled(Finished(p, left), Min({left, Room(Finished(p, left))}),
                 start, pid, parts, clock, pay, h, left)
    BY <1>3, <1>11, <1>12, <1>14, <1>15, <2>1, FilledUp
  <2> QED BY <1>5, <1>6, <2>2
<1>17. PICK c \in {PayloadOnly, Both}, r \in Nat :
          /\ q = PesMade(start, pid, c, 0, Stuffed(parts, clock, r), pay)
          /\ n \in 1..left
          /\ n = PacketSize - 4 - AdaptationTakes(c, parts, r) - h
    BY <1>16 DEF IsFilled
<1>18. ASSUME NEW cc PROVE Sound(EncodePacket([x.made EXCEPT !.cc = cc], x.data))
  <2>1. [q EXCEPT !.cc = cc] = PesMade(start, pid, c, cc, Stuffed(parts, clock, r), pay)
    BY <1>17, Recounted
  <2>2. d.n \in Nat \ {0} /\ d.n = PacketSize - 4 - AdaptationTakes(c, parts, r) - h
    BY <1>3, <1>8, <1>17
  <2>3. \/ start = FALSE /\ h = 0 /\ parts = {}
        \/ /\ start = TRUE /\ h = HeaderTakes(m.dts, m.pts)
           /\ \E sid \in Sids : \E length : pay = PesHeader(sid, length, m.dts, m.pts)
    BY <1>13
  <2>4. SizeOf(parts, AdaptationParts) \in Nat
    BY <1>14
  <2>5. Sound(EncodePacket(PesMade(start, pid, c, cc, Stuffed(parts, clock, r), pay), d))
    BY <1>1, <1>13, <2>2, <2>3, <2>4, FilledIsSound
  <2> QED BY <1>8, <2>1, <2>5
<1> QED BY <1>2, <1>17, <1>18 DEF PieceSound

----------------------------------------------------------------------------
(* The packets of a message. *)

Piece(m, unit, pid, from) ==
    LET p == MadeFor(m, pid, from)
    IN  [made |-> p, data |-> [unit |-> unit, from |-> from, n |-> Taken(m, p, from)]]
Behind(m, pid, from) == from + Taken(m, MadeFor(m, pid, from), from)

\* f is what is cut of message m from `low' on.
CutsFrom(m, unit, pid, low, f) ==
    f = [from \in low..m.size |->
            IF from = m.size THEN <<>>
            ELSE << Piece(m, unit, pid, from) >> \o f[Behind(m, pid, from)]]

AllPieces(s) == \E S : s \in Seq(S) /\ \A x \in S : PieceSound(x)

LEMMA PieceIs ==
    ASSUME NEW m, Sendable(m), NEW unit, NEW pid, NEW from \in 0..(m.size - 1)
    PROVE  /\ Behind(m, pid, from) \in (from + 1)..m.size
           /\ PieceSound(Piece(m, unit, pid, from))
<1>1. PICK q, n : q = MadeFor(m, pid, from) /\ n = Taken(m, q, from)
    OBVIOUS
<1>2. PICK x : x = [made |-> q, data |-> [unit |-> unit, from |-> from, n |-> n]]
    OBVIOUS
<1>3. n \in 1..(m.size - from) /\ PieceSound(x)
    BY <1>1, <1>2, PieceOf
<1>4. x = Piece(m, unit, pid, from) /\ Behind(m, pid, from) = from + n
    BY <1>1, <1>2 DEF Piece, Behind
<1> QED BY <1>3, <1>4 DEF Sendable

\* What is cut from a place on is there: it is cut from the end.
LEMMA CutExists ==
    ASSUME NEW m, Sendable(m), NEW unit, NEW pid
    PROVE  \E f : CutsFrom(m, unit, pid, 0, f)
<1> DEFINE S == {k \in Nat : k <= m.size => \E f : CutsFrom(m, unit, pid, m.size - k, f)}
<1>1. m.size \in Nat
    BY DEF Sendable
<1>2. 0 \in S
  <2>1. PICK f : f = [from \in m.size..m.size |-> <<>>]
    OBVIOUS
  <2>2. \A from \in m.size..m.size : from = m.size
    BY <1>1
  <2>3. f = [from \in m.size..m.size |->
                IF from = m.size THEN <<>>
                ELSE << Piece(m, unit, pid, from) >> \o f[Behind(m, pid, from)]]
    BY <2>1, <2>2
  <2>4. CutsFrom(m, unit, pid, m.size, f)
    BY <2>3 DEF CutsFrom
  <2>5. m.size - 0 = m.size
    BY <1>1
  <2> QED BY <2>4, <2>5
<1>3. ASSUME NEW k \in Nat, k \in S PROVE k + 1 \in S
  <2> SUFFICES ASSUME k + 1 <= m.size
               PROVE  \E f : CutsFrom(m, unit, pid, m.size - (k + 1), f)
    OBVIOUS
  <2>1. PICK low : low = m.size - (k + 1)
    OBVIOUS
  <2>2. low \in 0..(m.size - 1) /\ m.size - k = low + 1
    BY <1>1, <2>1
  <2>3. PICK f : CutsFrom(m, unit, pid, low + 1, f)
    BY <1>1, <1>3, <2>2
  <2>4. PICK g : g = [from \in low..m.size |->
                        IF from = low THEN << Piece(m, unit, pid, low) >> \o f[Behind(m, pid, low)]
                        ELSE f[from]]
    OBVIOUS
  <2>5. \A from \in (low + 1)..m.size : from \in low..m.size /\ g[from] = f[from]
    BY <1>1, <2>2, <2>4
  <2>6. ASSUME NEW from \in low..m.size
        PROVE  g[from] = IF from = m.size THEN <<>>
                         ELSE << Piece(m, unit, pid, from) >> \o g[Behind(m, pid, from)]
    <3>1. CASE from = low
      <4>1. Behind(m, pid, low) \in (low + 1)..m.size /\ low # m.size
        <5>1. Behind(m, pid, low) \in (low + 1)..m.size
          BY <2>2, PieceIs
        <5> QED BY <1>1, <2>2, <5>1
      <4>2. g[Behind(m, pid, low)] = f[Behind(m, pid, low)]
        BY <2>5, <4>1
      <4> QED BY <2>4, <3>1, <4>1, <4>2
    <3>2. CASE from # low
      <4>1. from \in (low + 1)..m.size /\ g[from] = f[from]
        BY <1>1, <2>2, <2>5, <3>2
      <4>2. f[from] = IF from = m.size THEN <<>>
                      ELSE << Piece(m, unit, pid, from) >> \o f[Behind(m, pid, from)]
        BY <2>3, <4>1 DEF CutsFrom
      <4>3. from # m.size => g[Behind(m, pid, from)] = f[Behind(m, pid, from)]
        <5> SUFFICES ASSUME from # m.size PROVE g[Behind(m, pid, from)] = f[Behind(m, pid, from)]
          OBVIOUS
        <5>1. from \in 0..(m.size - 1)
          BY <1>1, <2>2, <4>1
        <5>2. Behind(m, pid, from) \in (from + 1)..m.size
          BY <5>1, PieceIs
        <5>3. Behind(m, pid, from) \in (low + 1)..m.size
          BY <1>1, <2>2, <4>1, <5>2
        <5> QED BY <2>5, <5>3
      <4> QED BY <4>1, <4>2, <4>3
    <3> QED BY <3>1, <3>2
  <2>7. CutsFrom(m, unit, pid, low, g)
    BY <2>4, <2>6 DEF CutsFrom
  <2> QED BY <2>1, <2>7
<1>4. Nat \subseteq S
  <2> HIDE DEF S
  <2> QED BY <1>2, <1>3, Counting
<1>5. m.size - m.size = 0 /\ m.size <= m.size
    BY <1>1
<1>6. m.size \in S
    BY <1>1, <1>4
<1> QED BY <1>5, <1>6

LEMMA CutSound ==
    ASSUME NEW m, Sendable(m), NEW unit, NEW pid, NEW f, CutsFrom(m, unit, pid, 0, f)
    PROVE  AllPieces(f[0])
<1> DEFINE S == {k \in Nat : \A j \in 0..k : j <= m.size => AllPieces(f[m.size - j])}
<1>1. m.size \in Nat
    BY DEF Sendable
<1>2. \A from \in 0..m.size :
          f[from] = IF from = m.size THEN <<>>
                    ELSE << Piece(m, unit, pid, from) >> \o f[Behind(m, pid, from)]
    BY DEF CutsFrom
<1>3. 0 \in S
  <2>1. f[m.size] = <<>>
    <3>1. m.size \in 0..m.size
      BY <1>1
    <3> QED BY <1>2, <3>1
  <2>2. AllPieces(<<>>)
    <3>1. PICK e : e = {}
      OBVIOUS
    <3>2. <<>> \in Seq(e) /\ \A x \in e : PieceSound(x)
      BY <3>1
    <3> QED BY <3>2 DEF AllPieces
  <2>3. \A j \in 0..0 : m.size - j = m.size
    BY <1>1
  <2> QED BY <2>1, <2>2, <2>3
<1>4. ASSUME NEW k \in Nat, k \in S PROVE k + 1 \in S
  <2>1. k + 1 <= m.size => AllPieces(f[m.size - (k + 1)])
    <3> SUFFICES ASSUME k + 1 <= m.size PROVE AllPieces(f[m.size - (k + 1)])
      OBVIOUS
    <3>1. PICK from : from = m.size - (k + 1)
      OBVIOUS
    <3>2. from \in 0..(m.size - 1) /\ from \in 0..m.size /\ from # m.size
      BY <1>1, <3>1
    <3>3. PICK next : next = Behind(m, pid, from)
      OBVIOUS
    <3>4. next \in (from + 1)..m.size /\ PieceSound(Piece(m, unit, pid, from))
      BY <3>2, <3>3, PieceIs
    <3>5. AllPieces(f[next])
      <4>1. PICK j : j = m.size - next
        OBVIOUS
      <4>2. j \in 0..k /\ j <= m.size /\ m.size - j = next
        BY <1>1, <3>1, <3>4, <4>1
      <4> QED BY <1>4, <4>2
    <3>6. PICK T : f[next] \in Seq(T) /\ \A x \in T : PieceSound(x)
      BY <3>5 DEF AllPieces
    <3>7. PICK x, s : x = Piece(m, unit, pid, from) /\ s = f[next]
      OBVIOUS
    <3>8. f[from] = << x >> \o s
      BY <1>2, <3>2, <3>3, <3>7
    <3>9. << x >> \o s \in Seq(T \cup {x})
      BY <3>6, <3>7
    <3>10. \A y \in T \cup {x} : PieceSound(y)
      BY <3>4, <3>6, <3>7
    <3>11. AllPieces(f[from])
      BY <3>8, <3>9, <3>10 DEF AllPieces
    <3> QED BY <3>1, <3>11
  <2>2. \A j \in 0..(k + 1) : j \in 0..k \/ j = k + 1
    OBVIOUS
  <2> QED BY <1>4, <2>1, <2>2
<1>5. Nat \subseteq S
  <2> HIDE DEF S
  <2> QED BY <1>3, <1>4, Counting
<1>6. m.size \in S /\ m.size \in 0..m.size /\ m.size <= m.size /\ m.size - m.size = 0
    BY <1>1, <1>5
<1> QED BY <1>6

LEMMA PacketsSound ==
    ASSUME NEW m, Sendable(m), NEW unit, NEW pid, NEW counter
    PROVE  AllSound(PesPackets(m, unit, pid, counter))
<1> DEFINE P(f) == CutsFrom(m, unit, pid, 0, f)
           Counted(pieces) ==
               [i \in DOMAIN pieces |->
                   EncodePacket([pieces[i].made EXCEPT !.cc = Numbered(counter, i - 1)],
                                pieces[i].data)]
<1>1. PICK cut : cut = CHOOSE f : P(f)
    OBVIOUS
<1>2. P(cut)
  <2>1. \E f : P(f)
    BY CutExists
  <2> HIDE DEF P
  <2> QED BY <1>1, <2>1
<1>3. PesPackets(m, unit, pid, counter) = Counted(cut[0])
    BY <1>1 DEF PesPackets, CutsFrom, Piece, Behind
<1>4. PICK pieces : pieces = cut[0]
    OBVIOUS
<1>5. PICK S : pieces \in Seq(S) /\ \A x \in S : PieceSound(x)
    BY <1>2, <1>4, CutSound DEF AllPieces
<1>6. PICK s : s = Counted(pieces)
    OBVIOUS
<1>7. DOMAIN pieces = 1..Len(pieces) /\ Len(pieces) \in Nat
    BY <1>5
<1>8. ASSUME NEW i \in 1..Len(pieces) PROVE Sound(s[i])
  <2>1. pieces[i] \in S
    BY <1>5
  <2>2. s[i] = EncodePacket([pieces[i].made EXCEPT !.cc = Numbered(counter, i - 1)], pieces[i].data)
    BY <1>6, <1>7
  <2> QED BY <1>5, <2>1, <2>2 DEF PieceSound
<1>9. PICK T : T = {s[i] : i \in 1..Len(pieces)}
    OBVIOUS
<1>10. s \in Seq(T)
  <2>1. s \in [1..Len(pieces) -> T]
    BY <1>6, <1>7, <1>9
  <2> QED BY <1>7, <2>1
<1>11. \A w \in T : Sound(w)
    BY <1>8, <1>9
<1> QED BY <1>3, <1>4, <1>6, <1>10, <1>11 DEF AllSound

----------------------------------------------------------------------------
(* The sizes of the messages in the cache. *)

LEMMA FrameIs ==
    ASSUME NEW f \in Frames
    PROVE  /\ f.cts \in Nat /\ f.units \in Seq(ToSet(f.units))
           /\ \A u \in ToSet(f.units) : UnitBytes(f, u) \in Nat
           /\ Ahead(f) \in Nat
<1>1. f.cts \in Nat /\ f.units \in Seq(ToSet(f.units)) /\ \A u \in ToSet(f.units) : u.size \in Nat
    BY MuxAssumption
<1>2. SpsSize \in Nat /\ PpsSize \in Nat
    BY MuxAssumption
<1>3. Ahead(f) \in Nat
    BY <1>2 DEF Ahead, Parameters
<1>4. \A u \in ToSet(f.units) : UnitBytes(f, u) \in Nat
    BY <1>1 DEF UnitBytes, AdtsHeader
<1> QED BY <1>1, <1>3, <1>4

LEMMA AcceptedIs ==
    ASSUME NEW f \in Frames
    PROVE  Accepted(f) \in Seq(ToSet(f.units))
<1> DEFINE unfit == {i \in DOMAIN f.units : Unfit(f, f.units[i])}
<1>1. f.units \in Seq(ToSet(f.units))
    BY FrameIs
<1>2. CASE unfit = {}
    BY <1>1, <1>2 DEF Accepted
<1>3. CASE unfit # {}
  <2>1. unfit \subseteq 1..Len(f.units) /\ Len(f.units) \in Nat
    BY <1>1
  <2>2. Min(unfit) \in unfit
    <3> HIDE DEF unfit
    <3>1. unfit \subseteq Nat
      BY <2>1
    <3> QED BY <1>3, <3>1, LeastOf
  <2>3. PICK k : k = Min(unfit) - 1
    OBVIOUS
  <2>4. k \in 0..Len(f.units)
    BY <2>1, <2>2, <2>3
  <2>5. SubSeq(f.units, 1, k) \in Seq(ToSet(f.units))
    BY <1>1, <2>4
  <2> QED BY <1>3, <2>3, <2>5 DEF Accepted
<1> QED BY <1>2, <1>3

\* t is the running sum of what is appended up to unit n.
SumsTo(f, n, t) ==
    t = [i \in 0..n |-> IF i = 0 THEN Ahead(f) ELSE t[i - 1] + UnitBytes(f, Accepted(f)[i])]

LEMMA SumsExist ==
    ASSUME NEW f, NEW n \in Nat PROVE \E t : SumsTo(f, n, t)
<1> DEFINE S == {k \in Nat : \E t : SumsTo(f, k, t)}
<1>1. 0 \in S
  <2>1. SumsTo(f, 0, [i \in 0..0 |-> Ahead(f)])
    BY DEF SumsTo
  <2> QED BY <2>1
<1>2. ASSUME NEW k \in Nat, k \in S PROVE k + 1 \in S
  <2>1. PICK t : SumsTo(f, k, t)
    BY <1>2
  <2>2. PICK g : g = [i \in 0..(k + 1) |->
                        IF i = k + 1 THEN t[k] + UnitBytes(f, Accepted(f)[k + 1]) ELSE t[i]]
    OBVIOUS
  <2>3. ASSUME NEW i \in 0..(k + 1)
        PROVE  g[i] = IF i = 0 THEN Ahead(f) ELSE g[i - 1] + UnitBytes(f, Accepted(f)[i])
    <3>1. CASE i = k + 1
      <4>1. g[i] = t[k] + UnitBytes(f, Accepted(f)[k + 1]) /\ g[k] = t[k] /\ i - 1 = k /\ i # 0
        BY <2>2, <3>1
      <4> QED BY <3>1, <4>1
    <3>2. CASE i # k + 1
      <4>1. i \in 0..k /\ g[i] = t[i]
        BY <2>2, <3>2
      <4>2. t[i] = IF i = 0 THEN Ahead(f) ELSE t[i - 1] + UnitBytes(f, Accepted(f)[i])
        BY <2>1, <4>1 DEF SumsTo
      <4>3. i # 0 => g[i - 1] = t[i - 1]
        BY <2>2, <4>1
      <4> QED BY <4>1, <4>2, <4>3
    <3> QED BY <3>1, <3>2
  <2>4. SumsTo(f, k + 1, g)
    BY <2>2, <2>3 DEF SumsTo
  <2> QED BY <2>4
<1>3. Nat \subseteq S
  <2> HIDE DEF S
  <2> QED BY <1>1, <1>2, Counting
<1> QED BY <1>3

LEMMA AppendedIs ==
    ASSUME NEW f \in Frames
    PROVE  Appended(f) \in Nat
<1>1. PICK n : n = Len(Accepted(f))
    OBVIOUS
<1>2. n \in Nat /\ \A i \in 1..n : Accepted(f)[i] \in ToSet(f.units)
    BY <1>1, AcceptedIs
<1> DEFINE P(t) == SumsTo(f, n, t)
<1>3. PICK total : total = CHOOSE t : P(t)
    OBVIOUS
<1>4. P(total)
  <2>1. \E t : P(t)
    BY <1>2, SumsExist
  <2> HIDE DEF P
  <2> QED BY <1>3, <2>1
<1>5. Appended(f) = total[n]
    BY <1>1, <1>3 DEF Appended, SumsTo
<1>6. \A i \in 0..n : total[i] = IF i = 0 THEN Ahead(f) ELSE total[i - 1] + UnitBytes(f, Accepted(f)[i])
    BY <1>4 DEF SumsTo
<1> DEFINE S == {k \in Nat : k <= n => total[k] \in Nat}
<1>7. 0 \in S
    BY <1>2, <1>6, FrameIs
<1>8. ASSUME NEW k \in Nat, k \in S PROVE k + 1 \in S
  <2> SUFFICES ASSUME k + 1 <= n PROVE total[k + 1] \in Nat
    OBVIOUS
  <2>1. k + 1 \in 0..n /\ k + 1 \in 1..n /\ k <= n /\ (k + 1) - 1 = k /\ k + 1 # 0
    BY <1>2
  <2>2. total[k + 1] = total[k] + UnitBytes(f, Accepted(f)[k + 1])
    BY <1>6, <2>1
  <2>3. UnitBytes(f, Accepted(f)[k + 1]) \in Nat
    BY <1>2, <2>1, FrameIs
  <2>4. total[k] \in Nat
    BY <1>8, <2>1
  <2> QED BY <2>2, <2>3, <2>4
<1>9. Nat \subseteq S
  <2> HIDE DEF S
  <2> QED BY <1>7, <1>8, Counting
<1> QED BY <1>2, <1>5, <1>9

LEMMA CachedIs ==
    ASSUME NEW m, Sendable(m), NEW f \in Frames, now' \in Nat
    PROVE  Sendable(Cached(m, f))
<1>1. Appended(f) \in Nat /\ f.cts \in Nat
    BY AppendedIs, FrameIs
<1>2. Ticks(now') \in Nat /\ Ticks(now') + Ticks(f.cts) \in Nat
  <2>1. PICK t, c : t = now' /\ c = f.cts
    OBVIOUS
  <2>2. t \in Nat /\ c \in Nat
    BY <1>1, <2>1
  <2>3. Ticks(t) \in Nat /\ Ticks(c) \in Nat /\ Ticks(t) + Ticks(c) \in Nat
    BY <2>2 DEF Ticks
  <2> QED BY <2>1, <2>3
<1>3. PICK c : c = Cached(m, f)
    OBVIOUS
<1>4. /\ c.size = m.size + Appended(f) /\ c.dts = Ticks(now') /\ c.pts = Ticks(now') + Ticks(f.cts)
      /\ c.sid = IF f.codec = "AVC" THEN "VideoCommon" ELSE "AudioCommon"
    BY <1>3 DEF Cached
<1> QED BY <1>1, <1>2, <1>3, <1>4 DEF Sendable

LEMMA CacheUpdated ==
    ASSUME NEW c, CacheOK(c), NEW s \in Streams, NEW m, Sendable(m)
    PROVE  CacheOK([c EXCEPT ![s] = m])
BY DEF CacheOK

----------------------------------------------------------------------------
(* Streams of sound packets. *)

LEMMA SoundJoined ==
    ASSUME NEW s, NEW t, AllSound(s), AllSound(t)
    PROVE  AllSound(s \o t)
<1>1. PICK S : s \in Seq(S) /\ \A w \in S : Sound(w)
    BY DEF AllSound
<1>2. PICK T : t \in Seq(T) /\ \A w \in T : Sound(w)
    BY DEF AllSound
<1>3. PICK U : U = S \cup T
    OBVIOUS
<1>4. s \in Seq(U) /\ t \in Seq(U)
    BY <1>1, <1>2, <1>3
<1>5. s \o t \in Seq(U) /\ \A w \in U : Sound(w)
    BY <1>1, <1>2, <1>3, <1>4
<1> QED BY <1>5 DEF AllSound

LEMMA SoundPrefix ==
    ASSUME NEW s, AllSound(s), NEW n \in 0..Len(s)
    PROVE  AllSound(SubSeq(s, 1, n))
<1>1. PICK S : s \in Seq(S) /\ \A w \in S : Sound(w)
    BY DEF AllSound
<1>2. SubSeq(s, 1, n) \in Seq(S)
    BY <1>1
<1> QED BY <1>1, <1>2 DEF AllSound

LEMMA NothingSound == AllSound(<< >>)
<1>1. PICK e : e = {}
    OBVIOUS
<1>2. << >> \in Seq(e) /\ \A w \in e : Sound(w)
    BY <1>1
<1> QED BY <1>2 DEF AllSound

LEMMA TablesSound == ASSUME NEW audio PROVE AllSound(Tables(audio))
<1>1. PICK p, q : /\ p = EncodePacket(CreatePat("PMT"), NoData)
                  /\ q = EncodePacket(CreatePmt("PMT", "AVC", audio), NoData)
    OBVIOUS
<1>2. p.data = NoData /\ q.data = NoData
    BY <1>1 DEF EncodePacket
<1>3. ~IsPes(p) /\ ~IsPes(q)
    BY <1>2 DEF IsPes, NoData
<1>4. PICK S : S = {p, q}
    OBVIOUS
<1>5. << p, q >> \in Seq(S) /\ \A w \in S : Sound(w)
    BY <1>3, <1>4 DEF Sound
<1>6. Tables(audio) = << p, q >>
    BY <1>1 DEF Tables
<1> QED BY <1>5, <1>6 DEF AllSound

----------------------------------------------------------------------------
(* The encoder. *)

\* Whatever write fails, what was written is sound, and the cache is as before or freed.
LEMMA EncodeInv ==
    ASSUME NEW s \in Streams, NEW cached, CacheOK(cached), AllSound(stream), Encode(s, cached)
    PROVE  AllSound(stream') /\ CacheOK(cache')
<1>1. PICK m, psi : m = cached[s] /\ psi = TablesDue
    OBVIOUS
<1>2. PICK pes : /\ pes \in {PacketsOf(m)}
                 /\ \E fails \in 0..(IF faults < MaxFaults THEN Len(psi) + Len(pes) ELSE 0) :
                       /\ stream' = stream \o (IF fails = 0 THEN psi \o pes
                                               ELSE SubSeq(psi \o pes, 1, fails - 1))
                       /\ cache' = IF fails > 0 THEN cached ELSE Freed(s, cached)
    BY <1>1 DEF Encode
<1>3. PICK fails \in 0..(IF faults < MaxFaults THEN Len(psi) + Len(pes) ELSE 0) :
                /\ stream' = stream \o (IF fails = 0 THEN psi \o pes
                                        ELSE SubSeq(psi \o pes, 1, fails - 1))
                /\ cache' = IF fails > 0 THEN cached ELSE Freed(s, cached)
    BY <1>2
<1>4. Sendable(m)
    BY <1>1 DEF CacheOK
<1>5. AllSound(psi)
    BY <1>1, NothingSound, TablesSound DEF TablesDue
<1>6. AllSound(pes)
    BY <1>2, <1>4, NothingSound, PacketsSound DEF PacketsOf
<1>7. PICK whole : whole = psi \o pes
    OBVIOUS
<1>8. AllSound(whole)
    BY <1>5, <1>6, <1>7, SoundJoined
<1>9. AllSound(IF fails = 0 THEN whole ELSE SubSeq(whole, 1, fails - 1))
  <2>1. Len(psi) \in Nat /\ Len(pes) \in Nat /\ Len(whole) = Len(psi) + Len(pes)
    <3>1. PICK S, T : psi \in Seq(S) /\ pes \in Seq(T)
      BY <1>5, <1>6 DEF AllSound
    <3>2. psi \in Seq(S \cup T) /\ pes \in Seq(S \cup T)
      BY <3>1
    <3> QED BY <1>7, <3>2
  <2>2. CASE fails = 0
    BY <1>8, <2>2
  <2>3. CASE fails # 0
    <3>1. fails - 1 \in 0..Len(whole)
      BY <1>3, <2>1, <2>3
    <3> QED BY <1>8, <2>3, <3>1, SoundPrefix
  <2> QED BY <2>2, <2>3
<1>10. AllSound(stream')
    BY <1>3, <1>7, <1>9, SoundJoined
<1>11. CacheOK(cache')
  <2>1. Sendable(None)
    BY DEF Sendable, None
  <2>2. CacheOK(Freed(s, cached))
    BY <2>1, CacheUpdated DEF Freed
  <2> QED BY <1>3, <2>2
<1> QED BY <1>10, <1>11

LEMMA FlushInv ==
    ASSUME NEW s \in Streams, NEW cached, CacheOK(cached), AllSound(stream), Flush(s, cached)
    PROVE  AllSound(stream') /\ CacheOK(cache')
<1>1. CASE cached[s] = None
    BY <1>1 DEF Flush
<1>2. CASE cached[s] # None
    BY <1>2, EncodeInv DEF Flush
<1> QED BY <1>1, <1>2

LEMMA MuxInv ==
    ASSUME LinkInv, Mux
    PROVE  AllSound(stream') /\ CacheOK(cache') /\ now' \in Nat
<1>1. AllSound(stream) /\ now \in Nat /\ CacheOK(cache)
    BY DEF LinkInv
<1>2. ASSUME NEW f \in Frames, Given(f) PROVE now' \in Nat
    BY <1>1, <1>2, MuxAssumption DEF Given
<1>3. ASSUME NEW f \in Frames, Given(f), NEW s \in Streams
      PROVE  CacheOK([cache EXCEPT ![s] = Cached(@, f)])
  <2>1. Sendable(Cached(cache[s], f))
    BY <1>1, <1>2, <1>3, CachedIs DEF CacheOK
  <2> QED BY <1>1, <2>1, CacheUpdated
<1>4. CASE Initialize
    BY <1>1, <1>4 DEF Initialize
<1>5. CASE WriteAudio
  <2>1. PICK f \in Frames : /\ Given(f)
                            /\ \E cached \in {[cache EXCEPT !["audio"] = Cached(@, f)]} :
                                  \/ Keep(cached) \/ Flush("video", cached) \/ Flush("audio", cached)
    BY <1>5 DEF WriteAudio
  <2>2. PICK cached : /\ cached = [cache EXCEPT !["audio"] = Cached(@, f)]
                      /\ Keep(cached) \/ Flush("video", cached) \/ Flush("audio", cached)
    BY <2>1
  <2>3. "audio" \in Streams /\ "video" \in Streams
    BY DEF Streams
  <2>4. CacheOK(cached)
    BY <1>3, <2>1, <2>2, <2>3
  <2>5. CASE Keep(cached)
    BY <1>1, <1>2, <2>1, <2>4, <2>5 DEF Keep
  <2> QED BY <1>1, <1>2, <2>1, <2>2, <2>3, <2>4, <2>5, FlushInv
<1>6. CASE WriteVideo
  <2>1. PICK f \in Frames : /\ Given(f)
                            /\ \E cached \in {[cache EXCEPT !["video"] = Cached(@, f)]} :
                                  Keep(cached) \/ Flush("video", cached)
    BY <1>6 DEF WriteVideo
  <2>2. PICK cached : /\ cached = [cache EXCEPT !["video"] = Cached(@, f)]
                      /\ Keep(cached) \/ Flush("video", cached)
    BY <2>1
  <2>3. "video" \in Streams
    BY DEF Streams
  <2>4. CacheOK(cached)
    BY <1>3, <2>1, <2>2, <2>3
  <2>5. CASE Keep(cached)
    BY <1>1, <1>2, <2>1, <2>4, <2>5 DEF Keep
  <2> QED BY <1>1, <1>2, <2>1, <2>2, <2>3, <2>4, <2>5, FlushInv
<1> QED BY <1>4, <1>5, <1>6 DEF Mux

----------------------------------------------------------------------------
(* The link. *)

LEMMA LinkInvInit == Init => LinkInv
<1> SUFFICES ASSUME Init PROVE LinkInv
    OBVIOUS
<1>1. AllSound(stream) /\ packet = NoPacket /\ now = 0 /\ cache = [s \in Streams |-> None]
    BY NothingSound DEF Init, MuxInit, DemuxInit, Streams
<1>2. CacheOK(cache)
  <2>1. Sendable(None)
    BY DEF Sendable, None
  <2> QED BY <1>1, <2>1 DEF CacheOK
<1> QED BY <1>1, <1>2 DEF LinkInv, Arrived

LEMMA FirstCarried ==
    ASSUME AllSound(stream), stream # << >>
    PROVE  Sound(Head(stream)) /\ AllSound(Tail(stream))
<1>1. PICK S : stream \in Seq(S) /\ \A w \in S : Sound(w)
    BY DEF AllSound
<1>2. Head(stream) \in S /\ Tail(stream) \in Seq(S)
    BY <1>1
<1> QED BY <1>1, <1>2 DEF AllSound

\* What is decoded goes, or stays to be decoded again.
LEMMA DemuxTakes == ASSUME Demux PROVE packet' = NoPacket \/ packet' = packet
<1>1. CASE Leave
    BY <1>1 DEF Leave
<1>2. CASE DecodeEmpty
    BY <1>2 DEF DecodeEmpty
<1>3. CASE DecodePat
    BY <1>3 DEF DecodePat
<1>4. CASE DecodePmt
    BY <1>4 DEF DecodePmt
<1>5. CASE FreshWithoutStart
    BY <1>5 DEF FreshWithoutStart, Consumed
<1>6. CASE DropLate
    BY <1>6 DEF DropLate, Consumed
<1>7. CASE DropMessage
    BY <1>7 DEF DropMessage, Again
<1>8. CASE ReapPrevious
    BY <1>8 DEF ReapPrevious, Again
<1>9. CASE Dump
    BY <1>9 DEF Dump, Consumed
<1> QED BY <1>1, <1>2, <1>3, <1>4, <1>5, <1>6, <1>7, <1>8, <1>9 DEF Demux

LEMMA LinkInvNext == LinkInv /\ [Next]_linkVars => LinkInv'
<1> SUFFICES ASSUME LinkInv, [Next]_linkVars PROVE LinkInv'
    OBVIOUS
<1>1. /\ AllSound(stream) /\ (Arrived => Sound(packet)) /\ now \in Nat /\ CacheOK(cache)
    BY DEF LinkInv
<1>2. CASE Write
  <2>1. AllSound(stream') /\ CacheOK(cache') /\ now' \in Nat
    BY <1>2, MuxInv DEF Write
  <2>2. packet' = packet
    BY <1>2 DEF Write, demuxVars
  <2> QED BY <1>1, <2>1, <2>2 DEF LinkInv, Arrived
<1>3. CASE Carry
  <2>1. packet' = Head(stream) /\ stream' = Tail(stream) /\ stream # << >>
    BY <1>3 DEF Carry, Reaches, Carries, Ready
  <2>2. now' = now /\ cache' = cache
    BY <1>3 DEF Carry, Carries
  <2> QED BY <1>1, <2>1, <2>2, FirstCarried DEF LinkInv
<1>4. CASE Repeat
  <2>1. packet' = Head(stream) /\ stream' = stream /\ stream # << >>
    BY <1>4 DEF Repeat, Reaches, Ready
  <2>2. now' = now /\ cache' = cache
    BY <1>4 DEF Repeat
  <2> QED BY <1>1, <2>1, <2>2, FirstCarried DEF LinkInv
<1>5. CASE Lose
  <2>1. packet' = packet /\ stream' = Tail(stream) /\ stream # << >>
    BY <1>5 DEF Lose, Carries, Ready, demuxVars
  <2>2. now' = now /\ cache' = cache
    BY <1>5 DEF Lose, Carries
  <2> QED BY <1>1, <2>1, <2>2, FirstCarried DEF LinkInv, Arrived
<1>6. CASE Mixed
  <2>1. PICK others \in Others : stream' = others \o stream
    BY <1>6 DEF Mixed
  <2>2. AllSound(others)
    BY OthersAssumption DEF AllSound, Sound
  <2>3. packet' = packet /\ now' = now /\ cache' = cache
    BY <1>6 DEF Mixed, demuxVars
  <2> QED BY <1>1, <2>1, <2>2, <2>3, SoundJoined DEF LinkInv, Arrived
<1>7. CASE Decode
  <2>1. stream' = stream /\ now' = now /\ cache' = cache
    BY <1>7 DEF Decode, muxVars
  <2>2. packet' = NoPacket \/ packet' = packet
    BY <1>7, DemuxTakes DEF Decode
  <2> QED BY <1>1, <2>1, <2>2 DEF LinkInv, Arrived
<1>8. CASE UNCHANGED linkVars
    BY <1>1, <1>8 DEF linkVars, muxVars, demuxVars, LinkInv, Arrived
<1> QED BY <1>2, <1>3, <1>4, <1>5, <1>6, <1>7, <1>8 DEF Next

THEOREM LinkInvariant == Spec => []LinkInv
<1>1. Init => LinkInv
    BY LinkInvInit
<1>2. LinkInv /\ [Next]_linkVars => LinkInv'
    BY LinkInvNext
<1> QED BY <1>1, <1>2, PTL DEF Spec

(***************************************************************************)
(* For frames of every size and time, packets of every size above 40 and   *)
(* wherever a write fails: the headers, the stuffing and the data of a     *)
(* packet of the encoder fill it, whatever room is left of its last, and   *)
(* its clock is the time its frame is decoded at but for the bits the mask *)
(* drops (encode_pes, padding, SrsTsAdaptationField::encode).              *)
(***************************************************************************)
THEOREM PacketsSoundAlways == Spec => []PacketsAreSound
<1>1. LinkInv => PacketsAreSound
    BY DEF LinkInv, PacketsAreSound, Sound
<1> QED BY <1>1, LinkInvariant, PTL
=============================================================================
