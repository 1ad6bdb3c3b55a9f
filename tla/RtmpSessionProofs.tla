------------------------ MODULE RtmpSessionProofs ------------------------
(***************************************************************************)
(* Proofs about RtmpSession.  The handshake: for every size of the blocks  *)
(* of C1 and S1, every key and offset and every make of clients, what is   *)
(* written in a schema is found again where it was put, and both sides     *)
(* agree on what they have done.  The session behind it: for every set of  *)
(* makes whose calls come in the order of SessionOrder, the server takes a *)
(* client for what it is, none of the two fails behind the handshake, and  *)
(* the media one side writes are read by the other in their order.         *)
(***************************************************************************)
EXTENDS SessionOrder, SequenceTheorems, FiniteSetTheorems, TLAPS

----------------------------------------------------------------------------
(* Sequences. *)

\* What is behind the first k elements of w begins with p.
Holds(w, k, p) == \A i \in 1..Len(p) : w[k + i] = p[i]

LEMMA PartTaken ==
    ASSUME NEW T, NEW w \in Seq(T), NEW p \in Seq(T), NEW k \in Nat, k + Len(p) <= Len(w),
           Holds(w, k, p)
    PROVE  SubSeq(w, k + 1, k + Len(p)) = p
<1>1. PICK s : s = SubSeq(w, k + 1, k + Len(p))
    OBVIOUS
<1>2. s \in Seq(T) /\ Len(s) = Len(p)
    BY <1>1
<1>3. ASSUME NEW i \in 1..Len(p) PROVE s[i] = p[i]
    BY <1>1, <1>2 DEF Holds
<1> QED BY <1>1, <1>2, <1>3

LEMMA OneTaken ==
    ASSUME NEW w, NEW k \in Nat, NEW x, Holds(w, k, << x >>)
    PROVE  w[k + 1] = x
    BY DEF Holds

LEMMA TwoParts ==
    ASSUME NEW T, NEW a \in Seq(T), NEW b \in Seq(T)
    PROVE  /\ a \o b \in Seq(T) /\ Len(a \o b) = Len(a) + Len(b)
           /\ Holds(a \o b, 0, a) /\ Holds(a \o b, Len(a), b)
<1> DEFINE w == a \o b
<1>1. w \in Seq(T) /\ Len(w) = Len(a) + Len(b)
    OBVIOUS
<1>2. ASSUME NEW i \in 1..Len(a) PROVE w[0 + i] = a[i]
    OBVIOUS
<1>3. ASSUME NEW i \in 1..Len(b) PROVE w[Len(a) + i] = b[i]
    OBVIOUS
<1> QED BY <1>1, <1>2, <1>3 DEF Holds

\* A part stays where it is when something follows.
LEMMA Followed ==
    ASSUME NEW T, NEW w \in Seq(T), NEW b \in Seq(T), NEW p \in Seq(T), NEW k \in Nat,
           k + Len(p) <= Len(w), Holds(w, k, p)
    PROVE  Holds(w \o b, k, p)
<1> SUFFICES ASSUME NEW i \in 1..Len(p) PROVE (w \o b)[k + i] = p[i]
    BY DEF Holds
<1>1. k + i \in 1..Len(w) /\ w[k + i] = p[i]
    BY DEF Holds
<1> QED BY <1>1

LEMMA ThreeParts ==
    ASSUME NEW T, NEW a \in Seq(T), NEW b \in Seq(T), NEW c \in Seq(T)
    PROVE  /\ a \o b \o c \in Seq(T) /\ Len(a \o b \o c) = Len(a) + Len(b) + Len(c)
           /\ Holds(a \o b \o c, 0, a) /\ Holds(a \o b \o c, Len(a), b)
           /\ Holds(a \o b \o c, Len(a) + Len(b), c)
<1> DEFINE w == a \o b \o c
<1>1. PICK f : f = a \o b
    OBVIOUS
<1>2. f \in Seq(T) /\ Len(f) = Len(a) + Len(b) /\ Holds(f, 0, a) /\ Holds(f, Len(a), b)
    BY <1>1, TwoParts
<1>3. w = f \o c
    BY <1>1
<1>4. w \in Seq(T) /\ Len(w) = Len(f) + Len(c) /\ Holds(w, Len(f), c)
    BY <1>2, <1>3, TwoParts
<1>5. Holds(w, 0, a) /\ Holds(w, Len(a), b)
  <2>1. 0 + Len(a) <= Len(f) /\ Len(a) + Len(b) <= Len(f)
    BY <1>2
  <2> QED BY <2>1, <1>2, <1>3, Followed
<1> QED BY <1>2, <1>4, <1>5

LEMMA FourParts ==
    ASSUME NEW T, NEW a \in Seq(T), NEW b \in Seq(T), NEW c \in Seq(T), NEW d \in Seq(T)
    PROVE  /\ a \o b \o c \o d \in Seq(T)
           /\ Len(a \o b \o c \o d) = Len(a) + Len(b) + Len(c) + Len(d)
           /\ Holds(a \o b \o c \o d, 0, a) /\ Holds(a \o b \o c \o d, Len(a), b)
           /\ Holds(a \o b \o c \o d, Len(a) + Len(b), c)
           /\ Holds(a \o b \o c \o d, Len(a) + Len(b) + Len(c), d)
<1> DEFINE w == a \o b \o c \o d
<1>1. PICK f : f = a \o b \o c
    OBVIOUS
<1>2. /\ f \in Seq(T) /\ Len(f) = Len(a) + Len(b) + Len(c)
      /\ Holds(f, 0, a) /\ Holds(f, Len(a), b) /\ Holds(f, Len(a) + Len(b), c)
    BY <1>1, ThreeParts
<1>3. w = f \o d
    BY <1>1
<1>4. w \in Seq(T) /\ Len(w) = Len(f) + Len(d) /\ Holds(w, Len(f), d)
    BY <1>2, <1>3, TwoParts
<1>5. Holds(w, 0, a) /\ Holds(w, Len(a), b) /\ Holds(w, Len(a) + Len(b), c)
  <2>1. 0 + Len(a) <= Len(f) /\ Len(a) + Len(b) <= Len(f) /\ Len(a) + Len(b) + Len(c) <= Len(f)
    BY <1>2
  <2> QED BY <2>1, <1>2, <1>3, Followed
<1> QED BY <1>2, <1>4, <1>5

----------------------------------------------------------------------------
(* The blocks of C1 and S1. *)

\* The room an offset leaves.
LEMMA Places ==
    ASSUME NEW o, Sum(o) \in Nat
    PROVE  /\ KeyPlace(o) \in Nat /\ KeyPlace(o) + KeySize + 2 <= BlockSize
           /\ DigestPlace(o) \in Nat /\ DigestPlace(o) + 3 <= BlockSize
<1>1. ASSUME NEW x \in Nat, NEW n \in Nat \ {0} PROVE x % n \in 0..(n - 1)
    OBVIOUS
<1>2. BlockSize - KeySize - 1 \in Nat \ {0} /\ BlockSize - 1 - 1 \in Nat \ {0}
    BY DigestAssumption
<1>3. PICK m, n : m = BlockSize - KeySize - 1 /\ n = BlockSize - 1 - 1
    OBVIOUS
<1>4. KeyPlace(o) \in 0..(m - 1) /\ DigestPlace(o) \in 0..(n - 1)
    BY <1>1, <1>2, <1>3 DEF KeyPlace, DigestPlace
<1> QED BY <1>3, <1>4, DigestAssumption

LEMMA Filler ==
    ASSUME NEW T, NEW n \in Nat, Number(Random) \in T
    PROVE  Repeated(n) \in Seq(T) /\ Len(Repeated(n)) = n
    BY DEF Repeated

LEMMA KeyFound ==
    ASSUME NEW T, NEW key \in Seq(T), Len(key) = KeySize, NEW o \in T, Sum(o) \in Nat,
           Number(Random) \in T
    PROVE  /\ KeyBytes(KeyBlock(key, o)) \in Seq(T)
           /\ Len(KeyBytes(KeyBlock(key, o))) = BlockSize
           /\ KeyParsed(KeyBytes(KeyBlock(key, o))) = KeyBlock(key, o)
<1>1. PICK n : n = KeyPlace(o)
    OBVIOUS
<1>2. n \in Nat /\ n + KeySize + 2 <= BlockSize
    BY <1>1, Places
<1>3. PICK r : r = Repeated(n)
    OBVIOUS
<1>4. PICK t : t = Repeated(BlockSize - n - KeySize - 1)
    OBVIOUS
<1>5. BlockSize - n - KeySize - 1 \in Nat
    BY <1>2, DigestAssumption
<1>6. /\ r \in Seq(T) /\ Len(r) = n
      /\ t \in Seq(T) /\ Len(t) = BlockSize - n - KeySize - 1
    BY <1>2, <1>3, <1>4, <1>5, Filler
<1>7. PICK b : b = r \o key \o t \o << o >>
    OBVIOUS
<1>8. KeyBytes(KeyBlock(key, o)) = b
    BY <1>1, <1>3, <1>4, <1>7 DEF KeyBytes, KeyBlock
<1>9. PICK e : e = << o >>
    OBVIOUS
<1>10. e \in Seq(T) /\ Len(e) = 1 /\ b = r \o key \o t \o e
    BY <1>7, <1>9
<1>11. /\ b \in Seq(T) /\ Len(b) = Len(r) + Len(key) + Len(t) + Len(e)
       /\ Holds(b, 0, r) /\ Holds(b, Len(r), key) /\ Holds(b, Len(r) + Len(key), t)
       /\ Holds(b, Len(r) + Len(key) + Len(t), e)
  <2>1. r \in Seq(T) /\ key \in Seq(T) /\ t \in Seq(T) /\ e \in Seq(T)
    BY <1>6, <1>10
  <2>2. /\ r \o key \o t \o e \in Seq(T)
        /\ Len(r \o key \o t \o e) = Len(r) + Len(key) + Len(t) + Len(e)
        /\ Holds(r \o key \o t \o e, 0, r) /\ Holds(r \o key \o t \o e, Len(r), key)
        /\ Holds(r \o key \o t \o e, Len(r) + Len(key), t)
        /\ Holds(r \o key \o t \o e, Len(r) + Len(key) + Len(t), e)
    BY <2>1, FourParts
  <2> QED BY <2>2, <1>10
<1>12. /\ Len(r) + Len(key) + Len(t) = BlockSize - 1 /\ BlockSize - 1 \in Nat
       /\ Len(r) + Len(key) = n + KeySize /\ n + KeySize \in Nat /\ BlockSize - 1 + 1 = BlockSize
    BY <1>2, <1>6, DigestAssumption
<1>13. /\ Holds(b, 0, r) /\ Holds(b, n, key) /\ Holds(b, n + KeySize, t)
       /\ Holds(b, BlockSize - 1, << o >>)
    BY <1>6, <1>9, <1>11, <1>12
<1>14. Len(b) = BlockSize /\ b[BlockSize] = o
    BY <1>10, <1>11, <1>12, <1>13, OneTaken
<1>15. SubSeq(b, 1, n) = r
  <2>1. 0 + Len(r) <= Len(b) /\ 0 + 1 = 1 /\ 0 + Len(r) = n
    BY <1>2, <1>6, <1>14, DigestAssumption
  <2>2. SubSeq(b, 0 + 1, 0 + Len(r)) = r
    BY <2>1, <1>6, <1>11, <1>13, PartTaken
  <2> QED BY <2>1, <2>2
<1>16. SubSeq(b, n + 1, n + KeySize) = key
  <2>1. n + Len(key) <= Len(b) /\ n + Len(key) = n + KeySize
    BY <1>2, <1>14, DigestAssumption
  <2>2. SubSeq(b, n + 1, n + Len(key)) = key
    BY <2>1, <1>2, <1>11, <1>13, PartTaken
  <2> QED BY <2>1, <2>2
<1>17. SubSeq(b, n + KeySize + 1, BlockSize - 1) = t
  <2>1. n + KeySize + Len(t) <= Len(b) /\ n + KeySize + Len(t) = BlockSize - 1
    BY <1>2, <1>6, <1>14, DigestAssumption
  <2>2. SubSeq(b, n + KeySize + 1, n + KeySize + Len(t)) = t
    BY <2>1, <1>6, <1>11, <1>12, <1>13, PartTaken
  <2> QED BY <2>1, <2>2
<1>18. KeyParsed(b) = KeyBlock(key, o)
  <2>1. KeyParsed(b) = [random0 |-> r, key |-> key, random1 |-> t, offset |-> o]
    BY <1>1, <1>14, <1>15, <1>16, <1>17 DEF KeyParsed
  <2>2. KeyBlock(key, o) = [random0 |-> r, key |-> key, random1 |-> t, offset |-> o]
    BY <1>1, <1>3, <1>4 DEF KeyBlock
  <2> QED BY <2>1, <2>2
<1> QED BY <1>8, <1>11, <1>18, <1>14

LEMMA DigestFound ==
    ASSUME NEW T, NEW d \in T, NEW o \in T, Sum(o) \in Nat, Number(Random) \in T, NEW e
    PROVE  /\ DigestBytes(DigestBlock(e, o), << d >>) \in Seq(T)
           /\ Len(DigestBytes(DigestBlock(e, o), << d >>)) = BlockSize
           /\ DigestParsed(DigestBytes(DigestBlock(e, o), << d >>)) = DigestBlock(d, o)
<1>1. PICK n : n = DigestPlace(o)
    OBVIOUS
<1>2. n \in Nat /\ n + 3 <= BlockSize
    BY <1>1, Places
<1>3. PICK r : r = Repeated(n)
    OBVIOUS
<1>4. PICK t : t = Repeated(BlockSize - 1 - n - 1)
    OBVIOUS
<1>5. BlockSize - 1 - n - 1 \in Nat
    BY <1>2, DigestAssumption
<1>6. /\ r \in Seq(T) /\ Len(r) = n
      /\ t \in Seq(T) /\ Len(t) = BlockSize - 1 - n - 1
    BY <1>2, <1>3, <1>4, <1>5, Filler
<1>7. PICK b : b = << o >> \o r \o << d >> \o t
    OBVIOUS
<1>8. DigestBytes(DigestBlock(e, o), << d >>) = b
    BY <1>1, <1>3, <1>4, <1>7 DEF DigestBytes, DigestBlock
<1>9. PICK f, g : f = << o >> /\ g = << d >>
    OBVIOUS
<1>10. /\ f \in Seq(T) /\ Len(f) = 1 /\ g \in Seq(T) /\ Len(g) = 1
       /\ b = f \o r \o g \o t
    BY <1>7, <1>9
<1>11. /\ b \in Seq(T) /\ Len(b) = Len(f) + Len(r) + Len(g) + Len(t)
       /\ Holds(b, 0, f) /\ Holds(b, Len(f), r) /\ Holds(b, Len(f) + Len(r), g)
       /\ Holds(b, Len(f) + Len(r) + Len(g), t)
  <2>1. f \in Seq(T) /\ r \in Seq(T) /\ g \in Seq(T) /\ t \in Seq(T)
    BY <1>6, <1>10
  <2>2. /\ f \o r \o g \o t \in Seq(T)
        /\ Len(f \o r \o g \o t) = Len(f) + Len(r) + Len(g) + Len(t)
        /\ Holds(f \o r \o g \o t, 0, f) /\ Holds(f \o r \o g \o t, Len(f), r)
        /\ Holds(f \o r \o g \o t, Len(f) + Len(r), g)
        /\ Holds(f \o r \o g \o t, Len(f) + Len(r) + Len(g), t)
    BY <2>1, FourParts
  <2> QED BY <2>2, <1>10
<1>12. /\ Len(f) + Len(r) = n + 1 /\ Len(f) + Len(r) + Len(g) = n + 2 /\ n + 1 \in Nat
       /\ n + 2 \in Nat /\ n + 1 + 1 = n + 2 /\ n + 2 + 1 = n + 3 /\ 0 + 1 = 1 /\ 1 + 1 = 2
    BY <1>2, <1>6, <1>10
<1>13. /\ Holds(b, 0, << o >>) /\ Holds(b, 1, r) /\ Holds(b, n + 1, << d >>)
       /\ Holds(b, n + 2, t)
    BY <1>9, <1>10, <1>11, <1>12
<1>14. Len(b) = BlockSize
    BY <1>2, <1>6, <1>10, <1>11, DigestAssumption
<1>15. b[1] = o /\ b[n + 2] = d
    BY <1>12, <1>13, OneTaken
<1>16. SubSeq(b, 2, n + 1) = r
  <2>1. 1 + Len(r) <= Len(b) /\ 1 + Len(r) = n + 1
    BY <1>2, <1>6, <1>14, DigestAssumption
  <2>2. SubSeq(b, 1 + 1, 1 + Len(r)) = r
    BY <2>1, <1>6, <1>11, <1>13, PartTaken
  <2> QED BY <2>1, <2>2, <1>12
<1>17. SubSeq(b, n + 3, BlockSize) = t
  <2>1. n + 2 + Len(t) <= Len(b) /\ n + 2 + Len(t) = BlockSize
    BY <1>2, <1>6, <1>14, DigestAssumption
  <2>2. SubSeq(b, n + 2 + 1, n + 2 + Len(t)) = t
    BY <2>1, <1>6, <1>11, <1>12, <1>13, PartTaken
  <2> QED BY <2>1, <2>2, <1>12
<1>18. DigestParsed(b) = DigestBlock(d, o)
  <2>1. DigestParsed(b) = [offset |-> o, random0 |-> r, digest |-> d, random1 |-> t]
    BY <1>1, <1>14, <1>15, <1>16, <1>17 DEF DigestParsed
  <2>2. DigestBlock(d, o) = [offset |-> o, random0 |-> r, digest |-> d, random1 |-> t]
    BY <1>1, <1>3, <1>4 DEF DigestBlock
  <2> QED BY <2>1, <2>2
<1> QED BY <1>8, <1>11, <1>18, <1>14

LEMMA Grouped ==
    ASSUME NEW T, NEW a \in Seq(T), NEW b \in Seq(T), NEW c \in Seq(T)
    PROVE  a \o (b \o c) = a \o b \o c
    OBVIOUS

\* The two blocks behind the head.
LEMMA BlocksFound ==
    ASSUME NEW T, NEW h \in T, NEW a \in Seq(T), NEW b \in Seq(T),
           Len(a) = BlockSize, Len(b) = BlockSize,
           NEW w, w = << h >> \o (a \o b)
    PROVE  /\ w[1] = h
           /\ SubSeq(w, 2, BlockSize + 1) = a
           /\ SubSeq(w, BlockSize + 2, 2 * BlockSize + 1) = b
<1>1. PICK f : f = << h >>
    OBVIOUS
<1>2. f \in Seq(T) /\ Len(f) = 1
    BY <1>1
<1>3. w = f \o a \o b
    BY <1>1, <1>2, Grouped
<1>4. /\ f \o a \o b \in Seq(T) /\ Len(f \o a \o b) = Len(f) + Len(a) + Len(b)
      /\ Holds(f \o a \o b, 0, f) /\ Holds(f \o a \o b, Len(f), a)
      /\ Holds(f \o a \o b, Len(f) + Len(a), b)
    BY <1>2, ThreeParts
<1>5. /\ w \in Seq(T) /\ Len(w) = 1 + BlockSize + BlockSize
      /\ Holds(w, 0, << h >>) /\ Holds(w, 1, a) /\ Holds(w, 1 + BlockSize, b)
    BY <1>1, <1>2, <1>3, <1>4
<1>6. /\ 0 + 1 = 1 /\ 1 + 1 = 2 /\ 1 + Len(a) = BlockSize + 1 /\ 1 + Len(a) <= Len(w)
      /\ 1 + BlockSize \in Nat /\ 1 + BlockSize + Len(b) <= Len(w)
      /\ 1 + BlockSize + 1 = BlockSize + 2 /\ 1 + BlockSize + Len(b) = 2 * BlockSize + 1
    BY <1>5, DigestAssumption
<1>7. w[0 + 1] = h
    BY <1>5, OneTaken
<1>8. SubSeq(w, 1 + 1, 1 + Len(a)) = a
    BY <1>5, <1>6, PartTaken
<1>9. SubSeq(w, 1 + BlockSize + 1, 1 + BlockSize + Len(b)) = b
    BY <1>5, <1>6, PartTaken
<1>10. w[1] = h /\ SubSeq(w, 2, BlockSize + 1) = a
    BY <1>6, <1>7, <1>8
<1>11. SubSeq(w, BlockSize + 2, 2 * BlockSize + 1) = b
    BY <1>6, <1>9
<1> QED BY <1>10, <1>11

Made(head, schema, key, o1, digest, o2) ==
    [head |-> head, schema |-> schema, key |-> KeyBlock(key, Number(o1)),
     digest |-> DigestBlock(digest, Number(o2))]

\* The cells of what is made of a key without digests.
Plain(key) == {Number(n) : n \in Nat} \cup Range(key)
KeyOK(key) ==
    /\ key \in Seq(Range(key)) /\ Len(key) = KeySize
    /\ \A x \in Range(key) : DOMAIN x \in {{"key"}, {"shared"}}

LEMMA PlainCells ==
    ASSUME NEW key, KeyOK(key), NEW x \in Plain(key)
    PROVE  Sum(x) \in Nat /\ \A k, data : x # Hmac(k, data)
<1>1. CASE x \in {Number(n) : n \in Nat}
  <2>1. PICK n \in Nat : x = [sum |-> n]
    BY <1>1 DEF Number
  <2>2. DOMAIN x = {"sum"} /\ x.sum = n
    BY <2>1
  <2>3. ASSUME NEW k, NEW data PROVE DOMAIN Hmac(k, data) = {"key", "data"}
    BY DEF Hmac
  <2> QED BY <2>2, <2>3 DEF Sum
<1>2. CASE x \in Range(key)
  <2>1. DOMAIN x \in {{"key"}, {"shared"}}
    BY <1>2 DEF KeyOK
  <2>2. "sum" \notin DOMAIN x /\ DOMAIN x # {"key", "data"}
    BY <2>1
  <2>3. ASSUME NEW k, NEW data PROVE DOMAIN Hmac(k, data) = {"key", "data"}
    BY DEF Hmac
  <2> QED BY <2>2, <2>3, DigestAssumption DEF Sum
<1> QED BY <1>1, <1>2 DEF Plain

LEMMA Recovered ==
    ASSUME NEW head, NEW schema \in {"schema0", "schema1"}, NEW key, KeyOK(key),
           NEW o1 \in Nat, NEW o2 \in Nat, NEW d,
           NEW c, c = Made(head, schema, key, o1, d, o2)
    PROVE  Parse(Dump(c), schema) = c
<1>1. PICK T : T = Plain(key) \cup {head, d}
    OBVIOUS
<1>2. PICK p, q : p = Number(o1) /\ q = Number(o2)
    OBVIOUS
<1>3. /\ p \in T /\ q \in T /\ Number(Random) \in T /\ head \in T /\ d \in T
    BY <1>1, <1>2, DigestAssumption DEF Plain
<1>4. Sum(p) \in Nat /\ Sum(q) \in Nat
    BY <1>2, PlainCells DEF Plain
<1>5. key \in Seq(T) /\ Len(key) = KeySize
    BY <1>1 DEF KeyOK, Plain
<1>6. PICK a : a = KeyBytes(KeyBlock(key, p))
    OBVIOUS
<1>7. a \in Seq(T) /\ Len(a) = BlockSize /\ KeyParsed(a) = KeyBlock(key, p)
    BY <1>3, <1>4, <1>5, <1>6, KeyFound
<1>8. PICK b : b = DigestBytes(DigestBlock(d, q), << d >>)
    OBVIOUS
<1>9. b \in Seq(T) /\ Len(b) = BlockSize /\ DigestParsed(b) = DigestBlock(d, q)
    BY <1>3, <1>4, <1>8, DigestFound
<1>10. c = [head |-> head, schema |-> schema, key |-> KeyBlock(key, p),
            digest |-> DigestBlock(d, q)]
    BY <1>2 DEF Made
<1>11. c.digest.digest = d
    BY <1>10 DEF DigestBlock
<1>12. PICK w : w = Dump(c)
    OBVIOUS
<1>13. CASE schema = "schema0"
  <2>1. w = << head >> \o (a \o b)
    BY <1>6, <1>8, <1>10, <1>11, <1>12, <1>13 DEF Dump, Copied
  <2>2. /\ w[1] = head /\ SubSeq(w, 2, BlockSize + 1) = a
        /\ SubSeq(w, BlockSize + 2, 2 * BlockSize + 1) = b
    BY <2>1, <1>3, <1>7, <1>9, BlocksFound, SMTT(30)
  <2>3. ParsedSchema0(w) = c
    BY <2>2, <1>7, <1>9, <1>10, <1>13 DEF ParsedSchema0
  <2> QED BY <2>3, <1>12, <1>13 DEF Parse
<1>14. CASE schema = "schema1"
  <2>1. w = << head >> \o (b \o a)
    BY <1>6, <1>8, <1>10, <1>11, <1>12, <1>14 DEF Dump, Copied
  <2>2. /\ w[1] = head /\ SubSeq(w, 2, BlockSize + 1) = b
        /\ SubSeq(w, BlockSize + 2, 2 * BlockSize + 1) = a
    BY <2>1, <1>3, <1>7, <1>9, BlocksFound, SMTT(30)
  <2>3. ParsedSchema1(w) = c
    BY <2>2, <1>7, <1>9, <1>10, <1>14 DEF ParsedSchema1
  <2> QED BY <2>3, <1>12, <1>14 DEF Parse
<1> QED BY <1>13, <1>14

\* What is signed does not depend on the digest.
Unsigned(head, schema, key, o1, o2) == Made(head, schema, key, o1, Number(Random), o2)

LEMMA SignedIsMade ==
    ASSUME NEW head, NEW schema, NEW key, NEW o1, NEW o2, NEW d,
           NEW c, c = Unsigned(head, schema, key, o1, o2)
    PROVE  /\ Signed(c, d) = Made(head, schema, key, o1, d, o2)
           /\ Copied(Signed(c, d), <<>>) = Copied(c, <<>>)
<1>1. PICK b : b = DigestBlock(Number(Random), Number(o2))
    OBVIOUS
<1>2. DigestBlock(d, Number(o2)) = [b EXCEPT !.digest = d]
    BY <1>1 DEF DigestBlock
<1>3. c = [head |-> head, schema |-> schema, key |-> KeyBlock(key, Number(o1)), digest |-> b]
    BY <1>1 DEF Unsigned, Made
<1>4. Signed(c, d) = [head |-> head, schema |-> schema, key |-> KeyBlock(key, Number(o1)),
                      digest |-> [b EXCEPT !.digest = d]]
    BY <1>3 DEF Signed
<1>5. Signed(c, d) = Made(head, schema, key, o1, d, o2)
    BY <1>2, <1>4 DEF Made
<1>6. PICK e : e = [b EXCEPT !.digest = d]
    OBVIOUS
<1>7. e.offset = b.offset /\ e.random0 = b.random0 /\ e.random1 = b.random1
    BY <1>1, <1>6 DEF DigestBlock
<1>8. DigestBytes(e, <<>>) = DigestBytes(b, <<>>)
    BY <1>7 DEF DigestBytes
<1>9. PICK s : s = Signed(c, d)
    OBVIOUS
<1>10. /\ s.head = c.head /\ s.schema = c.schema /\ s.key = c.key /\ s.digest = e
       /\ c.digest = b
    BY <1>3, <1>4, <1>6, <1>9
<1>11. Copied(s, <<>>) = Copied(c, <<>>)
    BY <1>8, <1>10 DEF Copied
<1> QED BY <1>5, <1>9, <1>11

\* c1_create, as it is read.
LEMMA C1Recovered ==
    ASSUME NEW schema \in {"schema0", "schema1"}, NEW key, KeyOK(key),
           NEW offsets \in Nat \X Nat, NEW c, c = C1Created(schema, key, offsets)
    PROVE  /\ Parse(Dump(c), schema) = c /\ C1Valid(c)
           /\ c.schema = schema /\ c.key.key = key
           /\ \E d : c = Made("c1", schema, key, offsets[1], d, offsets[2])
<1>1. PICK u : u = Unsigned("c1", schema, key, offsets[1], offsets[2])
    OBVIOUS
<1>2. PICK d : d = C1Digest(u)
    OBVIOUS
<1>3. c = Signed(u, d)
    BY <1>1, <1>2 DEF C1Created, Unsigned, Made
<1>4. c = Made("c1", schema, key, offsets[1], d, offsets[2]) /\ Copied(c, <<>>) = Copied(u, <<>>)
    BY <1>1, <1>3, SignedIsMade
<1>5. offsets[1] \in Nat /\ offsets[2] \in Nat
    OBVIOUS
<1>6. Parse(Dump(c), schema) = c
    BY <1>4, <1>5, Recovered
<1>7. c.digest.digest = d /\ c.schema = schema /\ c.key.key = key
    BY <1>4 DEF Made, DigestBlock, KeyBlock
<1>8. C1Valid(c)
    BY <1>2, <1>4, <1>7 DEF C1Valid, C1Digest
<1> QED BY <1>4, <1>6, <1>7, <1>8

LEMMA S1Recovered ==
    ASSUME NEW c1, c1.schema \in {"schema0", "schema1"}, KeyOK(SharedKey(c1.key.key)),
           NEW offsets \in Nat \X Nat, NEW s, s = S1Created(c1, offsets)
    PROVE  Parse(Dump(s), c1.schema) = s /\ S1Valid(s)
<1>1. PICK u : u = Unsigned("s1", c1.schema, SharedKey(c1.key.key), offsets[1], offsets[2])
    OBVIOUS
<1>2. PICK d : d = S1Digest(u)
    OBVIOUS
<1>3. s = Signed(u, d)
    BY <1>1, <1>2 DEF S1Created, Unsigned, Made
<1>4. /\ s = Made("s1", c1.schema, SharedKey(c1.key.key), offsets[1], d, offsets[2])
      /\ Copied(s, <<>>) = Copied(u, <<>>)
    BY <1>1, <1>3, SignedIsMade
<1>5. offsets[1] \in Nat /\ offsets[2] \in Nat
    OBVIOUS
<1>6. Parse(Dump(s), c1.schema) = s
    BY <1>4, <1>5, Recovered
<1>7. s.digest.digest = d
    BY <1>4 DEF Made, DigestBlock
<1>8. S1Valid(s)
    BY <1>2, <1>4, <1>7 DEF S1Valid, S1Digest
<1> QED BY <1>6, <1>8

\* A C1 of schema 1 has nothing where schema 0 looks for a digest.
LEMMA NotInSchema0 ==
    ASSUME NEW key, KeyOK(key), NEW o1 \in Nat, NEW o2 \in Nat, NEW d,
           NEW c, c = Made("c1", "schema1", key, o1, d, o2)
    PROVE  ~C1Valid(Parse(Dump(c), "schema0"))
<1>1. PICK T : T = Plain(key) \cup {"c1", d}
    OBVIOUS
<1>2. PICK p, q : p = Number(o1) /\ q = Number(o2)
    OBVIOUS
<1>3. /\ p \in T /\ q \in T /\ Number(Random) \in T /\ "c1" \in T /\ d \in T
      /\ p \in Plain(key) /\ Number(Random) \in Plain(key)
    BY <1>1, <1>2, DigestAssumption DEF Plain
<1>4. Sum(p) \in Nat /\ Sum(q) \in Nat
    BY <1>2, PlainCells DEF Plain
<1>5. key \in Seq(T) /\ key \in Seq(Plain(key)) /\ Len(key) = KeySize
    BY <1>1 DEF KeyOK, Plain
<1>6. PICK a : a = KeyBytes(KeyBlock(key, p))
    OBVIOUS
<1>7. a \in Seq(T) /\ a \in Seq(Plain(key)) /\ Len(a) = BlockSize
    BY <1>3, <1>4, <1>5, <1>6, KeyFound
<1>8. PICK b : b = DigestBytes(DigestBlock(d, q), << d >>)
    OBVIOUS
<1>9. b \in Seq(T) /\ Len(b) = BlockSize
    BY <1>3, <1>4, <1>8, DigestFound
<1>10. c = [head |-> "c1", schema |-> "schema1", key |-> KeyBlock(key, p),
            digest |-> DigestBlock(d, q)]
    BY <1>2 DEF Made
<1>11. c.digest.digest = d
    BY <1>10 DEF DigestBlock
<1>12. PICK w : w = Dump(c)
    OBVIOUS
<1>13. w = << "c1" >> \o (b \o a)
    BY <1>6, <1>8, <1>10, <1>11, <1>12 DEF Dump, Copied
<1>14. SubSeq(w, BlockSize + 2, 2 * BlockSize + 1) = a
    BY <1>13, <1>3, <1>7, <1>9, BlocksFound
<1>15. PICK n : n = DigestPlace(a[1])
    OBVIOUS
<1>16. n + 2 \in 1..BlockSize
  <2>1. 1 \in 1..BlockSize
    BY DigestAssumption
  <2>2. a[1] \in Plain(key)
    BY <2>1, <1>7
  <2>3. Sum(a[1]) \in Nat
    BY <2>2, PlainCells
  <2> QED BY <2>3, <1>15, Places, DigestAssumption
<1>17. a[n + 2] \in Plain(key)
    BY <1>7, <1>16
<1>18. PICK c0 : c0 = Parse(w, "schema0")
    OBVIOUS
<1>19. c0.digest.digest = a[n + 2]
    BY <1>14, <1>15, <1>18 DEF Parse, ParsedSchema0, DigestParsed
<1>20. a[n + 2] # C1Digest(c0)
    BY <1>17, PlainCells DEF C1Digest
<1> QED BY <1>12, <1>18, <1>19, <1>20 DEF C1Valid

\* handshake_with_client finds the digest of C1, in whatever schema it is.
LEMMA C1Decoded ==
    ASSUME NEW schema \in {"schema0", "schema1"}, NEW key, KeyOK(key),
           NEW offsets \in Nat \X Nat, NEW c, c = C1Created(schema, key, offsets)
    PROVE  DecodedC1(Dump(c)) = c /\ C1HasDigest(Dump(c))
<1>1. Parse(Dump(c), schema) = c /\ C1Valid(c)
    BY C1Recovered
<1>2. DecodedC1(Dump(c)) = c
  <2>1. CASE schema = "schema0"
    BY <1>1, <2>1 DEF DecodedC1
  <2>2. CASE schema = "schema1"
    <3>1. PICK d : c = Made("c1", schema, key, offsets[1], d, offsets[2])
      BY C1Recovered
    <3>2. offsets[1] \in Nat /\ offsets[2] \in Nat
      OBVIOUS
    <3>3. ~C1Valid(Parse(Dump(c), "schema0"))
      BY <2>2, <3>1, <3>2, NotInSchema0
    <3> QED BY <1>1, <2>2, <3>3 DEF DecodedC1
  <2> QED BY <2>1, <2>2
<1> QED BY <1>1, <1>2 DEF C1HasDigest

\* Random bytes have none.
LEMMA NoDigestInRandom == ~C1HasDigest(Filled("c1"))
<1>1. PICK w : w = Filled("c1")
    OBVIOUS
<1>2. PICK r : r = Repeated(2 * BlockSize)
    OBVIOUS
<1>3. /\ r \in Seq({Number(Random)}) /\ Len(r) = 2 * BlockSize
      /\ \A i \in 1..(2 * BlockSize) : r[i] = Number(Random)
    BY <1>2, DigestAssumption DEF Repeated
<1>4. PICK f : f = << "c1" >>
    OBVIOUS
<1>5. PICK T : T = {Number(Random), "c1"}
    OBVIOUS
<1>6. f \in Seq(T) /\ Len(f) = 1 /\ r \in Seq(T) /\ w = f \o r
    BY <1>1, <1>2, <1>3, <1>4, <1>5 DEF Filled
<1>7. f \o r \in Seq(T) /\ Len(f \o r) = Len(f) + Len(r) /\ Holds(f \o r, Len(f), r)
    BY <1>6, TwoParts
<1>8. w \in Seq(T) /\ Len(w) = 1 + 2 * BlockSize /\ Holds(w, 1, r)
    BY <1>3, <1>6, <1>7
<1>9. ASSUME NEW i \in 2..(2 * BlockSize + 1) PROVE w[i] = Number(Random)
  <2>1. i - 1 \in 1..Len(r) /\ 1 + (i - 1) = i
    BY <1>3, DigestAssumption
  <2>2. w[1 + (i - 1)] = r[i - 1]
    BY <1>8, <2>1 DEF Holds
  <2> QED BY <2>1, <2>2, <1>3
<1>10. ASSUME NEW k \in {2, BlockSize + 2},
              NEW c, c.digest = DigestParsed(SubSeq(w, k, k + BlockSize - 1))
       PROVE  ~C1Valid(c)
  <2>1. PICK b : b = SubSeq(w, k, k + BlockSize - 1)
    OBVIOUS
  <2>2. ASSUME NEW j \in 1..BlockSize PROVE b[j] = Number(Random)
    <3>1. k + BlockSize - 1 <= 2 * BlockSize + 1 /\ k \in Nat /\ k >= 2
      BY DigestAssumption
    <3>2. b[j] = w[k + j - 1]
      BY <1>8, <2>1, <3>1, DigestAssumption
    <3>3. k + j - 1 \in 2..(2 * BlockSize + 1)
      BY <3>1, DigestAssumption
    <3> QED BY <1>9, <3>2, <3>3
  <2>3. 1 \in 1..BlockSize
    BY DigestAssumption
  <2>4. Sum(b[1]) \in Nat
    <3>1. b[1] = [sum |-> Random]
      BY <2>2, <2>3 DEF Number
    <3>2. DOMAIN b[1] = {"sum"} /\ b[1].sum = Random
      BY <3>1
    <3> QED BY <3>2, DigestAssumption DEF Sum
  <2>5. PICK n : n = DigestPlace(b[1])
    OBVIOUS
  <2>6. n + 2 \in 1..BlockSize
    <3>1. PICK o : o = b[1]
      OBVIOUS
    <3>2. DigestPlace(o) \in Nat /\ DigestPlace(o) + 3 <= BlockSize
      BY <2>4, <3>1, Places
    <3> QED BY <2>5, <3>1, <3>2, DigestAssumption
  <2>7. c.digest.digest = Number(Random)
    <3>1. c.digest = DigestParsed(b)
      BY <1>10, <2>1
    <3>2. DigestParsed(b).digest = b[n + 2]
      BY <2>5 DEF DigestParsed
    <3> QED BY <3>1, <3>2, <2>2, <2>6
  <2>8. DOMAIN Number(Random) = {"sum"} /\ DOMAIN C1Digest(c) = {"key", "data"}
    BY DEF Number, C1Digest, Hmac
  <2> QED BY <2>7, <2>8 DEF C1Valid
<1>11. /\ 2 + BlockSize - 1 = BlockSize + 1
       /\ BlockSize + 2 + BlockSize - 1 = 2 * BlockSize + 1
    BY DigestAssumption
<1>12. ~C1Valid(Parse(w, "schema0"))
  <2>1. Parse(w, "schema0").digest
           = DigestParsed(SubSeq(w, BlockSize + 2, BlockSize + 2 + BlockSize - 1))
    BY <1>11 DEF Parse, ParsedSchema0
  <2> QED BY <1>10, <2>1
<1>13. ~C1Valid(Parse(w, "schema1"))
  <2>1. Parse(w, "schema1").digest = DigestParsed(SubSeq(w, 2, 2 + BlockSize - 1))
    BY <1>11 DEF Parse, ParsedSchema1
  <2> QED BY <1>10, <2>1
<1> QED BY <1>1, <1>12, <1>13 DEF C1HasDigest, DecodedC1

----------------------------------------------------------------------------
(* What each side has written and read. *)

ClientSaid == hs["client"].c0c1
ClientHeard == hs["client"].s0s1s2
ClientAnswered == hs["client"].c2
ServerHeard == hs["server"].c0c1
ServerSaid == hs["server"].s0s1s2
ServerHeardAnswer == hs["server"].c2

Ends == {"failed", "lost", "closed"}
HasDigest == make.server_ssl /\ C1HasDigest(C0C1[2].bytes)

\* A sequence, of whatever is in it.
Listed(w) == w \in Seq(Range(w))

StateOK ==
    /\ make \in Makes
    /\ DOMAIN stage = Sides /\ DOMAIN wire = Sides /\ DOMAIN try = Sides /\ DOMAIN hs = Sides
    /\ \A s \in Sides : Listed(wire[s]) /\ DOMAIN hs[s] = DOMAIN Blocks
    /\ stage["client"] \in {"c0c1", "s0s1s2", "rtmp"} \cup Ends
    /\ stage["server"] \in {"c0c1", "c2", "rtmp"} \cup Ends

ClientOK ==
    /\ try["client"] = FirstTry("client")
    /\ stage["client"] \in {"c0c1", "s0s1s2"} =>
          ClientHeard = <<>> /\ ClientAnswered = <<>> /\ wire["client"] = ServerSaid
    /\ ClientSaid \in {<<>>, C0C1}
    /\ stage["client"] = "c0c1" => ClientSaid = <<>>
    /\ stage["client"] \in {"s0s1s2", "rtmp"} => ClientSaid = C0C1
    /\ ClientAnswered # <<>> => ServerSaid # <<>> /\ ClientAnswered = C2(ServerSaid)
    /\ stage["client"] = "rtmp" => ClientHeard = ServerSaid /\ ClientAnswered # <<>>

\* The first part the server reads of the answer is there, and behind it what else
\* the client has written.
AnswerComes ==
    IF ClientAnswered = <<>> THEN wire["server"] = <<>>
    ELSE wire["server"] # <<>> /\ ClientAnswered = << wire["server"][1] >>

ServerOK ==
    /\ ServerHeard # <<>> => ServerHeard = C0C1 /\ ClientSaid = C0C1
    /\ ServerSaid # <<>> => /\ ServerHeard # <<>> /\ ServerSaid = S0S1S2(C0C1)
                            /\ try["server"] = IF HasDigest THEN "complex" ELSE "simple"
    /\ stage["server"] = "c0c1" =>
          /\ ServerSaid = <<>> /\ ServerHeardAnswer = <<>>
          /\ IF ServerHeard = <<>>
             THEN try["server"] = FirstTry("server") /\ wire["server"] = ClientSaid
             ELSE try["server"] = "simple" /\ ~HasDigest /\ wire["server"] = <<>>
    /\ stage["server"] = "c2" => ServerSaid # <<>> /\ ServerHeardAnswer = <<>> /\ AnswerComes
    /\ stage["server"] = "rtmp" => /\ ServerSaid # <<>> /\ ClientAnswered # <<>>
                                   /\ ServerHeardAnswer = ClientAnswered

HandshakeInv == StateOK /\ ClientOK /\ ServerOK

LEMMA HandshakeInvInit == SessionInit => HandshakeInv
<1> SUFFICES ASSUME SessionInit PROVE HandshakeInv
    OBVIOUS
<1>1. /\ make \in Makes /\ wire = [s \in Sides |-> <<>>] /\ hs = [s \in Sides |-> NoBytes]
      /\ try = [s \in Sides |-> FirstTry(s)]
      /\ DOMAIN stage = Sides /\ stage["client"] \in {"c0c1", "failed"} /\ stage["server"] = "c0c1"
    BY DEF SessionInit, HandshakeInit, Sides
<1>2. /\ ClientSaid = <<>> /\ ClientHeard = <<>> /\ ClientAnswered = <<>>
      /\ ServerHeard = <<>> /\ ServerSaid = <<>> /\ ServerHeardAnswer = <<>>
    BY <1>1 DEF ClientSaid, ClientHeard, ClientAnswered, ServerHeard, ServerSaid,
                ServerHeardAnswer, NoBytes, Sides
<1>3. /\ wire["client"] = <<>> /\ wire["server"] = <<>>
      /\ try["client"] = FirstTry("client") /\ try["server"] = FirstTry("server")
    BY <1>1 DEF Sides
<1>4. \A s \in Sides : Listed(wire[s]) /\ DOMAIN hs[s] = DOMAIN Blocks
    BY <1>1 DEF NoBytes, Blocks, Listed
<1>5. StateOK
    BY <1>1, <1>4 DEF StateOK, Ends
<1>6. ClientOK
    BY <1>1, <1>2, <1>3 DEF ClientOK
<1>7. ServerOK
    BY <1>1, <1>2, <1>3 DEF ServerOK
<1> QED BY <1>5, <1>6, <1>7 DEF HandshakeInv

\* How many blocks the parts have.
LEMMA PartsWritten ==
    /\ \E x, y : C0C1 = << x, y >>
    /\ \A c : \E x, y, z : S0S1S2(c) = << x, y, z >>
    /\ \A s : \E x : C2(s) = << x >>
    BY DEF C0C1, S0S1S2, C2

LEMMA ListedSeq ==
    ASSUME NEW T, NEW w \in Seq(T) PROVE Listed(w)
<1>1. \A i \in 1..Len(w) : w[i] \in Range(w)
    BY DEF Range
<1> QED BY <1>1 DEF Listed

LEMMA ListedStays ==
    /\ Listed(<<>>)
    /\ \A x : Listed(<< x >>)
    /\ \A x, y : Listed(<< x, y >>)
    /\ \A x, y, z : Listed(<< x, y, z >>)
    /\ \A w, x : Listed(w) /\ Listed(x) => Listed(w \o x)
    /\ \A w : Listed(w) /\ w # <<>> => Listed(Tail(w))
<1>1. Listed(<<>>)
    BY DEF Listed
<1>2. ASSUME NEW x PROVE Listed(<< x >>)
  <2>1. << x >> \in Seq({x})
    OBVIOUS
  <2> QED BY <2>1, ListedSeq
<1>3. ASSUME NEW x, NEW y PROVE Listed(<< x, y >>)
  <2>1. << x, y >> \in Seq({x, y})
    OBVIOUS
  <2> QED BY <2>1, ListedSeq
<1>4. ASSUME NEW x, NEW y, NEW z PROVE Listed(<< x, y, z >>)
  <2>1. << x, y, z >> \in Seq({x, y, z})
    OBVIOUS
  <2> QED BY <2>1, ListedSeq
<1>5. ASSUME NEW w, NEW x, Listed(w), Listed(x) PROVE Listed(w \o x)
  <2>1. PICK T : T = Range(w) \cup Range(x)
    OBVIOUS
  <2>2. w \in Seq(T) /\ x \in Seq(T)
    BY <1>5, <2>1 DEF Listed
  <2>3. w \o x \in Seq(T)
    BY <2>2
  <2> QED BY <2>3, ListedSeq
<1>6. ASSUME NEW w, Listed(w), w # <<>> PROVE Listed(Tail(w))
  <2>1. Tail(w) \in Seq(Range(w))
    BY <1>6 DEF Listed
  <2> QED BY <2>1, ListedSeq
<1> QED BY <1>1, <1>2, <1>3, <1>4, <1>5, <1>6

\* A part is taken from the wire entire, and nothing is left of it.
LEMMA Whole ==
    ASSUME NEW w, Listed(w), NEW n, n = Len(w)
    PROVE  SubSeq(w, 1, n) = w /\ SubSeq(w, n + 1, n) = <<>>
<1>1. PICK T : T = Range(w)
    OBVIOUS
<1>2. w \in Seq(T) /\ n \in Nat
    BY <1>1 DEF Listed
<1>3. PICK v : v = SubSeq(w, 1, n)
    OBVIOUS
<1>4. v \in Seq(T) /\ Len(v) = n /\ \A i \in 1..n : v[i] = w[i]
    BY <1>2, <1>3
<1>5. v = w
    BY <1>2, <1>4
<1>6. PICK u : u = SubSeq(w, n + 1, n)
    OBVIOUS
<1>7. u \in Seq(T) /\ Len(u) = 0
    BY <1>2, <1>6
<1>8. u = <<>>
    BY <1>7
<1> QED BY <1>3, <1>5, <1>6, <1>8

LEMMA Determined ==
    ASSUME make' = make, try'["client"] = try["client"]
    PROVE  /\ C0C1' = C0C1 /\ HasDigest' = HasDigest /\ C1Schema' = C1Schema
           /\ FirstTry("client")' = FirstTry("client")
           /\ FirstTry("server")' = FirstTry("server")
           /\ ServerSaid' = ServerSaid => C2(ServerSaid)' = C2(ServerSaid)
           /\ try'["server"] = try["server"] => S0S1S2(C0C1)' = S0S1S2(C0C1)
<1>1. C1Schema' = C1Schema
    BY DEF C1Schema
<1>2. C0C1' = C0C1
    BY <1>1 DEF C0C1
<1>3. HasDigest' = HasDigest
    BY <1>2 DEF HasDigest
<1>4. FirstTry("client")' = FirstTry("client") /\ FirstTry("server")' = FirstTry("server")
    BY DEF FirstTry
<1>5. ASSUME ServerSaid' = ServerSaid PROVE C2(ServerSaid)' = C2(ServerSaid)
    BY <1>5 DEF C2
<1>6. ASSUME try'["server"] = try["server"] PROVE S0S1S2(C0C1)' = S0S1S2(C0C1)
    BY <1>2, <1>6 DEF S0S1S2
<1> QED BY <1>1, <1>2, <1>3, <1>4, <1>5, <1>6

LEMMA WriteC0C1Inv ==
    ASSUME HandshakeInv, WriteC0C1 PROVE HandshakeInv'
<1>1. /\ stage["client"] = "c0c1" /\ stage' = [stage EXCEPT !["client"] = "s0s1s2"]
      /\ hs' = [hs EXCEPT !["client"]["c0c1"] = C0C1]
      /\ wire' = [wire EXCEPT !["server"] = @ \o C0C1]
      /\ make' = make /\ try' = try
    BY DEF WriteC0C1, Keep, Enter
<1>2. StateOK /\ ClientOK /\ ServerOK
    BY DEF HandshakeInv
<1>3. /\ ClientSaid' = C0C1 /\ ClientHeard' = ClientHeard /\ ClientAnswered' = ClientAnswered
      /\ ServerHeard' = ServerHeard /\ ServerSaid' = ServerSaid
      /\ ServerHeardAnswer' = ServerHeardAnswer
      /\ \A s \in Sides : DOMAIN hs'[s] = DOMAIN hs[s]
    BY <1>1, <1>2 DEF StateOK, ClientSaid, ClientHeard, ClientAnswered, ServerHeard, ServerSaid,
                      ServerHeardAnswer, Sides, Blocks
<1>4. /\ wire'["client"] = wire["client"] /\ wire'["server"] = wire["server"] \o C0C1
      /\ stage'["client"] = "s0s1s2" /\ stage'["server"] = stage["server"]
    BY <1>1, <1>2 DEF StateOK, Sides
<1>5. /\ ClientSaid = <<>> /\ ServerHeard = <<>> /\ ServerSaid = <<>> /\ ClientAnswered = <<>>
      /\ stage["server"] \notin {"c2", "rtmp"}
      /\ stage["server"] = "c0c1" => wire["server"] = <<>>
    BY <1>1, <1>2, PartsWritten DEF ClientOK, ServerOK
<1>6. C0C1' = C0C1 /\ FirstTry("client")' = FirstTry("client")
      /\ FirstTry("server")' = FirstTry("server")
    BY <1>1, Determined
<1>7. StateOK'
  <2>1. PICK x, y : C0C1 = << x, y >>
    BY PartsWritten
  <2>2. Listed(wire["client"]) /\ Listed(wire["server"]) /\ Listed(C0C1)
    BY <1>2, <2>1, ListedStays DEF StateOK, Sides
  <2>3. Listed(wire'["client"]) /\ Listed(wire'["server"])
    BY <1>4, <2>2, ListedStays
  <2> QED BY <1>1, <1>2, <1>3, <1>4, <2>3 DEF StateOK, Sides
<1>8. ClientOK'
    BY <1>1, <1>2, <1>3, <1>4, <1>5, <1>6 DEF ClientOK
<1>9. ServerOK'
  <2>1. PICK x, y : C0C1 = << x, y >>
    BY PartsWritten
  <2>2. <<>> \o C0C1 = C0C1
    BY <2>1
  <2> QED BY <1>1, <1>2, <1>3, <1>4, <1>5, <1>6, <2>2 DEF ServerOK
<1> QED BY <1>7, <1>8, <1>9 DEF HandshakeInv

\* What the server reads of C0C1, on its first try or again.
LEMMA C0C1Read ==
    ASSUME HandshakeInv, stage["server"] = "c0c1", Readable("server", "c0c1")
    PROVE  /\ Read("server", "c0c1") = C0C1 /\ Rest("server", "c0c1") = <<>>
           /\ ClientSaid = C0C1 /\ stage["client"] # "c0c1" /\ C0C1 # <<>>
<1>1. StateOK /\ ClientOK /\ ServerOK
    BY DEF HandshakeInv
<1>2. PICK x, y : C0C1 = << x, y >>
    BY PartsWritten
<1>3. CASE ServerHeard # <<>>
  <2>1. ServerHeard = C0C1 /\ ClientSaid = C0C1 /\ wire["server"] = <<>>
    BY <1>1, <1>3 DEF ServerOK
  <2>2. Read("server", "c0c1") = C0C1 /\ Rest("server", "c0c1") = <<>>
    BY <1>3, <2>1 DEF Read, Rest, HasRead, ServerHeard
  <2> QED BY <1>1, <1>2, <2>1, <2>2 DEF ClientOK
<1>4. CASE ServerHeard = <<>>
  <2>1. wire["server"] = ClientSaid /\ ClientSaid \in {<<>>, C0C1}
    BY <1>1, <1>4 DEF ServerOK, ClientOK
  <2>2. ~HasRead("server", "c0c1") /\ Len(wire["server"]) >= 2
    BY <1>4 DEF Readable, HasRead, ServerHeard, Blocks
  <2>3. wire["server"] = << x, y >> /\ ClientSaid = C0C1
    BY <1>2, <2>1, <2>2
  <2>4. Read("server", "c0c1") = SubSeq(<< x, y >>, 1, 2)
        /\ Rest("server", "c0c1") = SubSeq(<< x, y >>, 3, 2)
    BY <2>2, <2>3 DEF Read, Rest, Blocks
  <2>5. SubSeq(<< x, y >>, 1, 2) = << x, y >> /\ SubSeq(<< x, y >>, 3, 2) = <<>>
    <3>1. PICK w : w = << x, y >>
      OBVIOUS
    <3>2. Listed(w)
      BY <3>1, ListedStays
    <3>3. PICK n : n = Len(w)
      OBVIOUS
    <3>4. n = 2 /\ n + 1 = 3
      BY <3>1, <3>3
    <3>5. SubSeq(w, 1, n) = w /\ SubSeq(w, n + 1, n) = <<>>
      BY <3>2, <3>3, Whole
    <3> QED BY <3>1, <3>4, <3>5
  <2> QED BY <1>1, <1>2, <2>3, <2>4, <2>5 DEF ClientOK
<1> QED BY <1>3, <1>4

LEMMA AnsweredInv ==
    ASSUME HandshakeInv, ReadC0C1, Answered(C0C1) PROVE HandshakeInv'
<1>1. StateOK /\ ClientOK /\ ServerOK
    BY DEF HandshakeInv
<1>2. PICK a : a = S0S1S2(C0C1)
    OBVIOUS
<1>3. /\ stage["server"] = "c0c1" /\ Readable("server", "c0c1")
    BY DEF ReadC0C1
<1>4. /\ Read("server", "c0c1") = C0C1 /\ Rest("server", "c0c1") = <<>>
      /\ ClientSaid = C0C1 /\ stage["client"] # "c0c1" /\ C0C1 # <<>>
    BY <1>3, C0C1Read
<1>5. /\ stage' = [stage EXCEPT !["server"] = "c2"]
      /\ hs' = [hs EXCEPT !["server"].c0c1 = C0C1, !["server"].s0s1s2 = a]
      /\ wire' = [s \in Sides |-> IF s = "server" THEN <<>> ELSE wire[s] \o a]
      /\ make' = make /\ try' = try
    BY <1>2, <1>4 DEF ReadC0C1, Enter
<1>6. /\ ClientSaid' = ClientSaid /\ ClientHeard' = ClientHeard
      /\ ClientAnswered' = ClientAnswered
      /\ ServerHeard' = C0C1 /\ ServerSaid' = a /\ ServerHeardAnswer' = ServerHeardAnswer
      /\ \A s \in Sides : DOMAIN hs'[s] = DOMAIN hs[s]
    BY <1>1, <1>5 DEF StateOK, ClientSaid, ClientHeard, ClientAnswered, ServerHeard, ServerSaid,
                      ServerHeardAnswer, Sides, Blocks
<1>7. /\ wire'["client"] = wire["client"] \o a /\ wire'["server"] = <<>>
      /\ stage'["client"] = stage["client"] /\ stage'["server"] = "c2"
    BY <1>1, <1>5 DEF StateOK, Sides
<1>8. /\ ServerSaid = <<>> /\ ClientAnswered = <<>> /\ ServerHeardAnswer = <<>>
      /\ stage["client"] # "rtmp"
      /\ stage["client"] = "s0s1s2" => wire["client"] = <<>>
    BY <1>1, <1>3 DEF ClientOK, ServerOK
<1>9. try["server"] = IF HasDigest THEN "complex" ELSE "simple"
    BY <1>1, <1>3, <1>4 DEF ServerOK, Answered, HasDigest, FirstTry
<1>10. /\ C0C1' = C0C1 /\ FirstTry("client")' = FirstTry("client")
       /\ HasDigest' = HasDigest /\ S0S1S2(C0C1)' = a
    BY <1>2, <1>5, Determined
<1>11. PICK x, y, z : a = << x, y, z >>
    BY <1>2, PartsWritten
<1>12. StateOK'
  <2>1. Listed(wire["client"]) /\ Listed(a) /\ Listed(wire'["server"])
    BY <1>1, <1>7, <1>11, ListedStays DEF StateOK, Sides
  <2>2. Listed(wire'["client"])
    BY <1>7, <2>1, ListedStays
  <2> QED BY <1>1, <1>5, <1>6, <1>7, <2>1, <2>2 DEF StateOK, Sides
<1>13. ClientOK'
  <2>1. <<>> \o a = a
    BY <1>11
  <2> QED BY <1>1, <1>4, <1>5, <1>6, <1>7, <1>8, <1>10, <2>1 DEF ClientOK
<1>14. ServerOK'
    BY <1>1, <1>4, <1>5, <1>6, <1>7, <1>8, <1>9, <1>10, <1>11 DEF ServerOK, AnswerComes
<1> QED BY <1>12, <1>13, <1>14 DEF HandshakeInv

\* Whatever else happens, the server tries the simple handshake next, or fails.
LEMMA NotAnsweredInv ==
    ASSUME HandshakeInv, ReadC0C1, ~Answered(C0C1) PROVE HandshakeInv'
<1>1. StateOK /\ ClientOK /\ ServerOK
    BY DEF HandshakeInv
<1>2. /\ stage["server"] = "c0c1" /\ Readable("server", "c0c1")
    BY DEF ReadC0C1
<1>3. /\ Read("server", "c0c1") = C0C1 /\ Rest("server", "c0c1") = <<>>
      /\ ClientSaid = C0C1 /\ stage["client"] # "c0c1" /\ C0C1 # <<>>
    BY <1>2, C0C1Read
<1>4. /\ stage' = [stage EXCEPT !["server"] =
                       IF try["server"] = "complex" THEN "c0c1" ELSE "failed"]
      /\ hs' = [hs EXCEPT !["server"]["c0c1"] = C0C1]
      /\ wire' = [wire EXCEPT !["server"] = <<>>]
      /\ make' = make /\ try' = [try EXCEPT !["server"] = "simple"]
    BY <1>3 DEF ReadC0C1, Enter, Keep
<1>5. /\ ClientSaid' = ClientSaid /\ ClientHeard' = ClientHeard
      /\ ClientAnswered' = ClientAnswered
      /\ ServerHeard' = C0C1 /\ ServerSaid' = ServerSaid /\ ServerHeardAnswer' = ServerHeardAnswer
      /\ \A s \in Sides : DOMAIN hs'[s] = DOMAIN hs[s]
    BY <1>1, <1>4 DEF StateOK, ClientSaid, ClientHeard, ClientAnswered, ServerHeard, ServerSaid,
                      ServerHeardAnswer, Sides, Blocks
<1>6. /\ wire'["client"] = wire["client"] /\ wire'["server"] = <<>>
      /\ try'["client"] = try["client"] /\ try'["server"] = "simple"
      /\ stage'["client"] = stage["client"]
      /\ stage'["server"] = IF try["server"] = "complex" THEN "c0c1" ELSE "failed"
    BY <1>1, <1>4 DEF StateOK, Sides
<1>7. ServerSaid = <<>> /\ ServerHeardAnswer = <<>>
    BY <1>1, <1>2 DEF ServerOK
<1>8. stage'["server"] = "c0c1" => ~HasDigest
    BY <1>6 DEF Answered, HasDigest
<1>9. /\ C0C1' = C0C1 /\ FirstTry("client")' = FirstTry("client")
      /\ HasDigest' = HasDigest
    BY <1>4, <1>6, Determined
<1>10. StateOK'
  <2>1. Listed(wire'["client"]) /\ Listed(wire'["server"])
    BY <1>1, <1>6, ListedStays DEF StateOK, Sides
  <2> QED BY <1>1, <1>4, <1>5, <1>6, <2>1 DEF StateOK, Sides, Ends
<1>11. ClientOK'
  <2>1. ClientAnswered = <<>> /\ stage["client"] # "rtmp"
    BY <1>1, <1>7 DEF ClientOK
  <2> QED BY <1>1, <1>5, <1>6, <1>9, <2>1 DEF ClientOK
<1>12. ServerOK'
    BY <1>3, <1>5, <1>6, <1>7, <1>8, <1>9 DEF ServerOK
<1> QED BY <1>10, <1>11, <1>12 DEF HandshakeInv

LEMMA ReadS0S1S2Inv ==
    ASSUME HandshakeInv, ReadS0S1S2 PROVE HandshakeInv'
<1>1. StateOK /\ ClientOK /\ ServerOK
    BY DEF HandshakeInv
<1>2. /\ stage["client"] = "s0s1s2" /\ Readable("client", "s0s1s2")
    BY DEF ReadS0S1S2
<1>3. /\ ClientHeard = <<>> /\ ClientAnswered = <<>> /\ wire["client"] = ServerSaid
      /\ ClientSaid = C0C1
    BY <1>1, <1>2 DEF ClientOK
<1>4. ~HasRead("client", "s0s1s2") /\ Len(ServerSaid) >= 3
    BY <1>2, <1>3 DEF Readable, HasRead, ClientHeard, Blocks
<1>5. ServerSaid # <<>> /\ ServerSaid = S0S1S2(C0C1)
    BY <1>1, <1>4 DEF ServerOK
<1>6. PICK x, y : ServerSaid = << [k |-> "s0", plain |-> TRUE], x, y >>
    BY <1>5 DEF S0S1S2
<1>7. Read("client", "s0s1s2") = ServerSaid /\ Rest("client", "s0s1s2") = <<>>
  <2>1. /\ Read("client", "s0s1s2") = SubSeq(ServerSaid, 1, 3)
        /\ Rest("client", "s0s1s2") = SubSeq(ServerSaid, 4, Len(ServerSaid))
    BY <1>3, <1>4 DEF Read, Rest, Blocks
  <2>2. Listed(ServerSaid)
    BY <1>6, ListedStays
  <2>3. Len(ServerSaid) = 3 /\ 3 + 1 = 4
    BY <1>6
  <2>4. SubSeq(ServerSaid, 1, 3) = ServerSaid /\ SubSeq(ServerSaid, 3 + 1, 3) = <<>>
    BY <2>2, <2>3, Whole
  <2> QED BY <2>1, <2>3, <2>4
<1>8. ServerSaid[1].plain
    BY <1>6
<1>9. PICK c : c = C2(ServerSaid)
    OBVIOUS
<1>10. PICK z : c = << z >>
    BY <1>9, PartsWritten
<1>11. /\ stage' = [stage EXCEPT !["client"] = "rtmp"]
       /\ hs' = [hs EXCEPT !["client"].s0s1s2 = ServerSaid, !["client"].c2 = c]
       /\ wire' = [s \in Sides |-> IF s = "client" THEN <<>> ELSE wire[s] \o c]
       /\ make' = make /\ try' = try
    BY <1>7, <1>8, <1>9 DEF ReadS0S1S2, Enter
<1>12. /\ ClientSaid' = ClientSaid /\ ClientHeard' = ServerSaid /\ ClientAnswered' = c
       /\ ServerHeard' = ServerHeard /\ ServerSaid' = ServerSaid
       /\ ServerHeardAnswer' = ServerHeardAnswer
       /\ \A s \in Sides : DOMAIN hs'[s] = DOMAIN hs[s]
    BY <1>1, <1>11 DEF StateOK, ClientSaid, ClientHeard, ClientAnswered, ServerHeard, ServerSaid,
                      ServerHeardAnswer, Sides, Blocks
<1>13. /\ wire'["client"] = <<>> /\ wire'["server"] = wire["server"] \o c
       /\ stage'["client"] = "rtmp" /\ stage'["server"] = stage["server"]
    BY <1>1, <1>11 DEF StateOK, Sides
<1>14. stage["server"] \notin {"c0c1", "rtmp"}
       /\ (stage["server"] = "c2" => wire["server"] = <<>>)
    BY <1>1, <1>3, <1>5 DEF ServerOK, AnswerComes
<1>15. /\ C0C1' = C0C1 /\ FirstTry("client")' = FirstTry("client")
       /\ HasDigest' = HasDigest /\ S0S1S2(C0C1)' = S0S1S2(C0C1)
       /\ C2(ServerSaid)' = c
    BY <1>9, <1>11, <1>12, Determined
<1>16. StateOK'
  <2>1. Listed(wire["server"]) /\ Listed(c) /\ Listed(wire'["client"])
    BY <1>1, <1>10, <1>13, ListedStays DEF StateOK, Sides
  <2>2. Listed(wire'["server"])
    BY <1>13, <2>1, ListedStays
  <2> QED BY <1>1, <1>11, <1>12, <1>13, <2>1, <2>2 DEF StateOK, Sides
<1>17. ClientOK'
    BY <1>1, <1>3, <1>5, <1>10, <1>11, <1>12, <1>13, <1>15 DEF ClientOK
<1>18. ServerOK'
  <2>1. <<>> \o c = c /\ c # <<>> /\ c[1] = z
    BY <1>10
  <2>2. stage'["server"] = "c2" => AnswerComes'
    BY <1>10, <1>12, <1>13, <1>14, <2>1 DEF AnswerComes
  <2> QED BY <1>1, <1>3, <1>5, <1>11, <1>12, <1>13, <1>14, <1>15, <2>2 DEF ServerOK
<1> QED BY <1>16, <1>17, <1>18 DEF HandshakeInv

LEMMA HeadAndTail ==
    ASSUME NEW T, NEW w \in Seq(T), w # <<>>
    PROVE  SubSeq(w, 1, 1) = << w[1] >> /\ SubSeq(w, 2, Len(w)) = Tail(w)
<1>1. Len(w) \in Nat \ {0}
    OBVIOUS
<1>2. PICK v : v = SubSeq(w, 1, 1)
    OBVIOUS
<1>3. v \in Seq(T) /\ Len(v) = 1 /\ v[1] = w[1]
    BY <1>1, <1>2
<1>4. v = << w[1] >>
    BY <1>3
<1>5. PICK t : t = SubSeq(w, 2, Len(w))
    OBVIOUS
<1>6. t \in Seq(T) /\ Len(t) = Len(w) - 1 /\ \A i \in 1..Len(t) : t[i] = w[i + 1]
    BY <1>1, <1>5
<1>7. /\ Tail(w) \in Seq(T) /\ Len(Tail(w)) = Len(w) - 1
      /\ \A i \in 1..Len(Tail(w)) : Tail(w)[i] = w[i + 1]
    BY <1>1
<1>8. t = Tail(w)
    BY <1>6, <1>7
<1> QED BY <1>2, <1>4, <1>5, <1>8

LEMMA ReadC2Inv ==
    ASSUME HandshakeInv, ReadC2 PROVE HandshakeInv'
<1>1. StateOK /\ ClientOK /\ ServerOK
    BY DEF HandshakeInv
<1>2. stage["server"] = "c2" /\ Readable("server", "c2")
    BY DEF ReadC2
<1>3. ServerSaid # <<>> /\ ServerHeardAnswer = <<>> /\ AnswerComes
    BY <1>1, <1>2 DEF ServerOK
<1>4. ~HasRead("server", "c2") /\ Len(wire["server"]) >= 1
    BY <1>2, <1>3 DEF Readable, HasRead, ServerHeardAnswer, Blocks
<1>5. PICK w : w = wire["server"]
    OBVIOUS
<1>6. Listed(w) /\ w # <<>>
    BY <1>1, <1>4, <1>5 DEF StateOK, Sides
<1>7. /\ Read("server", "c2") = SubSeq(w, 1, 1) /\ Rest("server", "c2") = SubSeq(w, 2, Len(w))
    BY <1>4, <1>5 DEF Read, Rest, Blocks
<1>8. SubSeq(w, 1, 1) = << w[1] >> /\ SubSeq(w, 2, Len(w)) = Tail(w)
    BY <1>6, HeadAndTail DEF Listed
<1>9. ClientAnswered # <<>> /\ ClientAnswered = << w[1] >>
    BY <1>3, <1>5, <1>6 DEF AnswerComes
<1>10. /\ stage' = [stage EXCEPT !["server"] = "rtmp"]
       /\ hs' = [hs EXCEPT !["server"]["c2"] = ClientAnswered]
       /\ wire' = [wire EXCEPT !["server"] = Tail(w)]
       /\ make' = make /\ try' = try
    BY <1>7, <1>8, <1>9 DEF ReadC2, Enter, Keep
<1>11. /\ ClientSaid' = ClientSaid /\ ClientHeard' = ClientHeard
       /\ ClientAnswered' = ClientAnswered
       /\ ServerHeard' = ServerHeard /\ ServerSaid' = ServerSaid
       /\ ServerHeardAnswer' = ClientAnswered
       /\ \A s \in Sides : DOMAIN hs'[s] = DOMAIN hs[s]
    BY <1>1, <1>10 DEF StateOK, ClientSaid, ClientHeard, ClientAnswered, ServerHeard, ServerSaid,
                      ServerHeardAnswer, Sides, Blocks
<1>12. /\ wire'["client"] = wire["client"] /\ wire'["server"] = Tail(w)
       /\ stage'["client"] = stage["client"] /\ stage'["server"] = "rtmp"
    BY <1>1, <1>10 DEF StateOK, Sides
<1>13. /\ C0C1' = C0C1 /\ FirstTry("client")' = FirstTry("client")
       /\ HasDigest' = HasDigest /\ S0S1S2(C0C1)' = S0S1S2(C0C1)
       /\ C2(ServerSaid)' = C2(ServerSaid)
    BY <1>10, <1>11, Determined
<1>14. StateOK'
  <2>1. Listed(wire'["client"]) /\ Listed(wire'["server"])
    BY <1>1, <1>6, <1>12, ListedStays DEF StateOK, Sides
  <2> QED BY <1>1, <1>10, <1>11, <1>12, <2>1 DEF StateOK, Sides
<1>15. ClientOK'
    BY <1>1, <1>10, <1>11, <1>12, <1>13 DEF ClientOK
<1>16. ServerOK'
    BY <1>1, <1>3, <1>9, <1>10, <1>11, <1>12, <1>13 DEF ServerOK
<1> QED BY <1>14, <1>15, <1>16 DEF HandshakeInv

----------------------------------------------------------------------------
(* The session behind the handshake. *)

\* A side that is through with its handshake puts a message on the wire or takes one.
Talks(s) ==
    /\ stage[s] = "rtmp"
    /\ \/ \E m : Put(s, << m >>)
       \/ Incoming(s) /\ (Take(s, <<>>) \/ \E m : Take(s, << m >>))

\* What every step but those of the handshake does to its state.
Moves ==
    /\ Same
    /\ wire' = wire \/ \E s \in Sides : Talks(s)
    /\ stage' = stage \/ \E s \in Sides, end \in Ends : Enter(s, end)

LEMMA TalksWire ==
    ASSUME StateOK, NEW s \in Sides, Talks(s)
    PROVE  /\ DOMAIN wire' = Sides
           /\ Listed(wire'[s])
           /\ \/ wire'[Peer(s)] = wire[Peer(s)]
              \/ \E m : wire'[Peer(s)] = wire[Peer(s)] \o << m >>
           /\ Listed(wire'[Peer(s)])
<1>1. Peer(s) \in Sides /\ Peer(s) # s /\ s \in {"client", "server"}
    BY DEF Peer, Sides
<1>2. Listed(wire[s]) /\ Listed(wire[Peer(s)]) /\ DOMAIN wire = Sides
    BY <1>1 DEF StateOK
<1>3. CASE \E m : Put(s, << m >>)
  <2>1. PICK m : wire' = [wire EXCEPT ![Peer(s)] = @ \o << m >>]
    BY <1>3 DEF Put
  <2>2. wire'[s] = wire[s] /\ wire'[Peer(s)] = wire[Peer(s)] \o << m >> /\ DOMAIN wire' = Sides
    BY <1>1, <1>2, <2>1
  <2>3. Listed(<< m >>)
    BY ListedStays
  <2>4. Listed(wire[Peer(s)] \o << m >>)
    BY <1>2, <2>3, ListedStays
  <2> QED BY <1>2, <2>2, <2>4
<1>4. CASE Incoming(s) /\ Take(s, <<>>)
  <2>1. wire' = [p \in Sides |-> IF p = s THEN Tail(wire[p]) ELSE wire[p] \o <<>>]
    BY <1>4 DEF Take
  <2>2. /\ wire'[s] = Tail(wire[s]) /\ wire'[Peer(s)] = wire[Peer(s)] \o <<>>
        /\ DOMAIN wire' = Sides
    BY <1>1, <2>1
  <2>3. wire[Peer(s)] \o <<>> = wire[Peer(s)]
    BY <1>2 DEF Listed
  <2>4. Listed(Tail(wire[s]))
    BY <1>2, <1>4, ListedStays DEF Incoming
  <2> QED BY <1>2, <2>2, <2>3, <2>4
<1>5. CASE Incoming(s) /\ \E m : Take(s, << m >>)
  <2>1. PICK m : wire' = [p \in Sides |-> IF p = s THEN Tail(wire[p]) ELSE wire[p] \o << m >>]
    BY <1>5 DEF Take
  <2>2. /\ wire'[s] = Tail(wire[s]) /\ wire'[Peer(s)] = wire[Peer(s)] \o << m >>
        /\ DOMAIN wire' = Sides
    BY <1>1, <2>1
  <2>3. Listed(Tail(wire[s])) /\ Listed(<< m >>)
    BY <1>2, <1>5, ListedStays DEF Incoming
  <2>4. Listed(wire[Peer(s)] \o << m >>)
    BY <1>2, <2>3, ListedStays
  <2> QED BY <1>2, <2>2, <2>3, <2>4
<1> QED BY <1>3, <1>4, <1>5 DEF Talks

LEMMA MovesInv ==
    ASSUME HandshakeInv, Moves PROVE HandshakeInv'
<1>1. StateOK /\ ClientOK /\ ServerOK
    BY DEF HandshakeInv
<1>2. make' = make /\ try' = try /\ hs' = hs
    BY DEF Moves, Same
<1>3. /\ ClientSaid' = ClientSaid /\ ClientHeard' = ClientHeard
      /\ ClientAnswered' = ClientAnswered
      /\ ServerHeard' = ServerHeard /\ ServerSaid' = ServerSaid
      /\ ServerHeardAnswer' = ServerHeardAnswer
    BY <1>2 DEF ClientSaid, ClientHeard, ClientAnswered, ServerHeard, ServerSaid,
                ServerHeardAnswer
<1>4. /\ DOMAIN stage' = Sides
      /\ \A s \in Sides : stage'[s] = stage[s] \/ stage'[s] \in Ends
  <2>1. CASE stage' = stage
    BY <1>1, <2>1 DEF StateOK
  <2>2. CASE \E s \in Sides, end \in Ends : Enter(s, end)
    <3>1. PICK s \in Sides, end \in Ends : stage' = [stage EXCEPT ![s] = end]
      BY <2>2 DEF Enter
    <3> QED BY <1>1, <3>1 DEF StateOK
  <2> QED BY <2>1, <2>2 DEF Moves
<1>5. stage["client"] \in {"c0c1", "s0s1s2"} => stage["server"] # "rtmp"
    BY <1>1 DEF ClientOK, ServerOK
<1>6. /\ DOMAIN wire' = Sides /\ Listed(wire'["client"]) /\ Listed(wire'["server"])
      /\ \/ stage["client"] = "rtmp" \/ stage["server"] = "rtmp"
         \/ wire'["client"] = wire["client"]
      /\ \/ stage["server"] = "rtmp" \/ wire'["server"] = wire["server"]
         \/ /\ stage["client"] = "rtmp"
            /\ \E m : wire'["server"] = wire["server"] \o << m >>
  <2>1. CASE wire' = wire
    BY <1>1, <2>1 DEF StateOK, Sides
  <2>2. CASE Talks("client")
    <3>1. "client" \in Sides /\ Peer("client") = "server"
      BY DEF Sides, Peer
    <3> QED BY <1>1, <2>2, <3>1, TalksWire DEF Talks
  <2>3. CASE Talks("server")
    <3>1. "server" \in Sides /\ Peer("server") = "client"
      BY DEF Sides, Peer
    <3> QED BY <1>1, <2>3, <3>1, TalksWire DEF Talks
  <2> QED BY <2>1, <2>2, <2>3 DEF Moves, Sides
<1>7. /\ C0C1' = C0C1 /\ FirstTry("client")' = FirstTry("client")
      /\ FirstTry("server")' = FirstTry("server")
      /\ HasDigest' = HasDigest /\ S0S1S2(C0C1)' = S0S1S2(C0C1)
      /\ C2(ServerSaid)' = C2(ServerSaid)
    BY <1>2, <1>3, Determined
<1>8. StateOK'
    BY <1>1, <1>2, <1>4, <1>6 DEF StateOK, Sides, Ends
<1>9. ClientOK'
  <2>1. /\ stage'["client"] = stage["client"] \/ stage'["client"] \in Ends
    BY <1>4 DEF Sides
  <2>2. stage'["client"] \in {"c0c1", "s0s1s2"} =>
            /\ stage["client"] \in {"c0c1", "s0s1s2"} /\ stage["client"] # "rtmp"
            /\ wire'["client"] = wire["client"]
    BY <1>5, <1>6, <2>1 DEF Ends
  <2> QED BY <1>1, <1>2, <1>3, <1>7, <2>1, <2>2 DEF ClientOK, Ends
<1>10. ServerOK'
  <2>1. stage'["server"] = stage["server"] \/ stage'["server"] \in Ends
    BY <1>4 DEF Sides
  <2>2. stage'["server"] = "c0c1" => stage["server"] = "c0c1" /\ wire'["server"] = wire["server"]
    BY <1>1, <1>6, <2>1 DEF ClientOK, ServerOK, Ends
  <2>3. stage'["server"] = "c2" => stage["server"] = "c2" /\ AnswerComes'
    <3>1. SUFFICES ASSUME stage'["server"] = "c2" PROVE AnswerComes' /\ stage["server"] = "c2"
      OBVIOUS
    <3>2. stage["server"] = "c2" /\ AnswerComes
      BY <1>1, <2>1, <3>1 DEF ServerOK, Ends
    <3>3. CASE wire'["server"] = wire["server"]
      BY <1>3, <3>2, <3>3 DEF AnswerComes
    <3>4. CASE /\ stage["client"] = "rtmp"
               /\ \E m : wire'["server"] = wire["server"] \o << m >>
      <4>1. PICK m : wire'["server"] = wire["server"] \o << m >>
        BY <3>4
      <4>2. ClientAnswered # <<>>
        BY <1>1, <3>4 DEF ClientOK
      <4>3. PICK w : w = wire["server"]
        OBVIOUS
      <4>4. w # <<>> /\ ClientAnswered = << w[1] >> /\ Listed(w)
        BY <1>1, <3>2, <4>2, <4>3 DEF AnswerComes, StateOK, Sides
      <4>5. w \o << m >> # <<>> /\ (w \o << m >>)[1] = w[1]
        BY <4>4 DEF Listed
      <4> QED BY <1>3, <3>2, <4>1, <4>2, <4>3, <4>4, <4>5 DEF AnswerComes
    <3> QED BY <1>6, <3>2, <3>3, <3>4
  <2> QED BY <1>1, <1>2, <1>3, <1>7, <2>1, <2>2, <2>3 DEF ServerOK, Ends
<1> QED BY <1>8, <1>9, <1>10 DEF HandshakeInv

LEMMA ShakeInv ==
    ASSUME HandshakeInv, Shake PROVE HandshakeInv'
<1>1. CASE WriteC0C1
    BY <1>1, WriteC0C1Inv
<1>2. CASE ReadC0C1
    BY <1>2, AnsweredInv, NotAnsweredInv
<1>3. CASE ReadS0S1S2
    BY <1>3, ReadS0S1S2Inv
<1>4. CASE ReadC2
    BY <1>4, ReadC2Inv
<1>5. ASSUME NEW s \in Sides, ReadFails(s) PROVE HandshakeInv'
  <2>1. Moves
    BY <1>5 DEF ReadFails, Moves, Same, Ends
  <2> QED BY <2>1, MovesInv
<1> QED BY <1>1, <1>2, <1>3, <1>4, <1>5 DEF Shake, HandshakeNext

\* A side sends, or takes what has come, only when it is through.
LEMMA StepMoves ==
    ASSUME NEW s \in Sides, Step(s) PROVE Moves
<1>1. CASE SendPacket(s)
  <2>1. stage[s] = "rtmp"
    BY <1>1 DEF SendPacket, Sends, Doing
  <2> QED BY <1>1, <2>1 DEF SendPacket, Moves, Talks
<1>2. CASE ExpectMessage(s)
  <2>1. Talks(s)
    BY <1>2 DEF ExpectMessage, Doing, Talks
  <2>2. stage' = stage \/ Enter(s, "failed")
    BY <1>2 DEF ExpectMessage
  <2> QED BY <1>2, <2>1, <2>2 DEF ExpectMessage, Moves, Ends
<1>3. CASE Lose(s)
    BY <1>3 DEF Lose, Moves, Ends
<1>4. CASE s = "server" /\ IdentifyClient
  <2>1. stage["server"] = "rtmp" /\ Incoming("server")
    BY <1>4 DEF IdentifyClient, Doing
  <2>2. ASSUME NEW m, NEW class, NEW created, IdentifyMessage(m, class, created)
        PROVE  Take("server", <<>>) \/ \E x : Take("server", << x >>)
    BY <2>2 DEF IdentifyMessage
  <2>3. /\ Take("server", <<>>) \/ \E x : Take("server", << x >>)
        /\ stage' = stage \/ Enter("server", "failed")
    BY <1>4, <2>2 DEF IdentifyClient
  <2> QED BY <1>4, <2>1, <2>3 DEF IdentifyClient, Moves, Talks, Ends
<1>5. CASE s = "server" /\ Close
    BY <1>5 DEF Close, Moves, Ends
<1>6. CASE s = "server" /\ ServeMessage
  <2>1. Talks(s)
    BY <1>6 DEF ServeMessage, Doing, Talks
  <2> QED BY <1>6, <2>1 DEF ServeMessage, Moves
<1>7. CASE s = "client" /\ ReadPacket
  <2>1. wire' = wire \/ Talks(s)
    BY <1>7 DEF ReadPacket, Doing, Talks
  <2> QED BY <1>7, <2>1 DEF ReadPacket, Moves
<1> QED BY <1>1, <1>2, <1>3, <1>4, <1>5, <1>6, <1>7 DEF Step

LEMMA HandshakeInvStep ==
    HandshakeInv /\ [Next]_sessionVars => HandshakeInv'
<1> SUFFICES ASSUME HandshakeInv, [Next]_sessionVars PROVE HandshakeInv'
    OBVIOUS
<1>1. CASE Shake
    BY <1>1, ShakeInv
<1>2. CASE WritePacket \/ ServeMedia
  <2>1. PICK s \in Sides : (Doing(s, "write") \/ Doing(s, "serve")) /\ NewMedium(s)
    BY <1>2 DEF WritePacket, ServeMedia, Sides
  <2>2. Moves
    BY <1>2, <2>1 DEF WritePacket, ServeMedia, NewMedium, Doing, Moves, Talks, Sides
  <2> QED BY <2>2, MovesInv
<1>3. CASE EndWrite
  <2>1. Moves
    BY <1>3 DEF EndWrite, Moves
  <2> QED BY <2>1, MovesInv
<1>4. CASE Stay \/ UNCHANGED sessionVars
  <2>1. Moves
    BY <1>4 DEF Stay, Moves, Same, sessionVars, hsVars
  <2> QED BY <2>1, MovesInv
<1>5. ASSUME NEW s \in Sides, Step(s) PROVE HandshakeInv'
    BY <1>5, StepMoves, MovesInv
<1>6. ASSUME NEW s \in Sides, Crash(s) PROVE HandshakeInv'
  <2>1. Moves
    BY <1>6 DEF Crash, Moves, Ends
  <2> QED BY <2>1, MovesInv
<1> QED BY <1>1, <1>2, <1>3, <1>4, <1>5, <1>6 DEF Next

(***************************************************************************)
(* The inductive invariant of the handshake: what each side has written is *)
(* determined by the make and by the handshakes tried, and what is on the  *)
(* wire is what the other has not yet read of it.                          *)
(***************************************************************************)
THEOREM HandshakeInvariant == Spec => []HandshakeInv
    BY HandshakeInvInit, HandshakeInvStep, PTL DEF Spec

----------------------------------------------------------------------------
(* What the parts hold. *)

LEMMA KeysOK == KeyOK(Key) /\ KeyOK(SharedKey(Key))
<1>1. KeySize \in Nat /\ DOMAIN Key = 1..KeySize /\ Key \in Seq(Range(Key)) /\ Len(Key) = KeySize
    BY DigestAssumption DEF Key, Range
<1>2. ASSUME NEW x \in Range(Key) PROVE DOMAIN x = {"key"}
    BY <1>2 DEF Key, Range
<1>3. PICK k : k = SharedKey(Key)
    OBVIOUS
<1>4. k \in Seq(Range(k)) /\ Len(k) = KeySize
    BY <1>3, DigestAssumption DEF SharedKey, Range
<1>5. ASSUME NEW x \in Range(k) PROVE DOMAIN x = {"shared"}
    BY <1>3, <1>5 DEF SharedKey, Range
<1> QED BY <1>1, <1>2, <1>3, <1>4, <1>5 DEF KeyOK

\* The digest of C2 and S2 is behind the bytes it signs.
LEMMA Behind ==
    ASSUME NEW x, NEW h
    PROVE  Last(<< x >> \o << h >>) = h /\ Front(<< x >> \o << h >>) = << x >>
<1>1. PICK T, f, g : T = {x, h} /\ f = << x >> /\ g = << h >>
    OBVIOUS
<1>2. f \in Seq(T) /\ g \in Seq(T) /\ Len(f) = 1 /\ Len(g) = 1
    BY <1>1
<1>3. PICK w : w = f \o g
    OBVIOUS
<1>4. w \in Seq(T) /\ Len(w) = 2 /\ Holds(w, 0, << x >>) /\ Holds(w, 1, << h >>)
  <2>1. /\ f \o g \in Seq(T) /\ Len(f \o g) = Len(f) + Len(g)
        /\ Holds(f \o g, 0, f) /\ Holds(f \o g, Len(f), g)
    BY <1>2, TwoParts
  <2>2. Len(f) + Len(g) = 2
    BY <1>2
  <2> QED BY <2>1, <2>2, <1>1, <1>2, <1>3
<1>5. Last(w) = h
  <2>1. 1 + 1 = 2 /\ w[1 + 1] = h
    BY <1>4, OneTaken
  <2> QED BY <1>4, <2>1 DEF Last
<1>6. Front(w) = << x >>
  <2>1. 0 + Len(f) <= Len(w) /\ Holds(w, 0, f)
    BY <1>1, <1>2, <1>4
  <2>2. SubSeq(w, 0 + 1, 0 + Len(f)) = f
    BY <1>2, <1>4, <2>1, PartTaken
  <2>3. 0 + 1 = 1 /\ 0 + Len(f) = 1 /\ Len(w) - 1 = 1
    BY <1>2, <1>4
  <2> QED BY <1>1, <2>2, <2>3 DEF Front
<1> QED BY <1>1, <1>3, <1>5, <1>6

LEMMA AnswerValid ==
    ASSUME NEW c
    PROVE  S2Valid(S2Created(c), c) /\ C2Valid(C2Created(c), c)
<1>1. S2Created(c) = << "srs" >> \o << Hmac(Hmac("FMS68", c.digest.digest), << "srs" >>) >>
    BY DEF S2Created, Answer2
<1>2. C2Created(c) = << "srs" >> \o << Hmac(Hmac("FP62", c.digest.digest), << "srs" >>) >>
    BY DEF C2Created, Answer2
<1>3. S2Valid(S2Created(c), c)
    BY <1>1, Behind DEF S2Valid
<1>4. C2Valid(C2Created(c), c)
    BY <1>2, Behind DEF C2Valid
<1> QED BY <1>3, <1>4

\* What a client reads that has had a digest in its C1, and what one that has had none.
LEMMA SignedParts ==
    ASSUME HandshakeInv, stage["client"] = "rtmp", C1Schema # "none", make.server_ssl
    PROVE  LET c1 == hs["client"].c0c1[2].bytes
               s1 == Parse(hs["client"].s0s1s2[2].bytes, C1Schema)
               s2 == hs["client"].s0s1s2[3].bytes
           IN  /\ S1Valid(s1) /\ S2Valid(s2, Parse(c1, C1Schema))
               /\ try["client"] = "complex" => C2Valid(hs["client"].c2[1].bytes, s1)
<1>1. make \in Makes /\ ClientOK /\ ServerOK
    BY DEF HandshakeInv, StateOK
<1>2. /\ ClientSaid = C0C1 /\ ClientHeard = ServerSaid /\ ClientAnswered = C2(ServerSaid)
      /\ ServerSaid = S0S1S2(C0C1) /\ try["server"] = IF HasDigest THEN "complex" ELSE "simple"
    BY <1>1 DEF ClientOK, ServerOK
<1>3. C1Schema \in {"schema0", "schema1"} /\ make.offsets \in Nat \X Nat
    BY <1>1, HandshakeAssumption DEF C1Schema, Schemas
<1>4. PICK c1 : c1 = C1Created(C1Schema, Key, make.offsets)
    OBVIOUS
<1>5. C0C1[2].bytes = Dump(c1)
    BY <1>4 DEF C0C1
<1>6. DecodedC1(Dump(c1)) = c1 /\ C1HasDigest(Dump(c1))
    BY <1>3, <1>4, KeysOK, C1Decoded
<1>7. Parse(Dump(c1), C1Schema) = c1 /\ c1.schema = C1Schema /\ c1.key.key = Key
    BY <1>3, <1>4, KeysOK, C1Recovered
<1>8. try["server"] = "complex"
    BY <1>2, <1>5, <1>6 DEF HasDigest
<1>9. PICK s1 : s1 = S1Created(c1, ServerOffsets)
    OBVIOUS
<1>10. ServerSaid[2].bytes = Dump(s1) /\ ServerSaid[3].bytes = S2Created(c1)
    BY <1>2, <1>5, <1>6, <1>8, <1>9 DEF S0S1S2
<1>11. Parse(Dump(s1), C1Schema) = s1 /\ S1Valid(s1)
  <2>1. ServerOffsets \in Nat \X Nat
    BY HandshakeAssumption
  <2> QED BY <1>3, <1>7, <1>9, <2>1, KeysOK, S1Recovered
<1>12. ASSUME try["client"] = "complex"
       PROVE  ClientAnswered[1].bytes = C2Created(s1)
  <2>1. C1Schema = "schema1"
    BY <1>12 DEF C1Schema
  <2> QED BY <1>2, <1>10, <1>11, <1>12, <2>1 DEF C2
<1>13. /\ hs["client"].c0c1[2].bytes = Dump(c1)
       /\ hs["client"].s0s1s2[2].bytes = Dump(s1)
       /\ hs["client"].s0s1s2[3].bytes = S2Created(c1)
    BY <1>2, <1>5, <1>10 DEF ClientSaid, ClientHeard
<1>14. try["client"] = "complex" => hs["client"].c2[1].bytes = C2Created(s1)
    BY <1>12 DEF ClientAnswered
<1>15. S2Valid(S2Created(c1), c1) /\ C2Valid(C2Created(s1), s1)
    BY AnswerValid
<1> QED BY <1>7, <1>11, <1>13, <1>14, <1>15

LEMMA CopiedPart ==
    ASSUME HandshakeInv, stage["client"] = "rtmp", C1Schema = "none" \/ ~make.server_ssl
    PROVE  hs["client"].s0s1s2[3].bytes = hs["client"].c0c1[2].bytes
<1>1. ClientOK /\ ServerOK
    BY DEF HandshakeInv
<1>2. /\ ClientSaid = C0C1 /\ ClientHeard = ServerSaid
      /\ ServerSaid = S0S1S2(C0C1) /\ try["server"] = IF HasDigest THEN "complex" ELSE "simple"
    BY <1>1 DEF ClientOK, ServerOK
<1>3. ~HasDigest
  <2>1. CASE C1Schema = "none"
    <3>1. C0C1[2].bytes = Filled("c1")
      BY <2>1 DEF C0C1
    <3> QED BY <3>1, NoDigestInRandom DEF HasDigest
  <2>2. CASE ~make.server_ssl
    BY <2>2 DEF HasDigest
  <2> QED BY <2>1, <2>2
<1>4. ServerSaid[3].bytes = C0C1[2].bytes
    BY <1>2, <1>3 DEF S0S1S2
<1> QED BY <1>2, <1>4 DEF ClientSaid, ClientHeard

LEMMA PartsArrive ==
    ASSUME HandshakeInv, NEW part \in DOMAIN Blocks,
           NEW reader, reader = IF part = "s0s1s2" THEN "client" ELSE "server",
           stage[reader] = "rtmp"
    PROVE  hs[reader][part] = hs[Peer(reader)][part]
<1>1. ClientOK /\ ServerOK
    BY DEF HandshakeInv
<1>2. part \in {"c0c1", "s0s1s2", "c2"}
    BY DEF Blocks
<1>3. CASE part = "s0s1s2"
    BY <1>1, <1>3 DEF ClientOK, Peer, ClientHeard, ServerSaid
<1>4. CASE part = "c0c1"
    BY <1>1, <1>4 DEF ServerOK, Peer, ServerHeard, ClientSaid
<1>5. CASE part = "c2"
    BY <1>1, <1>5 DEF ServerOK, Peer, ServerHeardAnswer, ClientAnswered
<1> QED BY <1>2, <1>3, <1>4, <1>5

(***************************************************************************)
(* For every make of client, every size of the blocks and of a key and     *)
(* every offset: each side gets the parts the other wrote, entire and      *)
(* once; where C1 has a digest and the server can check it, S1, S2 and C2  *)
(* are those a peer that verifies would look for, and otherwise S2 is C1   *)
(* (SrsSimpleHandshake, SrsComplexHandshake, c1s1 and c2s2).               *)
(***************************************************************************)
THEOREM HandshakesAgree == Spec => []HandshakeAgrees
<1>1. HandshakeInv => HandshakeAgrees
    BY PartsArrive, SignedParts, CopiedPart DEF HandshakeAgrees
<1> QED BY <1>1, HandshakeInvariant, PTL

----------------------------------------------------------------------------
(* Induction, by the least set of its kind that would be left out. *)

LEMMA Counting ==
    ASSUME NEW S, 0 \in S, \A n \in Nat : n \in S => n + 1 \in S
    PROVE  Nat \subseteq S
<1> SUFFICES ASSUME NEW k \in Nat, k \notin S PROVE FALSE
    OBVIOUS
<1> DEFINE T == {1..n : n \in Nat \ S}
<1>1. IsWellFoundedOn(StrictSubsetOrdering(Nat), FiniteSubsetsOf(Nat))
    BY FS_StrictSubsetOrderingWellFounded
<1>2. T \subseteq FiniteSubsetsOf(Nat) /\ T # {}
  <2>1. ASSUME NEW n \in Nat PROVE IsFiniteSet(1..n) /\ 1..n \subseteq Nat
    BY FS_Interval
  <2> QED BY <2>1 DEF FiniteSubsetsOf
<1>3. PICK x \in T : \A y \in T : ~ (<< y, x >> \in StrictSubsetOrdering(Nat))
  <2> HIDE DEF T
  <2> QED BY <1>1, <1>2, WFMin
<1>4. PICK n \in Nat \ S : x = 1..n
    BY <1>3
<1>5. n - 1 \in Nat \ S
  <2>1. n # 0
    BY <1>4
  <2>2. n - 1 \in Nat /\ (n - 1) + 1 = n
    BY <1>4, <2>1
  <2> QED BY <1>4, <2>2
<1>6. << 1..(n - 1), 1..n >> \in StrictSubsetOrdering(Nat)
  <2>1. 1..(n - 1) \subseteq 1..n /\ n \in 1..n /\ n \notin 1..(n - 1) /\ 1..n \subseteq Nat
    BY <1>5
  <2> QED BY <2>1 DEF StrictSubsetOrdering
<1>7. 1..(n - 1) \in T
    BY <1>5
<1> QED BY <1>3, <1>4, <1>6, <1>7

----------------------------------------------------------------------------
(* What the server comes to wait for, along a script. *)

NextMode(m, mode, i) ==
    IF Says(m.script[i]) THEN Heard(m, mode, m.script[i].m) ELSE mode
FollowsTo(m, n, f) ==
    f = [i \in 0..n |-> IF i = 0 THEN "ConnectApp" ELSE NextMode(m, f[i - 1], i)]

LEMMA ScriptFollowed ==
    ASSUME NEW m, NEW n \in Nat PROVE \E f : FollowsTo(m, n, f)
<1> DEFINE S == {k \in Nat : \E f : FollowsTo(m, k, f)}
<1>1. 0 \in S
  <2>1. FollowsTo(m, 0, [i \in 0..0 |-> "ConnectApp"])
    BY DEF FollowsTo
  <2> QED BY <2>1
<1>2. ASSUME NEW k \in Nat, k \in S PROVE k + 1 \in S
  <2>1. PICK f : FollowsTo(m, k, f)
    BY <1>2
  <2>2. PICK g : g = [i \in 0..(k + 1) |-> IF i = k + 1 THEN NextMode(m, f[k], k + 1) ELSE f[i]]
    OBVIOUS
  <2>3. ASSUME NEW i \in 0..(k + 1)
        PROVE  g[i] = IF i = 0 THEN "ConnectApp" ELSE NextMode(m, g[i - 1], i)
    <3>1. CASE i = k + 1
      <4>1. g[i] = NextMode(m, f[k], k + 1) /\ g[k] = f[k] /\ i - 1 = k /\ i # 0
        BY <2>2, <3>1
      <4> QED BY <3>1, <4>1
    <3>2. CASE i # k + 1
      <4>1. i \in 0..k /\ g[i] = f[i]
        BY <2>2, <3>2
      <4>2. f[i] = IF i = 0 THEN "ConnectApp" ELSE NextMode(m, f[i - 1], i)
        BY <2>1, <4>1 DEF FollowsTo
      <4>3. i # 0 => g[i - 1] = f[i - 1]
        BY <2>2, <4>1
      <4> QED BY <4>1, <4>2, <4>3
    <3> QED BY <3>1, <3>2
  <2>4. FollowsTo(m, k + 1, g)
    BY <2>2, <2>3 DEF FollowsTo
  <2> QED BY <2>4
<1>3. Nat \subseteq S
  <2> HIDE DEF S
  <2> QED BY <1>1, <1>2, Counting
<1> QED BY <1>3

LEMMA ReachedIs ==
    ASSUME NEW m, Len(m.script) \in Nat
    PROVE  /\ Reached(m)[0] = "ConnectApp"
           /\ \A i \in 1..Len(m.script) :
                 Reached(m)[i] = NextMode(m, Reached(m)[i - 1], i)
<1> DEFINE P(f) == FollowsTo(m, Len(m.script), f)
<1>1. Reached(m) = CHOOSE f : P(f)
    BY DEF Reached, FollowsTo, NextMode
<1>2. P(Reached(m))
  <2>1. \E f : P(f)
    BY ScriptFollowed
  <2> HIDE DEF P
  <2> QED BY <1>1, <2>1
<1>3. PICK r : r = Reached(m)
    OBVIOUS
<1>4. r = [i \in 0..Len(m.script) |-> IF i = 0 THEN "ConnectApp" ELSE NextMode(m, r[i - 1], i)]
    BY <1>2, <1>3 DEF FollowsTo
<1> QED BY <1>3, <1>4

LEMMA HeardIsMode ==
    ASSUME NEW m, NEW mode \in Modes, NEW c PROVE Heard(m, mode, c) \in Modes
    BY DEF Heard, Modes, Admitted

LEMMA ReachedMode ==
    ASSUME NEW m, Len(m.script) \in Nat, NEW i \in 0..Len(m.script)
    PROVE  Reached(m)[i] \in Modes
<1> DEFINE S == {k \in Nat : k <= Len(m.script) => Reached(m)[k] \in Modes}
<1>1. 0 \in S
    BY ReachedIs DEF Modes
<1>2. ASSUME NEW k \in Nat, k \in S PROVE k + 1 \in S
  <2> SUFFICES ASSUME k + 1 <= Len(m.script) PROVE Reached(m)[k + 1] \in Modes
    OBVIOUS
  <2>1. Reached(m)[k] \in Modes
    BY <1>2
  <2>2. k + 1 \in 1..Len(m.script) /\ (k + 1) - 1 = k
    OBVIOUS
  <2>3. Reached(m)[k + 1] = NextMode(m, Reached(m)[k], k + 1)
    BY <2>2, ReachedIs
  <2> QED BY <2>1, <2>3, HeardIsMode DEF NextMode
<1>3. Nat \subseteq S
  <2> HIDE DEF S
  <2> QED BY <1>1, <1>2, Counting
<1> QED BY <1>3

----------------------------------------------------------------------------
(* Sequences taken from the front and put to at the end. *)

LEMMA Joined ==
    ASSUME NEW a, NEW b, Listed(a), Listed(b)
    PROVE  /\ Listed(a \o b) /\ Len(a \o b) = Len(a) + Len(b)
           /\ Len(a) \in Nat /\ Len(b) \in Nat
           /\ a # <<>> => a \o b # <<>> /\ Head(a \o b) = a[1] /\ Tail(a \o b) = Tail(a) \o b
           /\ <<>> \o b = b /\ a \o <<>> = a
           /\ \A i \in 1..Len(a) : (a \o b)[i] = a[i]
           /\ \A i \in 1..Len(b) : (a \o b)[Len(a) + i] = b[i]
<1>1. PICK T : T = Range(a) \cup Range(b)
    OBVIOUS
<1>2. a \in Seq(T) /\ b \in Seq(T)
    BY <1>1 DEF Listed
<1>3. Listed(a \o b)
    BY ListedStays
<1>4. ASSUME a # <<>> PROVE a \o b # <<>> /\ Head(a \o b) = a[1] /\ Tail(a \o b) = Tail(a) \o b
  <2>1. a \o b # <<>> /\ Head(a \o b) = a[1]
    BY <1>2, <1>4
  <2>2. PICK u : u = Tail(a \o b)
    OBVIOUS
  <2>3. PICK v : v = Tail(a) \o b
    OBVIOUS
  <2>4. a \o b \in Seq(T) /\ Tail(a) \in Seq(T) /\ Len(Tail(a)) = Len(a) - 1 /\ Len(a) \in Nat
    BY <1>2, <1>4
  <2>5. u \in Seq(T) /\ Len(u) = Len(a) + Len(b) - 1
        /\ \A i \in 1..Len(u) : u[i] = (a \o b)[i + 1]
    BY <1>2, <2>1, <2>2, <2>4, HeadTailProperties, ConcatProperties
  <2>6. v \in Seq(T) /\ Len(v) = Len(a) + Len(b) - 1
        /\ \A i \in 1..Len(v) : v[i] = (a \o b)[i + 1]
    <3>1. v \in Seq(T) /\ Len(v) = Len(a) + Len(b) - 1
      BY <1>2, <2>3, <2>4, ConcatProperties
    <3>2. ASSUME NEW i \in 1..Len(v) PROVE v[i] = (a \o b)[i + 1]
      <4>1. CASE i <= Len(a) - 1
        <5>1. v[i] = Tail(a)[i] /\ Tail(a)[i] = a[i + 1]
          BY <1>2, <1>4, <2>3, <2>4, <4>1, HeadTailProperties
        <5>2. (a \o b)[i + 1] = a[i + 1]
          BY <1>2, <2>4, <4>1
        <5> QED BY <5>1, <5>2
      <4>2. CASE i > Len(a) - 1
        <5>1. i - (Len(a) - 1) \in 1..Len(b) /\ (i + 1) - Len(a) = i - (Len(a) - 1)
          BY <1>2, <2>4, <3>1, <4>2
        <5>2. v[i] = b[i - (Len(a) - 1)]
          BY <1>2, <2>3, <2>4, <3>1, <4>2, ConcatProperties
        <5>3. (a \o b)[i + 1] = b[(i + 1) - Len(a)]
          BY <1>2, <2>4, <3>1, <4>2, ConcatProperties
        <5> QED BY <5>1, <5>2, <5>3
      <4> QED BY <2>4, <3>1, <4>1, <4>2
    <3> QED BY <3>1, <3>2
  <2>7. u = v
    BY <2>5, <2>6, SeqEqual
  <2> QED BY <2>1, <2>2, <2>3, <2>7
<1>5. Len(a \o b) = Len(a) + Len(b) /\ Len(a) \in Nat /\ Len(b) \in Nat
    BY <1>2
<1>6. <<>> \o b = b /\ a \o <<>> = a
    BY <1>2
<1>7. /\ \A i \in 1..Len(a) : (a \o b)[i] = a[i]
      /\ \A i \in 1..Len(b) : (a \o b)[Len(a) + i] = b[i]
    BY <1>2
<1> QED BY <1>3, <1>4, <1>5, <1>6, <1>7

LEMMA JoinedTwice ==
    ASSUME NEW a, NEW b, NEW c, Listed(a), Listed(b), Listed(c)
    PROVE  (a \o b) \o c = a \o (b \o c)
<1>1. PICK T : T = Range(a) \cup Range(b) \cup Range(c)
    OBVIOUS
<1>2. a \in Seq(T) /\ b \in Seq(T) /\ c \in Seq(T)
    BY <1>1 DEF Listed
<1> QED BY <1>2, ConcatAssociative

LEMMA FrontTaken ==
    ASSUME NEW w, Listed(w), w # <<>>
    PROVE  /\ Listed(Tail(w)) /\ Len(w) \in Nat \ {0} /\ Len(Tail(w)) = Len(w) - 1
           /\ Head(w) = w[1]
           /\ \A i \in 1..Len(Tail(w)) : Tail(w)[i] = w[i + 1]
<1>1. PICK T : T = Range(w)
    OBVIOUS
<1>2. w \in Seq(T)
    BY <1>1 DEF Listed
<1>3. Listed(Tail(w))
    BY ListedStays
<1>4. Len(w) \in Nat \ {0} /\ Head(w) = w[1]
    BY <1>2
<1>5. Len(Tail(w)) = Len(w) - 1 /\ \A i \in 1..Len(Tail(w)) : Tail(w)[i] = w[i + 1]
    BY <1>2, HeadTailProperties
<1> QED BY <1>3, <1>4, <1>5

LEMMA EndPut ==
    ASSUME NEW w, Listed(w), NEW x
    PROVE  /\ Listed(w \o << x >>) /\ Len(w) \in Nat /\ Len(w \o << x >>) = Len(w) + 1
           /\ (w \o << x >>)[Len(w) + 1] = x
           /\ \A i \in 1..Len(w) : (w \o << x >>)[i] = w[i]
           /\ Append(w, x) = w \o << x >>
<1>1. PICK T : T = Range(w) \cup {x}
    OBVIOUS
<1>2. w \in Seq(T) /\ x \in T
    BY <1>1 DEF Listed
<1>3. Listed(w \o << x >>)
    BY ListedStays
<1>4. /\ Len(w) \in Nat /\ Len(w \o << x >>) = Len(w) + 1 /\ (w \o << x >>)[Len(w) + 1] = x
      /\ \A i \in 1..Len(w) : (w \o << x >>)[i] = w[i]
    BY <1>2
<1>5. Append(w, x) = w \o << x >>
    BY <1>2, AppendIsConcat
<1> QED BY <1>3, <1>4, <1>5

----------------------------------------------------------------------------
(* Chains: what the server comes to wait for along what is on its way. *)

Hears(m, a, x, b) ==
    /\ b = Heard(m, a, x) /\ x.name # "_result" /\ Takes(m, a, x)
    /\ IsMedia(x) => m.means # "Play" /\ a \in {"record", "refuse"}
    /\ ~IsMedia(x) => ClientPacket(m, x)

Chain(m, M, w) ==
    /\ M \in Seq(Modes) /\ Len(M) = Len(w) + 1
    /\ \A i \in 1..Len(w) : Hears(m, M[i], w[i], M[i + 1])
    /\ \A i \in 1..Len(M) : M[i] = "serve" => M[Len(M)] = "serve"
Chained(m, a, w, b) == \E M : Chain(m, M, w) /\ M[1] = a /\ M[Len(M)] = b

LEMMA ChainEmpty ==
    ASSUME NEW m, NEW a \in Modes PROVE Chained(m, a, <<>>, a)
<1>1. PICK M : M = << a >>
    OBVIOUS
<1>2. M \in Seq(Modes) /\ Len(M) = 1 /\ M[1] = a
    BY <1>1
<1>3. Chain(m, M, <<>>)
    BY <1>2 DEF Chain
<1> QED BY <1>2, <1>3 DEF Chained

LEMMA ChainTaken ==
    ASSUME NEW m, NEW a, NEW w, NEW b, Listed(w), w # <<>>, Chained(m, a, w, b)
    PROVE  \E c \in Modes : Hears(m, a, Head(w), c) /\ Chained(m, c, Tail(w), b)
<1>1. PICK M : Chain(m, M, w) /\ M[1] = a /\ M[Len(M)] = b
    BY DEF Chained
<1>2. PICK n : n = Len(w)
    OBVIOUS
<1>3. PICK v : v = Tail(w)
    OBVIOUS
<1>4. /\ n \in Nat \ {0} /\ Len(v) = n - 1 /\ Head(w) = w[1]
      /\ \A i \in 1..(n - 1) : v[i] = w[i + 1]
    BY <1>2, <1>3, FrontTaken
<1>5. PICK N : N = Tail(M)
    OBVIOUS
<1>6. /\ M \in Seq(Modes) /\ Len(M) = n + 1
      /\ \A i \in 1..n : Hears(m, M[i], w[i], M[i + 1])
      /\ \A i \in 1..(n + 1) : M[i] = "serve" => b = "serve"
    BY <1>1, <1>2 DEF Chain
<1>7. /\ N \in Seq(Modes) /\ Len(N) = n /\ \A i \in 1..n : N[i] = M[i + 1]
  <2>1. M # <<>>
    BY <1>4, <1>6
  <2>2. N \in Seq(Modes) /\ Len(N) = Len(M) - 1 /\ \A i \in 1..Len(N) : N[i] = M[i + 1]
    BY <1>5, <1>6, <2>1, HeadTailProperties
  <2> QED BY <1>4, <1>6, <2>2
<1>8. N[n] = b /\ N[1] = M[2] /\ M[2] \in Modes
    BY <1>1, <1>4, <1>6, <1>7
<1>9. Chain(m, N, v)
  <2>1. ASSUME NEW i \in 1..(n - 1) PROVE Hears(m, N[i], v[i], N[i + 1])
    <3>1. i \in 1..n /\ i + 1 \in 1..n
      BY <1>4
    <3>2. N[i] = M[i + 1] /\ v[i] = w[i + 1] /\ N[i + 1] = M[i + 1 + 1]
      BY <1>4, <1>7, <3>1
    <3> QED BY <1>6, <3>1, <3>2
  <2>2. ASSUME NEW i \in 1..n, N[i] = "serve" PROVE b = "serve"
    <3>1. i + 1 \in 1..(n + 1) /\ M[i + 1] = "serve"
      BY <1>4, <1>7, <2>2
    <3> QED BY <1>6, <3>1
  <2> QED BY <1>4, <1>7, <1>8, <2>1, <2>2 DEF Chain
<1>10. Hears(m, a, Head(w), M[2])
    BY <1>1, <1>4, <1>6
<1> QED BY <1>3, <1>7, <1>8, <1>9, <1>10 DEF Chained

LEMMA ChainSaid ==
    ASSUME NEW m, NEW a, NEW w, NEW b, NEW x, NEW c \in Modes, Listed(w),
           Chained(m, a, w, b), Hears(m, b, x, c), b = "serve" => c = "serve"
    PROVE  Chained(m, a, w \o << x >>, c)
<1>1. PICK M : Chain(m, M, w) /\ M[1] = a /\ M[Len(M)] = b
    BY DEF Chained
<1>2. PICK n : n = Len(w)
    OBVIOUS
<1>3. PICK v : v = w \o << x >>
    OBVIOUS
<1>4. n \in Nat /\ Len(v) = n + 1 /\ v[n + 1] = x /\ \A i \in 1..n : v[i] = w[i]
    BY <1>2, <1>3, EndPut
<1>5. PICK N : N = Append(M, c)
    OBVIOUS
<1>6. /\ M \in Seq(Modes) /\ Len(M) = n + 1 /\ M[n + 1] = b
      /\ \A i \in 1..n : Hears(m, M[i], w[i], M[i + 1])
      /\ \A i \in 1..(n + 1) : M[i] = "serve" => b = "serve"
    BY <1>1, <1>2 DEF Chain
<1>7. /\ N \in Seq(Modes) /\ Len(N) = n + 2 /\ N[n + 2] = c
      /\ \A i \in 1..(n + 1) : N[i] = M[i]
    BY <1>4, <1>5, <1>6
<1>8. Chain(m, N, v)
  <2>1. ASSUME NEW i \in 1..(n + 1) PROVE Hears(m, N[i], v[i], N[i + 1])
    <3>1. CASE i = n + 1
      <4>1. N[i] = b /\ v[i] = x /\ N[i + 1] = c
        BY <1>4, <1>6, <1>7, <3>1
      <4> QED BY <4>1
    <3>2. CASE i # n + 1
      <4>1. i \in 1..n /\ i + 1 \in 1..(n + 1)
        BY <1>4, <3>2
      <4>2. N[i] = M[i] /\ v[i] = w[i] /\ N[i + 1] = M[i + 1]
        BY <1>4, <1>7, <4>1
      <4> QED BY <1>6, <4>1, <4>2
    <3> QED BY <3>1, <3>2
  <2>2. ASSUME NEW i \in 1..(n + 2), N[i] = "serve" PROVE c = "serve"
    <3>1. CASE i = n + 2
      BY <1>7, <2>2, <3>1
    <3>2. CASE i # n + 2
      <4>1. i \in 1..(n + 1)
        BY <1>4, <3>2
      <4> QED BY <1>6, <1>7, <2>2, <4>1
    <3> QED BY <3>1, <3>2
  <2> QED BY <1>4, <1>7, <2>1, <2>2 DEF Chain
<1>9. N[1] = a /\ N[Len(N)] = c
    BY <1>1, <1>4, <1>7
<1> QED BY <1>3, <1>8, <1>9 DEF Chained

\* A client that is served stays so.
LEMMA ChainServe ==
    ASSUME NEW m, NEW w, NEW b, Listed(w), Chained(m, "serve", w, b) PROVE b = "serve"
<1>1. PICK M : Chain(m, M, w) /\ M[1] = "serve" /\ M[Len(M)] = b
    BY DEF Chained
<1>2. PICK n : n = Len(w)
    OBVIOUS
<1>3. n \in Nat /\ Len(M) = n + 1
    BY <1>1, <1>2, EndPut DEF Chain
<1>4. 1 \in 1..Len(M)
    BY <1>3
<1> QED BY <1>1, <1>4 DEF Chain

----------------------------------------------------------------------------
(* What the server has still to do. *)

Right(reqs, t, value) == t \in DOMAIN reqs /\ AnswerTo[reqs[t]].value = value

SendingCalls == {"send", "send on", "answer"}
Fit(m, reqs, t, call) ==
    \/ /\ Says(call) /\ DOMAIN call.m = DOMAIN Blank /\ ~IsMedia(call.m)
       /\ call.m.name = "_result" =>
             call.m.value # "number" /\ (m.own => Right(reqs, call.m.tid, call.m.value))
    \/ call.do = "answer" /\ (m.own => Right(reqs, t, call.value))
CheckCall(call) ==
    \/ call.do = "expect"
    \/ call.do = "send" /\ DOMAIN call.m = DOMAIN Blank /\ ~IsMedia(call.m) /\ call.m.name # "_result"

Recording == << SendOn(Command("onFCPublish", 0)), SendOn(Command("onStatus", 0)), Loop("record") >>
Ahead(app, mode) ==
    CASE mode = "ConnectApp" -> app
      [] mode = "identify" -> << Identify >>
      [] mode = "created" -> << Loop("identify created") >>
      [] mode = "FMLEStart" -> << Expect("FMLEStart"), Answer("undefined"), Expect("CreateStream"),
                                  Answer("number"), Expect("Publish") >> \o Recording
      [] mode = "CreateStream" -> << Expect("CreateStream"), Answer("number"), Expect("Publish") >>
                                  \o Recording
      [] mode = "Publish" -> << Expect("Publish") >> \o Recording
      [] mode = "record" -> << Loop("record") >>
      [] mode = "serve" -> << Loop("serve") >>
      [] mode = "refuse" -> << Loop("close") >>
Remains(app, mode, rest) ==
    /\ Listed(rest)
    /\ IF mode = "check" THEN \A i \in 1..Len(rest) : CheckCall(rest[i]) ELSE rest = Ahead(app, mode)
Waits(m, reqs, t, app, mode, calls) ==
    \E pre, rest : /\ Listed(pre) /\ calls = pre \o rest /\ Remains(app, mode, rest)
                   /\ \A i \in 1..Len(pre) : Fit(m, reqs, t, pre[i])

\* What a call is when nothing is to be sent before it.
Stops(mode, call) ==
    CASE mode \in {"ConnectApp", "FMLEStart", "CreateStream", "Publish"} ->
            call.do = "expect" /\ call.class = mode
      [] mode = "identify" -> call.do = "identify"
      [] mode = "created" -> call.do = "identify created"
      [] mode = "refuse" -> call.do = "close"
      [] mode = "record" -> call.do = "record"
      [] mode = "serve" -> call.do = "serve"
      [] mode = "check" -> call.do = "expect"

LEMMA AheadStops ==
    ASSUME NEW app, Listed(app), app # <<>>, Stops("ConnectApp", app[1]), NEW mode \in Modes \ {"check"}
    PROVE  LET rest == Ahead(app, mode) IN rest # <<>> /\ rest[1].do \notin SendingCalls /\ Stops(mode, rest[1])
<1> SUFFICES ASSUME NEW rest, rest = Ahead(app, mode)
             PROVE  rest # <<>> /\ rest[1].do \notin SendingCalls /\ Stops(mode, rest[1])
    OBVIOUS
<1>1. CASE mode = "ConnectApp"
    BY <1>1 DEF Ahead, Stops, SendingCalls
<1>2. CASE mode \in {"identify", "created", "refuse", "record", "serve"}
    BY <1>2 DEF Ahead, Stops, SendingCalls, Loop, Identify
<1>3. CASE mode \in {"FMLEStart", "CreateStream", "Publish"}
  <2>1. PICK a, b : /\ rest = a \o b /\ Listed(a) /\ Listed(b) /\ a # <<>>
                    /\ a[1] = Expect(mode)
    <3>1. Listed(Recording)
      <4>1. Recording \in Seq(Range(Recording))
        BY DEF Recording, Range
      <4> QED BY <4>1 DEF Listed
    <3>2. CASE mode = "FMLEStart"
      <4>1. PICK a : a = << Expect("FMLEStart"), Answer("undefined"), Expect("CreateStream"),
                            Answer("number"), Expect("Publish") >>
        OBVIOUS
      <4>2. a \in Seq(Range(a)) /\ a # <<>> /\ a[1] = Expect(mode)
        BY <3>2, <4>1 DEF Range
      <4>3. rest = a \o Recording
        BY <3>2, <4>1 DEF Ahead
      <4> QED BY <3>1, <4>2, <4>3 DEF Listed
    <3>3. CASE mode = "CreateStream"
      <4>1. PICK a : a = << Expect("CreateStream"), Answer("number"), Expect("Publish") >>
        OBVIOUS
      <4>2. a \in Seq(Range(a)) /\ a # <<>> /\ a[1] = Expect(mode)
        BY <3>3, <4>1 DEF Range
      <4>3. rest = a \o Recording
        BY <3>3, <4>1 DEF Ahead
      <4> QED BY <3>1, <4>2, <4>3 DEF Listed
    <3>4. CASE mode = "Publish"
      <4>1. PICK a : a = << Expect("Publish") >>
        OBVIOUS
      <4>2. a \in Seq(Range(a)) /\ a # <<>> /\ a[1] = Expect(mode)
        BY <3>4, <4>1 DEF Range
      <4>3. rest = a \o Recording
        BY <3>4, <4>1 DEF Ahead
      <4> QED BY <3>1, <4>2, <4>3 DEF Listed
    <3> QED BY <1>3, <3>2, <3>3, <3>4
  <2>2. rest # <<>> /\ Head(rest) = a[1]
    BY <2>1, Joined
  <2>3. rest[1] = a[1]
    <3>1. Listed(rest)
      BY <2>1, Joined
    <3> QED BY <2>2, <3>1, FrontTaken
  <2>4. Expect(mode).do = "expect" /\ Expect(mode).class = mode
    BY DEF Expect
  <2>5. rest # <<>> /\ rest[1].do = "expect" /\ rest[1].class = mode
    BY <2>1, <2>2, <2>3, <2>4
  <2>6. Stops(mode, rest[1])
    BY <1>3, <2>5 DEF Stops
  <2> QED BY <2>5, <2>6 DEF SendingCalls
<1> QED BY <1>1, <1>2, <1>3 DEF Modes

LEMMA WaitsPops ==
    ASSUME NEW m, NEW reqs, NEW t, NEW app, NEW mode \in Modes, NEW calls,
           Listed(app), app # <<>>, Stops("ConnectApp", app[1]),
           Waits(m, reqs, t, app, mode, calls), calls # <<>>, Head(calls).do \in SendingCalls
    PROVE  Fit(m, reqs, t, Head(calls)) /\ Waits(m, reqs, t, app, mode, Tail(calls))
<1>1. PICK pre, rest : /\ Listed(pre) /\ calls = pre \o rest /\ Remains(app, mode, rest)
                       /\ \A i \in 1..Len(pre) : Fit(m, reqs, t, pre[i])
    BY DEF Waits
<1>2. Listed(rest)
    BY <1>1 DEF Remains
<1>3. CASE pre # <<>>
  <2>1. Head(calls) = pre[1] /\ Tail(calls) = Tail(pre) \o rest /\ Len(pre) \in Nat
    BY <1>1, <1>2, <1>3, Joined
  <2>2. Len(pre) \in Nat \ {0} /\ Listed(Tail(pre)) /\ Len(Tail(pre)) = Len(pre) - 1
        /\ \A i \in 1..Len(Tail(pre)) : Tail(pre)[i] = pre[i + 1]
    BY <1>1, <1>3, FrontTaken
  <2>3. ASSUME NEW i \in 1..Len(Tail(pre)) PROVE Fit(m, reqs, t, Tail(pre)[i])
    <3>1. i + 1 \in 1..Len(pre)
      BY <2>2
    <3> QED BY <1>1, <2>2, <3>1
  <2>4. Fit(m, reqs, t, pre[1])
    BY <1>1, <2>2
  <2> QED BY <1>1, <2>1, <2>2, <2>3, <2>4 DEF Waits
<1>4. CASE pre = <<>>
  <2>1. calls = rest
    BY <1>1, <1>2, <1>4, Joined
  <2>2. rest # <<>> /\ Head(rest) = rest[1] /\ Len(rest) \in Nat \ {0} /\ Listed(Tail(rest))
        /\ Len(Tail(rest)) = Len(rest) - 1
        /\ \A i \in 1..Len(Tail(rest)) : Tail(rest)[i] = rest[i + 1]
    BY <1>2, <2>1, FrontTaken
  <2>3. mode = "check"
    BY <1>1, <2>1, <2>2, AheadStops DEF Remains
  <2>4. CheckCall(rest[1])
    BY <1>1, <2>2, <2>3 DEF Remains
  <2>5. ASSUME NEW i \in 1..Len(Tail(rest)) PROVE CheckCall(Tail(rest)[i])
    <3>1. i + 1 \in 1..Len(rest)
      BY <2>2
    <3> QED BY <1>1, <2>2, <2>3, <3>1 DEF Remains
  <2>6. Remains(app, mode, Tail(rest))
    BY <2>2, <2>3, <2>5 DEF Remains
  <2>7. PICK none : none = <<>>
    OBVIOUS
  <2>8. /\ Tail(calls) = none \o Tail(rest) /\ Listed(none)
        /\ \A i \in 1..Len(none) : Fit(m, reqs, t, none[i])
    <3>1. Listed(none) /\ Tail(calls) = none \o Tail(rest)
      BY <2>1, <2>2, <2>7, Joined, ListedStays
    <3>2. 1..Len(none) = {}
      BY <2>7
    <3> QED BY <3>1, <3>2
  <2>9. Waits(m, reqs, t, app, mode, Tail(calls))
    BY <2>6, <2>8 DEF Waits
  <2>10. Fit(m, reqs, t, Head(calls))
    BY <2>1, <2>2, <2>4 DEF CheckCall, Fit, SendingCalls, Says
  <2> QED BY <2>9, <2>10
<1> QED BY <1>3, <1>4

LEMMA WaitsStops ==
    ASSUME NEW m, NEW reqs, NEW t, NEW app, NEW mode \in Modes, NEW calls,
           Waits(m, reqs, t, app, mode, calls), calls # <<>>, Head(calls).do \notin SendingCalls
    PROVE  Remains(app, mode, calls)
<1>1. PICK pre, rest : /\ Listed(pre) /\ calls = pre \o rest /\ Remains(app, mode, rest)
                       /\ \A i \in 1..Len(pre) : Fit(m, reqs, t, pre[i])
    BY DEF Waits
<1>2. Listed(rest)
    BY <1>1 DEF Remains
<1>3. pre = <<>>
  <2> SUFFICES ASSUME pre # <<>> PROVE FALSE
    OBVIOUS
  <2>1. Head(calls) = pre[1]
    BY <1>1, <1>2, Joined
  <2>2. 1 \in 1..Len(pre)
    BY <1>1, FrontTaken
  <2> QED BY <1>1, <2>1, <2>2 DEF Fit, Says, SendingCalls
<1> QED BY <1>1, <1>2, <1>3, Joined

LEMMA StoppedAt ==
    ASSUME NEW app, NEW mode \in Modes, NEW calls, Remains(app, mode, calls), calls # <<>>,
           Listed(app), app # <<>>, Stops("ConnectApp", app[1]), Head(calls).do \notin SendingCalls
    PROVE  Stops(mode, Head(calls))
<1>1. Head(calls) = calls[1] /\ Len(calls) \in Nat \ {0}
    BY FrontTaken DEF Remains
<1>2. CASE mode = "check"
  <2>1. CheckCall(calls[1])
    BY <1>1, <1>2 DEF Remains
  <2> QED BY <1>1, <1>2, <2>1 DEF CheckCall, Stops, SendingCalls
<1>3. CASE mode # "check"
    BY <1>1, <1>3, AheadStops DEF Remains
<1> QED BY <1>2, <1>3

LEMMA WaitsMore ==
    ASSUME NEW m, NEW reqs, NEW t, NEW app, NEW mode, NEW calls, NEW more, Listed(more),
           \A i \in 1..Len(more) : Fit(m, reqs, t, more[i]),
           Waits(m, reqs, t, app, mode, calls) \/ Remains(app, mode, calls)
    PROVE  Waits(m, reqs, t, app, mode, more \o calls)
<1>1. PICK pre, rest : /\ Listed(pre) /\ calls = pre \o rest /\ Remains(app, mode, rest)
                       /\ \A i \in 1..Len(pre) : Fit(m, reqs, t, pre[i])
  <2>1. CASE Waits(m, reqs, t, app, mode, calls)
    BY <2>1 DEF Waits
  <2>2. CASE Remains(app, mode, calls)
    <3>1. PICK none : none = <<>>
      OBVIOUS
    <3>2. Listed(none) /\ calls = none \o calls
      BY <2>2, <3>1, Joined, ListedStays DEF Remains
    <3>3. 1..Len(none) = {}
      BY <3>1
    <3> QED BY <2>2, <3>2, <3>3
  <2> QED BY <2>1, <2>2
<1>2. Listed(rest)
    BY <1>1 DEF Remains
<1>3. more \o calls = (more \o pre) \o rest /\ Listed(more \o pre)
    BY <1>1, <1>2, Joined, JoinedTwice
<1>4. PICK k : k = Len(more)
    OBVIOUS
<1>5. /\ Len(more \o pre) = k + Len(pre) /\ k \in Nat /\ Len(pre) \in Nat
      /\ \A i \in 1..k : (more \o pre)[i] = more[i]
      /\ \A i \in 1..Len(pre) : (more \o pre)[k + i] = pre[i]
    BY <1>1, <1>4, Joined
<1>6. ASSUME NEW i \in 1..Len(more \o pre) PROVE Fit(m, reqs, t, (more \o pre)[i])
  <2>1. CASE i \in 1..k
    BY <1>4, <1>5, <2>1
  <2>2. CASE i \notin 1..k
    <3>1. i - k \in 1..Len(pre) /\ i = k + (i - k)
      BY <1>5, <2>2
    <3>2. (more \o pre)[k + (i - k)] = pre[i - k]
      BY <1>5, <3>1
    <3> QED BY <1>1, <3>1, <3>2
  <2> QED BY <2>1, <2>2
<1> QED BY <1>1, <1>3, <1>6 DEF Waits

\* Requests that are added change nothing for those that were there.
Grows(m, reqs, reqs2) ==
    m.own => \A t \in DOMAIN reqs : t \in DOMAIN reqs2 /\ reqs2[t] = reqs[t]

LEMMA WaitsStays ==
    ASSUME NEW m, NEW reqs, NEW reqs2, NEW t, NEW app, NEW mode, NEW calls,
           Grows(m, reqs, reqs2), Waits(m, reqs, t, app, mode, calls)
    PROVE  Waits(m, reqs2, t, app, mode, calls)
<1>1. ASSUME NEW call, Fit(m, reqs, t, call) PROVE Fit(m, reqs2, t, call)
    BY <1>1 DEF Fit, Right, Grows
<1> QED BY <1>1 DEF Waits

----------------------------------------------------------------------------
(* How the server goes on behind what it has waited for. *)

LEMMA FitSends ==
    ASSUME NEW m, NEW reqs, NEW t
    PROVE  /\ \A name, n : name # "_result" => Fit(m, reqs, t, Send(Command(name, n)))
                                             /\ Fit(m, reqs, t, SendOn(Command(name, n)))
           /\ \A name : name # "_result" => Fit(m, reqs, t, Send(Control(name)))
                                          /\ Fit(m, reqs, t, SendOn(Data(name)))
           /\ \A n, value : value # "number" /\ (m.own => Right(reqs, n, value)) =>
                               /\ Fit(m, reqs, t, Send(Result(n, value)))
                               /\ Fit(m, reqs, t, SendOn(Result(n, value)))
           /\ \A value : (m.own => Right(reqs, t, value)) => Fit(m, reqs, t, Answer(value))
<1>1. ASSUME NEW name, NEW n, name # "_result"
      PROVE  Fit(m, reqs, t, Send(Command(name, n))) /\ Fit(m, reqs, t, SendOn(Command(name, n)))
    BY <1>1 DEF Fit, Says, Send, SendOn, Command, Blank, IsMedia, PartTypes
<1>2. ASSUME NEW name, name # "_result"
      PROVE  Fit(m, reqs, t, Send(Control(name))) /\ Fit(m, reqs, t, SendOn(Data(name)))
    BY <1>2 DEF Fit, Says, Send, SendOn, Control, Data, Blank, IsMedia, PartTypes
<1>3. ASSUME NEW n, NEW value, value # "number", m.own => Right(reqs, n, value)
      PROVE  Fit(m, reqs, t, Send(Result(n, value))) /\ Fit(m, reqs, t, SendOn(Result(n, value)))
  <2>1. /\ Result(n, value).tid = n /\ Result(n, value).value = value
        /\ DOMAIN Result(n, value) = DOMAIN Blank /\ ~IsMedia(Result(n, value))
    BY DEF Result, Command, Blank, IsMedia, PartTypes
  <2> QED BY <1>3, <2>1 DEF Fit, Says, Send, SendOn
<1>4. ASSUME NEW value, m.own => Right(reqs, t, value) PROVE Fit(m, reqs, t, Answer(value))
    BY <1>4 DEF Fit, Answer
<1> QED BY <1>1, <1>2, <1>3, <1>4

LEMMA ListedTuples ==
    /\ \A a : Listed(<< a >>)
    /\ \A a, b : Listed(<< a, b >>)
    /\ \A a, b, c : Listed(<< a, b, c >>)
    /\ \A a, b, c, d, e : Listed(<< a, b, c, d, e >>)
<1>1. ASSUME NEW a, NEW b, NEW c, NEW d, NEW e PROVE Listed(<< a, b, c, d, e >>)
  <2>1. << a, b, c, d, e >> \in Seq({a, b, c, d, e})
    OBVIOUS
  <2> QED BY <2>1, ListedSeq
<1> QED BY <1>1, ListedStays

LEMMA FitTuples ==
    ASSUME NEW m, NEW reqs, NEW t
    PROVE  /\ \A a : Fit(m, reqs, t, a) => \A i \in 1..Len(<< a >>) : Fit(m, reqs, t, << a >>[i])
           /\ \A a, b : Fit(m, reqs, t, a) /\ Fit(m, reqs, t, b) =>
                 \A i \in 1..Len(<< a, b >>) : Fit(m, reqs, t, << a, b >>[i])
           /\ \A a, b, c : Fit(m, reqs, t, a) /\ Fit(m, reqs, t, b) /\ Fit(m, reqs, t, c) =>
                 \A i \in 1..Len(<< a, b, c >>) : Fit(m, reqs, t, << a, b, c >>[i])
           /\ \A a, b, c, d, e :
                 /\ Fit(m, reqs, t, a) /\ Fit(m, reqs, t, b) /\ Fit(m, reqs, t, c)
                 /\ Fit(m, reqs, t, d) /\ Fit(m, reqs, t, e)
                 => \A i \in 1..Len(<< a, b, c, d, e >>) :
                       Fit(m, reqs, t, << a, b, c, d, e >>[i])
    OBVIOUS

LEMMA RecordingListed == Listed(Recording)
    BY ListedTuples DEF Recording

\* Nothing is to be sent first.
LEMMA WaitsAtOnce ==
    ASSUME NEW m, NEW reqs, NEW t, NEW app, NEW mode, NEW calls, Remains(app, mode, calls)
    PROVE  Waits(m, reqs, t, app, mode, calls)
<1>1. PICK none : none = <<>>
    OBVIOUS
<1>2. Listed(none) /\ calls = none \o calls
    BY <1>1, Joined, ListedStays DEF Remains
<1>3. 1..Len(none) = {}
    BY <1>1
<1> QED BY <1>2, <1>3 DEF Waits

LEMMA FmleGoesOn ==
    ASSUME NEW m, NEW reqs, NEW t, NEW app, m.own => Right(reqs, t, "undefined")
    PROVE  Waits(m, reqs, t, app, "CreateStream", Tail(Ahead(app, "FMLEStart")))
<1>1. PICK more : more = << Answer("undefined") >>
    OBVIOUS
<1>2. PICK b : b = << Expect("CreateStream"), Answer("number"), Expect("Publish") >>
    OBVIOUS
<1>3. PICK a : a = << Expect("FMLEStart"), Answer("undefined"), Expect("CreateStream"),
                      Answer("number"), Expect("Publish") >>
    OBVIOUS
<1>4. Listed(more) /\ Listed(a) /\ Listed(b) /\ Listed(Recording)
    BY <1>1, <1>2, <1>3, ListedTuples, RecordingListed
<1>5. a # <<>> /\ Tail(a) = more \o b
    BY <1>1, <1>2, <1>3
<1>6. Ahead(app, "FMLEStart") = a \o Recording /\ Ahead(app, "CreateStream") = b \o Recording
    BY <1>2, <1>3 DEF Ahead
<1>7. Tail(Ahead(app, "FMLEStart")) = more \o Ahead(app, "CreateStream")
  <2>1. Tail(a \o Recording) = Tail(a) \o Recording
    BY <1>4, <1>5, Joined
  <2>2. (more \o b) \o Recording = more \o (b \o Recording)
    BY <1>4, JoinedTwice
  <2> QED BY <1>5, <1>6, <2>1, <2>2
<1>8. Remains(app, "CreateStream", Ahead(app, "CreateStream"))
  <2>1. Listed(b \o Recording)
    BY <1>4, Joined
  <2> QED BY <1>6, <2>1 DEF Remains
<1>9. \A i \in 1..Len(more) : Fit(m, reqs, t, more[i])
    BY <1>1, FitSends
<1> QED BY <1>4, <1>7, <1>8, <1>9, WaitsMore

LEMMA CreateGoesOn ==
    ASSUME NEW m, NEW reqs, NEW t, NEW app, m.own => Right(reqs, t, "number")
    PROVE  Waits(m, reqs, t, app, "Publish", Tail(Ahead(app, "CreateStream")))
<1>1. PICK more : more = << Answer("number") >>
    OBVIOUS
<1>2. PICK b : b = << Expect("Publish") >>
    OBVIOUS
<1>3. PICK a : a = << Expect("CreateStream"), Answer("number"), Expect("Publish") >>
    OBVIOUS
<1>4. Listed(more) /\ Listed(a) /\ Listed(b) /\ Listed(Recording)
    BY <1>1, <1>2, <1>3, ListedTuples, RecordingListed
<1>5. a # <<>> /\ Tail(a) = more \o b
    BY <1>1, <1>2, <1>3
<1>6. Ahead(app, "CreateStream") = a \o Recording /\ Ahead(app, "Publish") = b \o Recording
    BY <1>2, <1>3 DEF Ahead
<1>7. Tail(Ahead(app, "CreateStream")) = more \o Ahead(app, "Publish")
  <2>1. Tail(a \o Recording) = Tail(a) \o Recording
    BY <1>4, <1>5, Joined
  <2>2. (more \o b) \o Recording = more \o (b \o Recording)
    BY <1>4, JoinedTwice
  <2> QED BY <1>5, <1>6, <2>1, <2>2
<1>8. Remains(app, "Publish", Ahead(app, "Publish"))
  <2>1. Listed(b \o Recording)
    BY <1>4, Joined
  <2> QED BY <1>6, <2>1 DEF Remains
<1>9. \A i \in 1..Len(more) : Fit(m, reqs, t, more[i])
    BY <1>1, FitSends
<1> QED BY <1>4, <1>7, <1>8, <1>9, WaitsMore

LEMMA PublishGoesOn ==
    ASSUME NEW m, NEW reqs, NEW t, NEW app
    PROVE  Waits(m, reqs, t, app, "record", Tail(Ahead(app, "Publish")))
<1>1. PICK more : more = << SendOn(Command("onFCPublish", 0)), SendOn(Command("onStatus", 0)) >>
    OBVIOUS
<1>2. PICK a : a = << Expect("Publish") >>
    OBVIOUS
<1>3. Listed(more) /\ Listed(a) /\ Listed(Recording)
    BY <1>1, <1>2, ListedTuples, RecordingListed
<1>4. a # <<>> /\ Tail(a) = <<>> /\ Ahead(app, "Publish") = a \o Recording
    BY <1>2 DEF Ahead
<1>5. Tail(Ahead(app, "Publish")) = Recording
  <2>1. Tail(a \o Recording) = Tail(a) \o Recording
    BY <1>3, <1>4, Joined
  <2>2. <<>> \o Recording = Recording
    BY <1>3, Joined
  <2> QED BY <1>4, <2>1, <2>2
<1>6. Recording = more \o Ahead(app, "record")
    BY <1>1 DEF Recording, Ahead
<1>7. Remains(app, "record", Ahead(app, "record"))
    BY ListedTuples DEF Remains, Ahead
<1>8. \A i \in 1..Len(more) : Fit(m, reqs, t, more[i])
  <2>1. /\ Fit(m, reqs, t, SendOn(Command("onFCPublish", 0)))
        /\ Fit(m, reqs, t, SendOn(Command("onStatus", 0)))
    BY FitSends
  <2> QED BY <1>1, <2>1, FitTuples
<1> QED BY <1>3, <1>5, <1>6, <1>7, <1>8, WaitsMore

LEMMA Started ==
    ASSUME NEW m, NEW reqs, NEW t, NEW app
    PROVE  /\ Waits(m, reqs, t, app, "serve", Start("Play"))
           /\ Waits(m, reqs, t, app, "record", Start("FlashPublish"))
           /\ Waits(m, reqs, t, app, "FMLEStart", Start("FMLEPublish"))
<1>1. PICK set : set = SetChunkSize
    OBVIOUS
<1>2. Listed(set) /\ \A i \in 1..Len(set) : Fit(m, reqs, t, set[i])
  <2>1. Fit(m, reqs, t, Send(Control("SetChunkSize")))
    BY FitSends
  <2>2. \A i \in 1..Len(set) : Fit(m, reqs, t, set[i])
    BY <1>1, <2>1, FitTuples DEF SetChunkSize
  <2> QED BY <1>1, <2>2, ListedTuples DEF SetChunkSize
<1>3. Waits(m, reqs, t, app, "serve", Start("Play"))
  <2>1. PICK more : more = StartPlay
    OBVIOUS
  <2>2. Listed(more) /\ \A i \in 1..Len(more) : Fit(m, reqs, t, more[i])
    <3>1. /\ Fit(m, reqs, t, Send(Control("UserControl")))
          /\ Fit(m, reqs, t, SendOn(Command("onStatus", 0)))
          /\ Fit(m, reqs, t, SendOn(Data("RtmpSampleAccess")))
          /\ Fit(m, reqs, t, SendOn(Data("onStatus")))
      BY FitSends
    <3>2. \A i \in 1..Len(more) : Fit(m, reqs, t, more[i])
      BY <2>1, <3>1, FitTuples DEF StartPlay
    <3> QED BY <2>1, <3>2, ListedTuples DEF StartPlay
  <2>3. PICK rest : rest = << Loop("serve") >>
    OBVIOUS
  <2>4. Listed(rest) /\ Remains(app, "serve", rest)
    <3>1. Ahead(app, "serve") = << Loop("serve") >>
      BY DEF Ahead
    <3> QED BY <2>3, <3>1, ListedTuples DEF Remains
  <2>5. Waits(m, reqs, t, app, "serve", more \o rest)
    BY <2>2, <2>4, WaitsMore
  <2>6. Waits(m, reqs, t, app, "serve", set \o (more \o rest))
    BY <1>2, <2>5, WaitsMore
  <2>7. Start("Play") = (set \o more) \o rest
    BY <1>1, <2>1, <2>3 DEF Start
  <2>8. (set \o more) \o rest = set \o (more \o rest)
    BY <1>2, <2>2, <2>4, JoinedTwice
  <2> QED BY <2>6, <2>7, <2>8
<1>4. Waits(m, reqs, t, app, "record", Start("FlashPublish"))
  <2>1. PICK more : more = StartFlashPublish
    OBVIOUS
  <2>2. Listed(more) /\ \A i \in 1..Len(more) : Fit(m, reqs, t, more[i])
    <3>1. Fit(m, reqs, t, SendOn(Command("onStatus", 0)))
      BY FitSends
    <3>2. \A i \in 1..Len(more) : Fit(m, reqs, t, more[i])
      BY <2>1, <3>1, FitTuples DEF StartFlashPublish
    <3> QED BY <2>1, <3>2, ListedTuples DEF StartFlashPublish
  <2>3. PICK rest : rest = << Loop("record") >>
    OBVIOUS
  <2>4. Listed(rest) /\ Remains(app, "record", rest)
    <3>1. Ahead(app, "record") = << Loop("record") >>
      BY DEF Ahead
    <3> QED BY <2>3, <3>1, ListedTuples DEF Remains
  <2>5. Waits(m, reqs, t, app, "record", more \o rest)
    BY <2>2, <2>4, WaitsMore
  <2>6. Waits(m, reqs, t, app, "record", set \o (more \o rest))
    BY <1>2, <2>5, WaitsMore
  <2>7. Start("FlashPublish") = (set \o more) \o rest
    BY <1>1, <2>1, <2>3 DEF Start
  <2>8. (set \o more) \o rest = set \o (more \o rest)
    BY <1>2, <2>2, <2>4, JoinedTwice
  <2> QED BY <2>6, <2>7, <2>8
<1>5. Waits(m, reqs, t, app, "FMLEStart", Start("FMLEPublish"))
  <2>1. PICK a : a = << Expect("FMLEStart"), Answer("undefined"), Expect("CreateStream"),
                        Answer("number"), Expect("Publish") >>
    OBVIOUS
  <2>2. PICK b : b = << SendOn(Command("onFCPublish", 0)), SendOn(Command("onStatus", 0)) >>
    OBVIOUS
  <2>3. PICK rest : rest = << Loop("record") >>
    OBVIOUS
  <2>4. Listed(a) /\ Listed(b) /\ Listed(rest)
    BY <2>1, <2>2, <2>3, ListedTuples
  <2>5. StartFmlePublish = a \o b /\ Recording = b \o rest
    BY <2>1, <2>2, <2>3 DEF StartFmlePublish, Recording
  <2>6. Start("FMLEPublish") = (set \o (a \o b)) \o rest
    BY <1>1, <2>3, <2>5 DEF Start
  <2>7. Start("FMLEPublish") = set \o (a \o (b \o rest))
    <3>1. PICK ab : ab = a \o b
      OBVIOUS
    <3>2. ab \o rest = a \o (b \o rest) /\ Listed(ab)
      BY <2>4, <3>1, Joined, JoinedTwice
    <3>3. Listed(set) /\ Listed(ab) /\ Listed(rest)
      BY <1>2, <2>4, <3>2
    <3>4. (set \o ab) \o rest = set \o (ab \o rest)
      BY <3>3, JoinedTwice
    <3> QED BY <2>6, <3>1, <3>2, <3>4
  <2>8. Ahead(app, "FMLEStart") = a \o (b \o rest) /\ Listed(a \o (b \o rest))
    BY <2>1, <2>4, <2>5, Joined DEF Ahead
  <2>9. Remains(app, "FMLEStart", a \o (b \o rest))
    BY <2>8 DEF Remains
  <2> QED BY <1>2, <2>7, <2>9, WaitsMore
<1> QED BY <1>3, <1>4, <1>5

LEMMA OneByOne == \A a, b, c : << a >> \o << b >> \o << c >> = << a, b, c >>
<1> SUFFICES ASSUME NEW a, NEW b, NEW c PROVE << a >> \o << b >> \o << c >> = << a, b, c >>
    OBVIOUS
<1>1. PICK v : v = << a >> \o << b >>
    OBVIOUS
<1>2. Listed(v) /\ Len(v) = 2 /\ v[1] = a /\ v[2] = b
  <2>1. PICK x : x = << a >>
    OBVIOUS
  <2>2. Listed(x) /\ Len(x) = 1 /\ x[1] = a /\ v = x \o << b >>
    BY <1>1, <2>1, ListedStays
  <2>3. /\ Listed(x \o << b >>) /\ Len(x \o << b >>) = Len(x) + 1
        /\ (x \o << b >>)[Len(x) + 1] = b
        /\ \A i \in 1..Len(x) : (x \o << b >>)[i] = x[i]
    BY <2>2, EndPut
  <2>4. 1 \in 1..Len(x) /\ Len(x) + 1 = 2
    BY <2>2
  <2> QED BY <2>2, <2>3, <2>4
<1>3. PICK w : w = v \o << c >>
    OBVIOUS
<1>4. Listed(w) /\ Len(w) = 3 /\ w[1] = a /\ w[2] = b /\ w[3] = c
  <2>1. /\ Listed(v \o << c >>) /\ Len(v \o << c >>) = Len(v) + 1
        /\ (v \o << c >>)[Len(v) + 1] = c
        /\ \A i \in 1..Len(v) : (v \o << c >>)[i] = v[i]
    BY <1>2, EndPut
  <2>2. 1 \in 1..Len(v) /\ 2 \in 1..Len(v) /\ Len(v) + 1 = 3
    BY <1>2
  <2> QED BY <1>2, <1>3, <2>1, <2>2
<1>5. w = << a, b, c >>
  <2>1. w \in Seq(Range(w))
    BY <1>4 DEF Listed
  <2>2. PICK u : u = << a, b, c >>
    OBVIOUS
  <2>3. u \in Seq({a, b, c}) /\ Len(u) = 3 /\ u[1] = a /\ u[2] = b /\ u[3] = c
    BY <2>2
  <2>4. DOMAIN w = 1..3 /\ DOMAIN u = 1..3 /\ \A i \in 1..3 : w[i] = u[i]
    BY <1>4, <2>1, <2>3
  <2>5. w = [i \in 1..3 |-> w[i]] /\ u = [i \in 1..3 |-> u[i]]
    BY <2>1, <2>3, <2>4
  <2> QED BY <2>2, <2>4, <2>5
<1> QED BY <1>1, <1>3, <1>5

LEMMA ApplicationIs ==
    /\ Listed(Application) /\ Application # <<>> /\ Stops("ConnectApp", Application[1])
    /\ \A reqs, t :
          (make.own => Right(reqs, 1, "object")) =>
             Waits(make, reqs, t, Application, Admitted(make), Tail(Application))
<1>1. PICK a : a = ServerConnectApp
    OBVIOUS
<1>2. PICK r : r = IF ~make.accepted THEN ResponseConnectReject \o << Loop("close") >>
                   ELSE IF make.means = "Bandwidth" THEN Admit \o BandwidthCheckServed
                   ELSE Admit \o OnBwDone \o << Identify >>
    OBVIOUS
<1>3. Application = a \o r
    BY <1>1, <1>2 DEF Application
<1>4. Listed(a) /\ a # <<>> /\ a[1] = Expect("ConnectApp") /\ Tail(a) = <<>>
    BY <1>1, ListedTuples DEF ServerConnectApp
<1>5. PICK ad : ad = Admit
    OBVIOUS
<1>6. /\ Listed(ad)
      /\ \A reqs, t : (make.own => Right(reqs, 1, "object")) =>
                         \A i \in 1..Len(ad) : Fit(make, reqs, t, ad[i])
  <2>1. ad = << Send(Control("WindowAckSize")), Send(Control("SetPeerBandwidth")),
                Send(Result(1, "object")) >>
    BY <1>5, OneByOne DEF Admit, SetWindowAckSize, SetPeerBandwidth, ResponseConnectApp
  <2>2. ASSUME NEW reqs, NEW t, make.own => Right(reqs, 1, "object")
        PROVE  \A i \in 1..Len(ad) : Fit(make, reqs, t, ad[i])
    <3>1. /\ Fit(make, reqs, t, Send(Control("WindowAckSize")))
          /\ Fit(make, reqs, t, Send(Control("SetPeerBandwidth")))
      BY FitSends
    <3>2. Fit(make, reqs, t, Send(Result(1, "object")))
      BY <2>2, FitSends
    <3> QED BY <2>1, <3>1, <3>2, FitTuples
  <2> QED BY <2>1, <2>2, ListedTuples
<1>7. Listed(BandwidthCheckServed)
      /\ \A i \in 1..Len(BandwidthCheckServed) : CheckCall(BandwidthCheckServed[i])
  <2>1. PICK b : b = BandwidthCheckServed
    OBVIOUS
  <2>2. b \in Seq(Range(b)) /\ Len(b) = 11
    BY <2>1 DEF BandwidthCheckServed, Range
  <2>3. \A name : name # "_result" => CheckCall(Send(Command(name, 0)))
    BY DEF CheckCall, Send, Command, Blank, IsMedia, PartTypes
  <2>4. \A name : CheckCall(ExpectBandwidth(name))
    BY DEF CheckCall, ExpectBandwidth
  <2>5. /\ CheckCall(b[1]) /\ CheckCall(b[2]) /\ CheckCall(b[3]) /\ CheckCall(b[4])
        /\ CheckCall(b[5]) /\ CheckCall(b[6]) /\ CheckCall(b[7]) /\ CheckCall(b[8])
        /\ CheckCall(b[9]) /\ CheckCall(b[10]) /\ CheckCall(b[11])
    BY <2>1, <2>3, <2>4 DEF BandwidthCheckServed
  <2>6. \A i \in 1..11 : CheckCall(b[i])
    BY <2>5
  <2> QED BY <2>1, <2>2, <2>6 DEF Listed
<1>8. PICK bw : bw = OnBwDone
    OBVIOUS
<1>9. Listed(bw) /\ \A reqs, t : \A i \in 1..Len(bw) : Fit(make, reqs, t, bw[i])
  <2>1. bw = << Send(Command("onBWDone", 0)) >>
    BY <1>8 DEF OnBwDone
  <2>2. ASSUME NEW reqs, NEW t PROVE \A i \in 1..Len(bw) : Fit(make, reqs, t, bw[i])
    <3>1. Fit(make, reqs, t, Send(Command("onBWDone", 0)))
      BY FitSends
    <3> QED BY <2>1, <3>1, FitTuples
  <2> QED BY <2>1, <2>2, ListedTuples
<1>10. PICK rej : rej = ResponseConnectReject
    OBVIOUS
<1>11. Listed(rej) /\ \A reqs, t : \A i \in 1..Len(rej) : Fit(make, reqs, t, rej[i])
  <2>1. rej = << Send(Command("onStatus", 0)) >>
    BY <1>10 DEF ResponseConnectReject
  <2>2. ASSUME NEW reqs, NEW t PROVE \A i \in 1..Len(rej) : Fit(make, reqs, t, rej[i])
    <3>1. Fit(make, reqs, t, Send(Command("onStatus", 0)))
      BY FitSends
    <3> QED BY <2>1, <3>1, FitTuples
  <2> QED BY <2>1, <2>2, ListedTuples
<1>12. Listed(<< Loop("close") >>) /\ Listed(<< Identify >>)
    BY ListedTuples
<1>13. /\ Remains(Application, "refuse", << Loop("close") >>)
       /\ Remains(Application, "identify", << Identify >>)
       /\ Remains(Application, "check", BandwidthCheckServed)
  <2>1. Ahead(Application, "refuse") = << Loop("close") >>
    BY DEF Ahead
  <2>2. Ahead(Application, "identify") = << Identify >>
    BY DEF Ahead
  <2> QED BY <1>7, <1>12, <2>1, <2>2 DEF Remains
<1>14. Listed(r)
       /\ \A reqs, t : (make.own => Right(reqs, 1, "object")) =>
             Waits(make, reqs, t, Application, Admitted(make), r)
  <2>1. CASE ~make.accepted
    <3>1. r = rej \o << Loop("close") >> /\ Admitted(make) = "refuse"
      BY <1>2, <1>10, <2>1 DEF Admitted
    <3>2. ASSUME NEW reqs, NEW t PROVE Waits(make, reqs, t, Application, Admitted(make), r)
      BY <1>11, <1>13, <3>1, WaitsMore
    <3> QED BY <1>11, <1>12, <3>1, <3>2, Joined
  <2>2. CASE make.accepted /\ make.means = "Bandwidth"
    <3>1. r = ad \o BandwidthCheckServed /\ Admitted(make) = "check"
      BY <1>2, <1>5, <2>2 DEF Admitted
    <3>2. ASSUME NEW reqs, NEW t, make.own => Right(reqs, 1, "object")
          PROVE  Waits(make, reqs, t, Application, Admitted(make), r)
      BY <1>6, <1>13, <3>1, <3>2, WaitsMore
    <3> QED BY <1>6, <1>7, <3>1, <3>2, Joined
  <2>3. CASE make.accepted /\ make.means # "Bandwidth"
    <3>1. r = (ad \o bw) \o << Identify >> /\ Admitted(make) = "identify"
      BY <1>2, <1>5, <1>8, <2>3 DEF Admitted
    <3>2. r = ad \o (bw \o << Identify >>)
      BY <1>6, <1>9, <1>12, <3>1, JoinedTwice
    <3>3. ASSUME NEW reqs, NEW t, make.own => Right(reqs, 1, "object")
          PROVE  Waits(make, reqs, t, Application, Admitted(make), r)
      <4>1. Waits(make, reqs, t, Application, "identify", bw \o << Identify >>)
        BY <1>9, <1>13, WaitsMore
      <4>2. Waits(make, reqs, t, Application, "identify", ad \o (bw \o << Identify >>))
        BY <1>6, <3>3, <4>1, WaitsMore
      <4> QED BY <3>1, <3>2, <4>2
    <3>4. Listed(r)
      BY <1>6, <1>9, <1>12, <3>2, Joined
    <3> QED BY <3>3, <3>4
  <2> QED BY <2>1, <2>2, <2>3
<1>15. Listed(Application) /\ Application # <<>>
    BY <1>3, <1>4, <1>14, Joined
<1>16. Application[1] = Expect("ConnectApp")
  <2>1. Head(Application) = a[1]
    BY <1>3, <1>4, <1>14, Joined
  <2>2. Head(Application) = Application[1]
    BY <1>15, FrontTaken
  <2> QED BY <1>4, <2>1, <2>2
<1>17. Tail(Application) = r
  <2>1. Tail(Application) = Tail(a) \o r
    BY <1>3, <1>4, <1>14, Joined
  <2>2. <<>> \o r = r
    BY <1>14, Joined
  <2> QED BY <1>4, <2>1, <2>2
<1>18. Stops("ConnectApp", Application[1])
    BY <1>16 DEF Stops, Expect
<1> QED BY <1>14, <1>15, <1>17, <1>18

----------------------------------------------------------------------------
(* Media on its way: the next of what has been sent, one after the other. *)

Counts(sent_, x, n, k) ==
    IF IsMedia(x) THEN n < Len(sent_) /\ x = sent_[n + 1] /\ k = n + 1 ELSE k = n
Count(sent_, N, w) ==
    /\ N \in Seq(Nat) /\ Len(N) = Len(w) + 1
    /\ \A i \in 1..Len(w) : Counts(sent_, w[i], N[i], N[i + 1])
Counted(sent_, w, c) == \E N : Count(sent_, N, w) /\ N[1] = c /\ N[Len(N)] = Len(sent_)

LEMMA CountedNone == Counted(<<>>, <<>>, 0)
<1>1. PICK N : N = << 0 >>
    OBVIOUS
<1>2. N \in Seq(Nat) /\ Len(N) = 1 /\ N[1] = 0 /\ Len(<<>>) = 0
    BY <1>1
<1>3. Count(<<>>, N, <<>>)
    BY <1>2 DEF Count
<1> QED BY <1>2, <1>3 DEF Counted

LEMMA CountedTaken ==
    ASSUME NEW s, NEW w, NEW c, Listed(w), w # <<>>, Counted(s, w, c)
    PROVE  \E k \in Nat : Counts(s, Head(w), c, k) /\ Counted(s, Tail(w), k)
<1>1. PICK N : Count(s, N, w) /\ N[1] = c /\ N[Len(N)] = Len(s)
    BY DEF Counted
<1>2. PICK n : n = Len(w)
    OBVIOUS
<1>3. PICK v : v = Tail(w)
    OBVIOUS
<1>4. /\ n \in Nat \ {0} /\ Len(v) = n - 1 /\ Head(w) = w[1]
      /\ \A i \in 1..(n - 1) : v[i] = w[i + 1]
    BY <1>2, <1>3, FrontTaken
<1>5. PICK P : P = Tail(N)
    OBVIOUS
<1>6. /\ N \in Seq(Nat) /\ Len(N) = n + 1
      /\ \A i \in 1..n : Counts(s, w[i], N[i], N[i + 1])
    BY <1>1, <1>2 DEF Count
<1>7. P \in Seq(Nat) /\ Len(P) = n /\ \A i \in 1..n : P[i] = N[i + 1]
  <2>1. N # <<>>
    BY <1>4, <1>6
  <2>2. P \in Seq(Nat) /\ Len(P) = Len(N) - 1 /\ \A i \in 1..Len(P) : P[i] = N[i + 1]
    BY <1>5, <1>6, <2>1, HeadTailProperties
  <2> QED BY <1>4, <1>6, <2>2
<1>8. P[n] = Len(s) /\ P[1] = N[2] /\ N[2] \in Nat
    BY <1>1, <1>4, <1>6, <1>7
<1>9. Count(s, P, v)
  <2>1. ASSUME NEW i \in 1..(n - 1) PROVE Counts(s, v[i], P[i], P[i + 1])
    <3>1. i \in 1..n /\ i + 1 \in 1..n
      BY <1>4
    <3>2. P[i] = N[i + 1] /\ v[i] = w[i + 1] /\ P[i + 1] = N[i + 1 + 1]
      BY <1>4, <1>7, <3>1
    <3> QED BY <1>6, <3>1, <3>2
  <2> QED BY <1>4, <1>7, <2>1 DEF Count
<1>10. Counts(s, Head(w), c, N[2])
    BY <1>1, <1>4, <1>6
<1> QED BY <1>3, <1>7, <1>8, <1>9, <1>10 DEF Counted

LEMMA CountedMore ==
    ASSUME NEW s, NEW w, NEW c, NEW x, NEW more, Listed(w), Listed(s), Counted(s, w, c),
           IF IsMedia(x) THEN more = s \o << x >> ELSE more = s
    PROVE  Counted(more, w \o << x >>, c)
<1>1. PICK N : Count(s, N, w) /\ N[1] = c /\ N[Len(N)] = Len(s)
    BY DEF Counted
<1>2. PICK n : n = Len(w)
    OBVIOUS
<1>3. PICK v : v = w \o << x >>
    OBVIOUS
<1>4. n \in Nat /\ Len(v) = n + 1 /\ v[n + 1] = x /\ \A i \in 1..n : v[i] = w[i]
    BY <1>2, <1>3, EndPut
<1>5. /\ Len(s) \in Nat /\ Len(more) \in Nat /\ Len(s) <= Len(more)
      /\ \A i \in 1..Len(s) : more[i] = s[i]
      /\ IF IsMedia(x) THEN Len(more) = Len(s) + 1 /\ more[Len(s) + 1] = x ELSE more = s
  <2>1. /\ Len(s) \in Nat /\ Len(s \o << x >>) = Len(s) + 1
        /\ (s \o << x >>)[Len(s) + 1] = x
        /\ \A i \in 1..Len(s) : (s \o << x >>)[i] = s[i]
    BY EndPut
  <2>2. CASE IsMedia(x)
    BY <2>1, <2>2
  <2>3. CASE ~IsMedia(x)
    BY <2>1, <2>3
  <2> QED BY <2>2, <2>3
<1>6. PICK P : P = Append(N, Len(more))
    OBVIOUS
<1>7. /\ N \in Seq(Nat) /\ Len(N) = n + 1 /\ N[n + 1] = Len(s)
      /\ \A i \in 1..n : Counts(s, w[i], N[i], N[i + 1])
    BY <1>1, <1>2 DEF Count
<1>8. /\ P \in Seq(Nat) /\ Len(P) = n + 2 /\ P[n + 2] = Len(more)
      /\ \A i \in 1..(n + 1) : P[i] = N[i] /\ N[i] \in Nat
    BY <1>4, <1>5, <1>6, <1>7
<1>9. Count(more, P, v)
  <2>1. ASSUME NEW i \in 1..(n + 1) PROVE Counts(more, v[i], P[i], P[i + 1])
    <3>1. CASE i = n + 1
      <4>1. P[i] = Len(s) /\ v[i] = x /\ P[i + 1] = Len(more)
        BY <1>4, <1>7, <1>8, <3>1
      <4> QED BY <1>5, <4>1 DEF Counts
    <3>2. CASE i # n + 1
      <4>1. i \in 1..n /\ i + 1 \in 1..(n + 1)
        BY <1>4, <3>2
      <4>2. P[i] = N[i] /\ v[i] = w[i] /\ P[i + 1] = N[i + 1] /\ N[i] \in Nat
        BY <1>4, <1>8, <4>1
      <4>3. Counts(s, w[i], N[i], N[i + 1])
        BY <1>7, <4>1
      <4> QED BY <1>5, <4>2, <4>3 DEF Counts
    <3> QED BY <3>1, <3>2
  <2> QED BY <1>4, <1>8, <2>1 DEF Count
<1>10. P[1] = c /\ P[Len(P)] = Len(more)
    BY <1>1, <1>4, <1>8
<1> QED BY <1>3, <1>9, <1>10 DEF Counted

----------------------------------------------------------------------------
(* The parts of what has been sent, joined. *)

TimeOf(means, type, ts) == IF means = "Play" /\ type = "script" THEN 0 ELSE ts
PartOf(means, m, p, ts) ==
    [type |-> p.type, id |-> m.id, sid |-> p.sid, ts |-> TimeOf(means, p.type, ts)]
PartsOf(means, m) ==
    IF m.subs = <<>> THEN << PartOf(means, m, m, m.ts) >>
    ELSE [i \in 1..Len(m.subs) |->
            PartOf(means, m, m.subs[i],
                   IF m.ts < m.subs[1].ts THEN m.ts
                   ELSE m.ts + (m.subs[i].ts - m.subs[1].ts))]
Flat(means, s, F) ==
    /\ F[1] = <<>>
    /\ \A k \in 1..Len(s) : F[k + 1] = F[k] \o PartsOf(means, s[k])

\* A medium that has been sent: an aggregate has parts, everything else has none.
Sent(means, m) ==
    /\ IsMedia(m) /\ m.subs \in Seq(SubMessage)
    /\ m.type = "aggregate" <=> m.subs # <<>>
    /\ means # "Play" => m.subs = <<>>
    /\ m.ts \in Nat
    /\ \A i, j \in 1..Len(m.subs) : i <= j => m.subs[i].ts <= m.subs[j].ts

LEMMA PartsListed ==
    ASSUME NEW means, NEW m, Sent(means, m) PROVE Listed(PartsOf(means, m))
<1>1. CASE m.subs = <<>>
    BY <1>1, ListedTuples DEF PartsOf
<1>2. CASE m.subs # <<>>
  <2>1. PICK p : p = PartsOf(means, m)
    OBVIOUS
  <2>2. PICK n : n = Len(m.subs)
    OBVIOUS
  <2>3. n \in Nat
    BY <2>2 DEF Sent
  <2>4. p = [i \in 1..n |-> p[i]]
    BY <1>2, <2>1, <2>2 DEF PartsOf
  <2>5. p \in Seq(Range(p))
    BY <2>3, <2>4 DEF Range
  <2> QED BY <2>1, <2>5 DEF Listed
<1> QED BY <1>1, <1>2

LEMMA FlatListed ==
    ASSUME NEW means, NEW s, NEW F, Len(s) \in Nat, Flat(means, s, F),
           \A k \in 1..Len(s) : Sent(means, s[k])
    PROVE  \A k \in 1..(Len(s) + 1) : Listed(F[k])
<1> DEFINE S == {n \in Nat : n <= Len(s) => Listed(F[n + 1])}
<1>1. 0 \in S
  <2>1. Listed(F[1]) /\ 0 + 1 = 1
    BY ListedStays DEF Flat
  <2> QED BY <2>1
<1>2. ASSUME NEW n \in Nat, n \in S PROVE n + 1 \in S
  <2> SUFFICES ASSUME n + 1 <= Len(s) PROVE Listed(F[n + 1 + 1])
    OBVIOUS
  <2>1. n + 1 \in 1..Len(s) /\ Listed(F[n + 1])
    BY <1>2
  <2>2. Listed(PartsOf(means, s[n + 1]))
    BY <2>1, PartsListed
  <2>3. F[n + 1 + 1] = F[n + 1] \o PartsOf(means, s[n + 1])
    BY <2>1 DEF Flat
  <2> QED BY <2>1, <2>2, <2>3, Joined
<1>3. Nat \subseteq S
  <2> HIDE DEF S
  <2> QED BY <1>1, <1>2, Counting
<1>4. ASSUME NEW k \in 1..(Len(s) + 1) PROVE Listed(F[k])
  <2>1. k - 1 \in Nat /\ k - 1 <= Len(s) /\ (k - 1) + 1 = k
    OBVIOUS
  <2>2. k - 1 \in S
    BY <1>3, <2>1
  <2> QED BY <2>1, <2>2
<1> QED BY <1>4

LEMMA FlatMore ==
    ASSUME NEW means, NEW s, NEW F, NEW x, Listed(s), Flat(means, s, F)
    PROVE  \E G : /\ Flat(means, s \o << x >>, G)
                  /\ \A k \in 1..(Len(s) + 1) : G[k] = F[k]
<1>1. PICK n : n = Len(s)
    OBVIOUS
<1>2. PICK t : t = s \o << x >>
    OBVIOUS
<1>3. n \in Nat /\ Len(t) = n + 1 /\ t[n + 1] = x /\ \A i \in 1..n : t[i] = s[i]
    BY <1>1, <1>2, EndPut
<1>4. PICK G : G = [k \in 1..(n + 2) |-> IF k = n + 2 THEN F[n + 1] \o PartsOf(means, x) ELSE F[k]]
    OBVIOUS
<1>5. G[n + 2] = F[n + 1] \o PartsOf(means, x) /\ \A k \in 1..(n + 1) : G[k] = F[k]
    BY <1>3, <1>4
<1>6. ASSUME NEW k \in 1..(n + 1) PROVE G[k + 1] = G[k] \o PartsOf(means, t[k])
  <2>1. CASE k = n + 1
    <3>1. k \in 1..(n + 1) /\ k + 1 = n + 2
      BY <1>3, <2>1
    <3>2. G[k] = F[n + 1] /\ t[k] = x /\ G[k + 1] = F[n + 1] \o PartsOf(means, x)
      BY <1>3, <1>5, <2>1, <3>1
    <3> QED BY <3>2
  <2>2. CASE k # n + 1
    <3>1. k \in 1..n /\ k + 1 \in 1..(n + 1)
      BY <1>3, <2>2
    <3>2. G[k + 1] = F[k + 1] /\ G[k] = F[k] /\ t[k] = s[k]
      BY <1>3, <1>5, <3>1
    <3> QED BY <1>1, <3>1, <3>2 DEF Flat
  <2> QED BY <2>1, <2>2
<1>7. G[1] = <<>>
    BY <1>3, <1>5 DEF Flat
<1> QED BY <1>1, <1>2, <1>3, <1>5, <1>6, <1>7 DEF Flat

\* What has arrived is the beginning of what has been sent.
LEMMA FlatBegins ==
    ASSUME NEW means, NEW s, NEW F, Len(s) \in Nat, Flat(means, s, F),
           \A k \in 1..Len(s) : Sent(means, s[k]), NEW c \in 0..Len(s)
    PROVE  \E more : Listed(more) /\ F[Len(s) + 1] = F[c + 1] \o more
<1> DEFINE S == {n \in Nat : c + n <= Len(s) =>
                               \E more : Listed(more) /\ F[c + n + 1] = F[c + 1] \o more}
<1>1. 0 \in S
  <2>1. Listed(F[c + 1])
    BY FlatListed
  <2>2. F[c + 1] \o <<>> = F[c + 1] /\ Listed(<<>>)
    BY <2>1, Joined, ListedStays
  <2>3. c + 0 + 1 = c + 1
    OBVIOUS
  <2> QED BY <2>2, <2>3
<1>2. ASSUME NEW n \in Nat, n \in S PROVE n + 1 \in S
  <2> SUFFICES ASSUME c + (n + 1) <= Len(s)
               PROVE  \E more : Listed(more) /\ F[c + (n + 1) + 1] = F[c + 1] \o more
    OBVIOUS
  <2>1. PICK k : k = c + n + 1
    OBVIOUS
  <2>2. k \in 1..Len(s) /\ c + (n + 1) + 1 = k + 1 /\ c + 1 \in 1..(Len(s) + 1)
    BY <2>1
  <2>3. PICK more : Listed(more) /\ F[k] = F[c + 1] \o more
    BY <1>2, <2>1, <2>2
  <2>4. PICK p : p = PartsOf(means, s[k])
    OBVIOUS
  <2>5. Listed(p) /\ F[k + 1] = F[k] \o p
    BY <2>2, <2>4, PartsListed DEF Flat
  <2>6. Listed(F[c + 1])
    BY <2>2, FlatListed
  <2>7. (F[c + 1] \o more) \o p = F[c + 1] \o (more \o p)
    <3>1. PICK f : f = F[c + 1]
      OBVIOUS
    <3>2. Listed(f) /\ Listed(more) /\ Listed(p)
      BY <2>3, <2>5, <2>6, <3>1
    <3>3. (f \o more) \o p = f \o (more \o p)
      BY <3>2, JoinedTwice
    <3> QED BY <3>1, <3>3
  <2>8. Listed(more \o p)
    BY <2>3, <2>5, ListedStays
  <2>9. F[k + 1] = F[c + 1] \o (more \o p)
    BY <2>3, <2>5, <2>7
  <2> QED BY <2>2, <2>8, <2>9
<1>3. Nat \subseteq S
  <2> HIDE DEF S
  <2> QED BY <1>1, <1>2, Counting
<1>4. PICK n : n = Len(s) - c
    OBVIOUS
<1>5. n \in Nat /\ c + n = Len(s)
    BY <1>4
<1>6. n \in S
  <2> HIDE DEF S
  <2> QED BY <1>3, <1>5
<1>7. \E more : Listed(more) /\ F[c + n + 1] = F[c + 1] \o more
    BY <1>5, <1>6
<1> QED BY <1>5, <1>7

LEMMA FlatIs ==
    ASSUME NEW means, NEW s, NEW F, Len(s) \in Nat, Flat(means, s, F),
           \A k \in 1..Len(s) : Sent(means, s[k])
    PROVE  FlattenSeq([i \in 1..Len(s) |-> PartsOf(means, s[i])]) = F[Len(s) + 1]
<1>1. PICK n : n = Len(s)
    OBVIOUS
<1>2. PICK q : q = [i \in 1..n |-> PartsOf(means, s[i])]
    OBVIOUS
<1>3. Len(q) = n /\ \A i \in 1..n : q[i] = PartsOf(means, s[i])
    BY <1>1, <1>2
<1>4. CASE n = 0
  <2>1. q = <<>> /\ F[n + 1] = <<>>
    BY <1>2, <1>4 DEF Flat
  <2>2. FlattenSeq(q) = <<>>
    BY <1>3, <1>4, <2>1 DEF FlattenSeq
  <2> QED BY <1>1, <1>2, <2>1, <2>2
<1>5. CASE n # 0
  <2> DEFINE P(f) == f = [i \in 1..n |-> IF i = 1 THEN q[i] ELSE f[i - 1] \o q[i]]
  <2>1. FlattenSeq(q) = (CHOOSE f : P(f))[n]
    BY <1>1, <1>3, <1>5 DEF FlattenSeq
  <2>2. PICK g : g = [i \in 1..n |-> F[i + 1]]
    OBVIOUS
  <2>3. ASSUME NEW i \in 1..n PROVE g[i] = IF i = 1 THEN q[i] ELSE g[i - 1] \o q[i]
    <3>1. g[i] = F[i] \o q[i]
      BY <1>1, <1>3, <2>2 DEF Flat
    <3>2. CASE i = 1
      <4>1. F[i] = <<>> /\ Listed(q[i])
        BY <1>1, <1>3, <3>2, PartsListed DEF Flat
      <4> QED BY <3>1, <3>2, <4>1, Joined
    <3>3. CASE i # 1
      <4>1. i - 1 \in 1..n /\ (i - 1) + 1 = i
        BY <1>1, <3>3
      <4>2. g[i - 1] = F[i]
        BY <2>2, <4>1
      <4> QED BY <3>1, <3>3, <4>2
    <3> QED BY <3>2, <3>3
  <2>4. P(g)
    BY <2>2, <2>3
  <2>5. ASSUME NEW f, P(f) PROVE f[n] = g[n]
    <3> DEFINE S == {k \in Nat : k + 1 <= n => f[k + 1] = g[k + 1]}
    <3>1. 0 \in S
      BY <1>1, <1>5, <2>3, <2>5
    <3>2. ASSUME NEW k \in Nat, k \in S PROVE k + 1 \in S
      <4> SUFFICES ASSUME k + 1 + 1 <= n PROVE f[k + 1 + 1] = g[k + 1 + 1]
        OBVIOUS
      <4>1. PICK i : i = k + 1 + 1
        OBVIOUS
      <4>2. i \in 1..n /\ i # 1 /\ i - 1 = k + 1
        BY <1>1, <4>1
      <4>3. f[i] = f[i - 1] \o q[i] /\ g[i] = g[i - 1] \o q[i]
        BY <2>3, <2>5, <4>2
      <4>4. f[k + 1] = g[k + 1]
        <5>1. k + 1 <= n
          BY <1>1
        <5> QED BY <3>2, <5>1
      <4> QED BY <4>1, <4>2, <4>3, <4>4
    <3>3. Nat \subseteq S
      <4> HIDE DEF S, P
      <4> QED BY <3>1, <3>2, Counting
    <3>4. n - 1 \in S /\ (n - 1) + 1 = n
      BY <1>1, <1>5, <3>3
    <3> QED BY <3>4
  <2>6. P(CHOOSE f : P(f))
    <3> HIDE DEF P
    <3> QED BY <2>4
  <2>7. (CHOOSE f : P(f))[n] = g[n]
    <3> HIDE DEF P
    <3> QED BY <2>5, <2>6
  <2>8. g[n] = F[n + 1]
    BY <1>1, <1>5, <2>2
  <2> QED BY <1>1, <1>2, <2>1, <2>7, <2>8
<1> QED BY <1>4, <1>5

----------------------------------------------------------------------------
(* How an aggregate comes apart. *)

DeltaOf(m, i) ==
    IF i = 0 THEN 0 - 1
    ELSE IF m.ts < m.subs[1].ts THEN m.ts - m.subs[i].ts ELSE m.ts - m.subs[1].ts

LEMMA DeltasAre ==
    ASSUME NEW means, NEW m, Sent(means, m), NEW i \in 1..Len(m.subs)
    PROVE  Deltas(m)[i] = DeltaOf(m, i)
<1>1. PICK n : n = Len(m.subs)
    OBVIOUS
<1>2. n \in Nat /\ m.ts \in Nat /\ \A k \in 1..n : m.subs[k].ts \in Nat /\ m.subs[1].ts <= m.subs[k].ts
  <2>1. n \in Nat /\ m.ts \in Nat /\ m.subs \in Seq(SubMessage)
    BY <1>1 DEF Sent
  <2>2. ASSUME NEW k \in 1..n PROVE m.subs[k].ts \in Nat /\ m.subs[1].ts <= m.subs[k].ts
    <3>1. m.subs[k] \in SubMessage
      BY <1>1, <2>1, ElementOfSeq
    <3>2. 1 \in 1..n /\ 1 <= k
      BY <2>1, <2>2
    <3> QED BY <1>1, <3>1, <3>2 DEF Sent, SubMessage
  <2> QED BY <2>1, <2>2
<1> DEFINE Step1(f, k) == IF f[k - 1] < 0 THEN m.ts - m.subs[k].ts ELSE f[k - 1]
           P(f) == f = [k \in 0..n |-> IF k = 0 THEN 0 - 1 ELSE Step1(f, k)]
<1>3. Deltas(m) = CHOOSE f : P(f)
    BY <1>1 DEF Deltas
<1>4. PICK g : g = [k \in 0..n |-> DeltaOf(m, k)]
    OBVIOUS
<1>5. ASSUME NEW k \in 0..n PROVE g[k] = IF k = 0 THEN 0 - 1 ELSE Step1(g, k)
  <2>1. CASE k = 0
    BY <1>4, <2>1 DEF DeltaOf
  <2>2. CASE k # 0
    <3>1. k \in 1..n /\ k - 1 \in 0..n
      BY <1>2, <2>2
    <3>2. g[k - 1] = DeltaOf(m, k - 1) /\ g[k] = DeltaOf(m, k)
      BY <1>4, <3>1
    <3>3. CASE k = 1
      <4>1. g[k - 1] = 0 - 1
        BY <3>2, <3>3 DEF DeltaOf
      <4>2. g[k] = m.ts - m.subs[1].ts
        BY <3>2, <3>3 DEF DeltaOf
      <4> QED BY <2>2, <3>3, <4>1, <4>2
    <3>4. CASE k # 1
      <4>1. k - 1 \in 1..n /\ k - 1 # 0 /\ 1 \in 1..n
        BY <1>2, <3>1, <3>4
      <4>2. CASE m.ts < m.subs[1].ts
        <5>1. g[k - 1] = m.ts - m.subs[k - 1].ts /\ g[k] = m.ts - m.subs[k].ts
          BY <2>2, <3>2, <4>1, <4>2 DEF DeltaOf
        <5>2. g[k - 1] < 0
          BY <1>2, <4>1, <4>2, <5>1
        <5> QED BY <2>2, <5>1, <5>2
      <4>3. CASE ~(m.ts < m.subs[1].ts)
        <5>1. g[k - 1] = m.ts - m.subs[1].ts /\ g[k] = m.ts - m.subs[1].ts
          BY <2>2, <3>2, <4>1, <4>3 DEF DeltaOf
        <5>2. ~(g[k - 1] < 0)
          BY <1>2, <4>1, <4>3, <5>1
        <5> QED BY <2>2, <5>1, <5>2
      <4> QED BY <4>2, <4>3
    <3> QED BY <3>3, <3>4
  <2> QED BY <2>1, <2>2
<1>6. P(g)
    BY <1>4, <1>5
<1>7. P(Deltas(m))
  <2> HIDE DEF P
  <2> QED BY <1>3, <1>6
<1>8. PICK d : d = Deltas(m)
    OBVIOUS
<1>9. ASSUME NEW k \in 0..n PROVE d[k] = IF k = 0 THEN 0 - 1 ELSE Step1(d, k)
    BY <1>7, <1>8
<1> DEFINE S == {k \in Nat : k <= n => d[k] = g[k]}
<1>10. 0 \in S
    BY <1>2, <1>5, <1>9
<1>11. ASSUME NEW k \in Nat, k \in S PROVE k + 1 \in S
  <2> SUFFICES ASSUME k + 1 <= n PROVE d[k + 1] = g[k + 1]
    OBVIOUS
  <2>1. k + 1 \in 0..n /\ k + 1 # 0 /\ (k + 1) - 1 = k /\ k <= n
    BY <1>2
  <2>2. d[k + 1] = Step1(d, k + 1) /\ g[k + 1] = Step1(g, k + 1)
    BY <1>5, <1>9, <2>1
  <2>3. d[k] = g[k]
    BY <1>11, <2>1
  <2> QED BY <2>1, <2>2, <2>3
<1>12. Nat \subseteq S
  <2> HIDE DEF S
  <2> QED BY <1>10, <1>11, Counting
<1>13. i \in Nat /\ i <= n /\ i \in 0..n
    BY <1>1, <1>2
<1>14. i \in S
  <2> HIDE DEF S
  <2> QED BY <1>12, <1>13
<1>15. d[i] = g[i]
    BY <1>13, <1>14
<1> QED BY <1>4, <1>8, <1>13, <1>15

Pending(msgs_) == [i \in 1..Len(msgs_) |-> GoPacket(msgs_[i])]

LEMMA AggregateParts ==
    ASSUME NEW m, Sent("Play", m), m.type = "aggregate", DOMAIN m = DOMAIN Blank
    PROVE  /\ Listed(OnAggregate(m)) /\ Pending(OnAggregate(m)) = PartsOf("Play", m)
           /\ \A i \in 1..Len(OnAggregate(m)) : OnAggregate(m)[i].type \in PartTypes
<1>1. PICK n : n = Len(m.subs)
    OBVIOUS
<1>2. PICK o : o = OnAggregate(m)
    OBVIOUS
<1>3. /\ n \in Nat /\ m.subs # <<>> /\ m.ts \in Nat
      /\ \A k \in 1..n : m.subs[k] \in SubMessage
  <2>1. m.subs \in Seq(SubMessage) /\ m.ts \in Nat /\ m.subs # <<>>
    BY DEF Sent
  <2>2. \A k \in 1..Len(m.subs) : m.subs[k] \in SubMessage
    BY <2>1, ElementOfSeq
  <2> QED BY <1>1, <2>1, <2>2
<1>4. Len(o) = n /\ Listed(o)
  <2>1. o = [i \in 1..n |-> o[i]]
    BY <1>1, <1>2 DEF OnAggregate
  <2>2. Len(o) = n
    BY <1>3, <2>1
  <2>3. o \in Seq(Range(o))
    BY <1>3, <2>1 DEF Range
  <2> QED BY <2>2, <2>3 DEF Listed
<1>5. ASSUME NEW i \in 1..n
      PROVE  /\ o[i].type = m.subs[i].type /\ o[i].id = m.id /\ o[i].sid = m.subs[i].sid
             /\ o[i].ts = m.subs[i].ts + Deltas(m)[i]
    BY <1>1, <1>2 DEF OnAggregate, Blank
<1>6. ASSUME NEW i \in 1..n
      PROVE  GoPacket(o[i]) = PartOf("Play", m, m.subs[i],
                                     IF m.ts < m.subs[1].ts THEN m.ts
                                     ELSE m.ts + (m.subs[i].ts - m.subs[1].ts))
  <2>1. Deltas(m)[i] = DeltaOf(m, i)
    BY <1>1, DeltasAre
  <2>2. 1 \in 1..n /\ i # 0
    BY <1>3
  <2>3. m.subs[i].ts \in Nat /\ m.subs[1].ts \in Nat
    BY <1>3, <2>2 DEF SubMessage
  <2>4. o[i].ts = IF m.ts < m.subs[1].ts THEN m.ts ELSE m.ts + (m.subs[i].ts - m.subs[1].ts)
    <3>1. CASE m.ts < m.subs[1].ts
      <4>1. DeltaOf(m, i) = m.ts - m.subs[i].ts
        BY <2>2, <3>1 DEF DeltaOf
      <4> QED BY <1>3, <1>5, <2>1, <2>3, <3>1, <4>1
    <3>2. CASE ~(m.ts < m.subs[1].ts)
      <4>1. DeltaOf(m, i) = m.ts - m.subs[1].ts
        BY <2>2, <3>2 DEF DeltaOf
      <4> QED BY <1>3, <1>5, <2>1, <2>3, <3>2, <4>1
    <3> QED BY <3>1, <3>2
  <2>5. GoPacket(o[i]) = [type |-> o[i].type, id |-> o[i].id,
                          ts |-> IF o[i].type = "script" THEN 0 ELSE o[i].ts, sid |-> o[i].sid]
    BY DEF GoPacket, GotPacket
  <2> QED BY <1>5, <2>4, <2>5 DEF PartOf, TimeOf
<1>7. Pending(o) = PartsOf("Play", m)
    BY <1>1, <1>3, <1>4, <1>6 DEF Pending, PartsOf
<1>8. ASSUME NEW i \in 1..n PROVE o[i].type \in PartTypes
    BY <1>3, <1>5 DEF SubMessage
<1> QED BY <1>2, <1>4, <1>7, <1>8

\* A medium that is no aggregate has one part: itself.
LEMMA OnePart ==
    ASSUME NEW means, NEW m, Sent(means, m), m.type # "aggregate"
    PROVE  PartsOf(means, m) = << IF means = "Play" THEN GoPacket(m) ELSE GotPacket(m) >>
<1>1. m.subs = <<>>
    BY DEF Sent
<1>2. CASE means = "Play"
  <2>1. GoPacket(m) = PartOf(means, m, m, m.ts)
    BY <1>2 DEF GoPacket, GotPacket, PartOf, TimeOf
  <2> QED BY <1>1, <1>2, <2>1 DEF PartsOf
<1>3. CASE means # "Play"
  <2>1. GotPacket(m) = PartOf(means, m, m, m.ts)
    BY <1>3 DEF GotPacket, PartOf, TimeOf
  <2> QED BY <1>1, <1>3, <2>1 DEF PartsOf
<1> QED BY <1>2, <1>3

\* The cache of the client.
LEMMA PendingTaken ==
    ASSUME NEW q, Listed(q), q # <<>>
    PROVE  Listed(Pending(q)) /\ Pending(q) = << GoPacket(Head(q)) >> \o Pending(Tail(q))
<1>1. PICK n, v : n = Len(q) /\ v = Tail(q)
    OBVIOUS
<1>2. /\ n \in Nat \ {0} /\ Len(v) = n - 1 /\ Listed(v) /\ Head(q) = q[1]
      /\ \A i \in 1..(n - 1) : v[i] = q[i + 1]
    BY <1>1, FrontTaken
<1>3. PICK p, r, h : p = Pending(q) /\ r = Pending(v) /\ h = << GoPacket(q[1]) >>
    OBVIOUS
<1>4. Len(p) = n /\ p \in Seq(Range(p)) /\ \A i \in 1..n : p[i] = GoPacket(q[i])
    BY <1>1, <1>2, <1>3 DEF Pending, Range
<1>5. Len(r) = n - 1 /\ r \in Seq(Range(r)) /\ \A i \in 1..(n - 1) : r[i] = GoPacket(v[i])
  <2>1. r = [i \in 1..(n - 1) |-> GoPacket(v[i])] /\ n - 1 \in Nat
    BY <1>2, <1>3 DEF Pending
  <2> QED BY <2>1 DEF Range
<1>6. Listed(h) /\ Len(h) = 1 /\ h[1] = GoPacket(q[1])
    BY <1>3, ListedTuples
<1>7. PICK w : w = h \o r
    OBVIOUS
<1>8. /\ Listed(w) /\ Len(w) = Len(h) + Len(r)
      /\ \A i \in 1..Len(h) : w[i] = h[i]
      /\ \A i \in 1..Len(r) : w[Len(h) + i] = r[i]
  <2>1. Listed(r) /\ Listed(h)
    BY <1>5, <1>6 DEF Listed
  <2>2. /\ Listed(h \o r) /\ Len(h \o r) = Len(h) + Len(r)
        /\ \A i \in 1..Len(h) : (h \o r)[i] = h[i]
        /\ \A i \in 1..Len(r) : (h \o r)[Len(h) + i] = r[i]
    BY <2>1, Joined
  <2> QED BY <1>7, <2>2
<1>9. Len(w) = n /\ \A i \in 1..n : w[i] = p[i]
  <2>1. Len(w) = n
    BY <1>2, <1>5, <1>6, <1>8
  <2>2. ASSUME NEW i \in 1..n PROVE w[i] = p[i]
    <3>1. CASE i = 1
      BY <1>4, <1>6, <1>8, <3>1
    <3>2. CASE i # 1
      <4>1. i - 1 \in 1..(n - 1) /\ 1 + (i - 1) = i
        BY <1>2, <3>2
      <4>2. w[1 + (i - 1)] = r[i - 1]
        BY <1>5, <1>6, <1>8, <4>1
      <4>3. r[i - 1] = GoPacket(v[i - 1]) /\ v[i - 1] = q[i]
        BY <1>2, <1>5, <4>1
      <4> QED BY <1>4, <4>1, <4>2, <4>3
    <3> QED BY <3>1, <3>2
  <2> QED BY <2>1, <2>2
<1>10. w = p
  <2>1. PICK T : T = Range(w) \cup Range(p)
    OBVIOUS
  <2>2. w \in Seq(T) /\ p \in Seq(T)
    BY <1>4, <1>8, <2>1 DEF Listed
  <2> QED BY <1>4, <1>9, <2>2, SeqEqual
<1> QED BY <1>1, <1>2, <1>3, <1>4, <1>7, <1>10 DEF Listed

----------------------------------------------------------------------------
(* The invariant of a session. *)

\* The messages on their way to a side, without what is left of the handshake.
ToServer == IF stage["server"] = "rtmp" THEN wire["server"]
            ELSE IF stage["server"] = "c2" /\ wire["server"] # <<>> THEN Tail(wire["server"])
            ELSE <<>>
ToClient == IF stage["client"] = "rtmp" THEN wire["client"] ELSE <<>>

\* How much of its script the client has done, and what the server waits for behind it.
Pos == Len(make.script) - Len(todo["client"])
Mode == Reached(make)[Pos]

FieldsOK == /\ DOMAIN todo = Sides /\ DOMAIN requests = Sides
            /\ DOMAIN tid = Sides /\ DOMAIN stream_id = Sides
ScriptOK == /\ Listed(todo["client"]) /\ Pos \in 0..Len(make.script)
            /\ \A i \in 1..Len(todo["client"]) : todo["client"][i] = make.script[Pos + i]

\* A request the client remembers is one of its own; one the server is to hear of is remembered.
Requested(m, pos, reqs) ==
    \A t \in DOMAIN reqs :
        /\ reqs[t] \in Remembers
        /\ \E i \in 1..pos : /\ Says(m.script[i])
                             /\ m.script[i].m.name = reqs[t] /\ m.script[i].m.tid = t
Known(m, reqs, x) ==
    m.own /\ x.name \in Remembers => x.tid \in DOMAIN reqs /\ reqs[x.tid] = x.name
\* What is on its way to the client: answers to what it remembers, and media once it is served.
Answering(m, reqs, mode, x) ==
    /\ x.name = "_result" => /\ x.value = "number" => x.id = ServerStream
                             /\ m.own => Right(reqs, x.tid, x.value)
    /\ IsMedia(x) => m.means = "Play" /\ mode = "serve"
RequestsOK ==
    /\ Requested(make, Pos, requests["client"])
    /\ Listed(ToServer) /\ \A i \in 1..Len(ToServer) : Known(make, requests["client"], ToServer[i])
AnswersOK ==
    /\ Listed(ToClient)
    /\ \A i \in 1..Len(ToClient) : Answering(make, requests["client"], Mode, ToClient[i])

\* Once the client has waited for the answer to createStream, it has the id of its stream.
Created(m, pos) ==
    \E i \in 1..pos : m.script[i].do = "expect" /\ m.script[i].class = "CreateStreamRes"
StreamOK == /\ stream_id["server"] = ServerStream
            /\ Created(make, Pos) => stream_id["client"] = ServerStream

\* The server's calls, and the messages it is to get before the client goes on, lead from what
\* it waits for to what it waits for behind the script so far.
Suits(m, mode) ==
    /\ mode = "serve" => m.means = "Play"
    /\ mode = "record" => m.means # "Play"
    /\ mode \in {"FMLEStart", "CreateStream", "Publish"} => m.means = "FMLEPublish"
    /\ mode = "refuse" => ~m.accepted
Follows(m, reqs, t, app, calls, w, to) ==
    \E mode \in Modes : Waits(m, reqs, t, app, mode, calls) /\ Suits(m, mode) /\ Chained(m, mode, w, to)
WaitsOK ==
    ~Over("server") => Follows(make, requests["client"], tid["server"], Application,
                               todo["server"], ToServer, Mode)

IdentifiedOK == identified \in {Unknown, [type |-> make.means, stream |-> make.stream]}

\* Media on their way to the side that gets them, while it is there.
Way == IF make.means = "Play" THEN ToClient ELSE ToServer
Arrives == ~Over(IF make.means = "Play" THEN "client" ELSE "server")
SentOK(means, s) == Listed(s) /\ \A i \in 1..Len(s) : Sent(means, s[i]) /\ DOMAIN s[i] = DOMAIN Blank
Cached(means, q) ==
    /\ Listed(q) /\ (q # <<>> => means = "Play")
    /\ \A i \in 1..Len(q) : q[i].type \in PartTypes
Arrived(means, s, q, g, w, open) ==
    \E c \in 0..Len(s) : \E F :
        Flat(means, s, F) /\ g \o Pending(q) = F[c + 1] /\ (open => Counted(s, w, c))
MediaOK == /\ SentOK(make.means, sent) /\ Cached(make.means, msgs) /\ Listed(got)
           /\ Arrived(make.means, sent, msgs, got, Way, Arrives)

SessionOK == /\ FieldsOK /\ ScriptOK /\ RequestsOK /\ AnswersOK /\ StreamOK /\ WaitsOK
             /\ IdentifiedOK /\ MediaOK
SessionInv == HandshakeInv /\ SessionOK

\* A make and its script.
LEMMA InOrder ==
    ASSUME HandshakeInv
    PROVE  /\ make \in Makes /\ Orderly(make) /\ Len(make.script) \in Nat
           /\ \A i \in 1..Len(make.script) :
                 CallInOrder(make, Reached(make)[i - 1], make.script[i])
<1>1. make \in Makes
    BY DEF HandshakeInv, StateOK
<1>2. Orderly(make)
    BY <1>1, OrderAssumption
<1> QED BY <1>1, <1>2 DEF Orderly

LEMMA ApplicationSame ==
    ASSUME make' = make PROVE Application' = Application
    BY DEF Application, Admit, SetWindowAckSize, SetPeerBandwidth, ResponseConnectApp,
           ResponseConnectReject, OnBwDone, ServerConnectApp, BandwidthCheckServed, Identify

----------------------------------------------------------------------------
(* What steps do to the messages on their way. *)

LEMMA ServerThrough ==
    ASSUME HandshakeInv
    PROVE  /\ stage["server"] = "rtmp" => stage["client"] = "rtmp" \/ Over("client")
           /\ stage["client"] = "rtmp" =>
                 \/ stage["server"] = "rtmp" \/ Over("server")
                 \/ stage["server"] = "c2" /\ wire["server"] # <<>>
           /\ Listed(wire["client"]) /\ Listed(wire["server"])
           /\ Listed(ToClient) /\ Listed(ToServer) /\ DOMAIN wire = Sides
<1>1. StateOK /\ ClientOK /\ ServerOK
    BY DEF HandshakeInv
<1>2. Listed(wire["client"]) /\ Listed(wire["server"]) /\ DOMAIN wire = Sides
    BY <1>1 DEF StateOK, Sides
<1>3. Listed(ToClient)
    BY <1>2, ListedStays DEF ToClient
<1>4. Listed(ToServer)
    BY <1>2, ListedStays DEF ToServer
<1>5. stage["server"] = "rtmp" => stage["client"] = "rtmp" \/ Over("client")
    BY <1>1 DEF StateOK, ClientOK, ServerOK, Ends, Over
<1>6. ASSUME stage["client"] = "rtmp"
      PROVE  \/ stage["server"] = "rtmp" \/ Over("server")
             \/ stage["server"] = "c2" /\ wire["server"] # <<>>
  <2>1. ClientAnswered # <<>> /\ ServerSaid # <<>>
    BY <1>1, <1>6 DEF ClientOK
  <2>2. stage["server"] # "c0c1"
    BY <1>1, <2>1 DEF ServerOK
  <2>3. stage["server"] = "c2" => wire["server"] # <<>>
    BY <1>1, <2>1 DEF ServerOK, AnswerComes
  <2> QED BY <1>1, <2>2, <2>3 DEF StateOK, Ends, Over
<1> QED BY <1>2, <1>3, <1>4, <1>5, <1>6

LEMMA SaidToServer ==
    ASSUME HandshakeInv, stage["client"] = "rtmp", ~Over("server"), stage' = stage, NEW x,
           wire' = [wire EXCEPT !["server"] = @ \o << x >>]
    PROVE  ToServer' = ToServer \o << x >> /\ ToClient' = ToClient
<1>1. /\ stage["server"] = "rtmp" \/ (stage["server"] = "c2" /\ wire["server"] # <<>>)
      /\ Listed(wire["server"]) /\ DOMAIN wire = Sides
    BY ServerThrough
<1>2. wire'["client"] = wire["client"] /\ wire'["server"] = wire["server"] \o << x >>
    BY <1>1 DEF Sides
<1>3. ToClient' = ToClient
    BY <1>2 DEF ToClient
<1>4. CASE stage["server"] = "rtmp"
    BY <1>2, <1>3, <1>4 DEF ToServer
<1>5. CASE stage["server"] = "c2" /\ wire["server"] # <<>>
  <2>1. PICK w, e : w = wire["server"] /\ e = << x >>
    OBVIOUS
  <2>2. Listed(w) /\ Listed(e) /\ w # <<>>
    BY <1>1, <1>5, <2>1, ListedStays
  <2>3. w \o e # <<>> /\ Tail(w \o e) = Tail(w) \o e
    BY <2>2, Joined
  <2> QED BY <1>2, <1>3, <1>5, <2>1, <2>3 DEF ToServer
<1> QED BY <1>1, <1>4, <1>5

LEMMA SaidToClient ==
    ASSUME HandshakeInv, stage["server"] = "rtmp", ~Over("client"), stage' = stage, NEW x,
           wire' = [wire EXCEPT !["client"] = @ \o << x >>]
    PROVE  ToClient' = ToClient \o << x >> /\ ToServer' = ToServer
<1>1. stage["client"] = "rtmp" /\ DOMAIN wire = Sides
    BY ServerThrough
<1>2. wire'["client"] = wire["client"] \o << x >> /\ wire'["server"] = wire["server"]
    BY <1>1 DEF Sides
<1> QED BY <1>1, <1>2 DEF ToClient, ToServer

LEMMA TakenByClient ==
    ASSUME HandshakeInv, stage["client"] = "rtmp", stage' = stage, Incoming("client"),
           Take("client", <<>>)
    PROVE  /\ ToClient # <<>> /\ Message("client") = Head(ToClient)
           /\ ToClient' = Tail(ToClient) /\ ToServer' = ToServer
<1>1. Listed(wire["server"]) /\ ToClient = wire["client"]
    BY ServerThrough DEF ToClient
<1>2. wire'["client"] = Tail(wire["client"]) /\ wire'["server"] = wire["server"] \o <<>>
    BY DEF Take, Sides
<1>3. wire["server"] \o <<>> = wire["server"]
    BY <1>1, ListedStays, Joined
<1> QED BY <1>1, <1>2, <1>3 DEF ToClient, ToServer, Incoming, Message

LEMMA TakenByServer ==
    ASSUME HandshakeInv, stage["server"] = "rtmp", stage' = stage, Incoming("server"),
           NEW ms, Listed(ms), Take("server", ms)
    PROVE  /\ ToServer # <<>> /\ Message("server") = Head(ToServer)
           /\ ToServer' = Tail(ToServer)
           /\ ToClient' = IF Over("client") THEN <<>> ELSE ToClient \o ms
           /\ Over("client") => ToClient = <<>>
<1>1. ToServer = wire["server"] /\ (stage["client"] = "rtmp" \/ Over("client"))
    BY ServerThrough DEF ToServer
<1>2. wire'["server"] = Tail(wire["server"]) /\ wire'["client"] = wire["client"] \o ms
    BY DEF Take, Sides
<1>3. Over("client") => stage["client"] # "rtmp"
    BY DEF Over
<1> QED BY <1>1, <1>2, <1>3 DEF ToClient, ToServer, Incoming, Message

----------------------------------------------------------------------------
(* Steps that say and take nothing. *)

Quiet ==
    /\ make' = make /\ requests' = requests /\ tid' = tid /\ stream_id' = stream_id
    /\ identified' = identified /\ msgs' = msgs /\ sent' = sent /\ got' = got
    /\ DOMAIN todo' = Sides /\ todo'["client"] = todo["client"]
    /\ todo'["server"] = todo["server"] \/ Over("server")'
    /\ Over("client") => Over("client")'
    /\ Over("server") => Over("server")'
    /\ ToServer' = ToServer \/ (ToServer' = <<>> /\ Over("server")')
    /\ ToClient' = ToClient \/ (ToClient' = <<>> /\ Over("client")')

LEMMA NothingListed == \A w : w = <<>> => Listed(w) /\ 1..Len(w) = {}
    BY ListedStays

LEMMA QuietOK ==
    ASSUME HandshakeInv, SessionOK, Quiet PROVE SessionOK'
<1>1. /\ make' = make /\ requests' = requests /\ tid' = tid /\ stream_id' = stream_id
      /\ identified' = identified /\ msgs' = msgs /\ sent' = sent /\ got' = got
      /\ DOMAIN todo' = Sides /\ todo'["client"] = todo["client"]
    BY DEF Quiet
<1>2. /\ FieldsOK /\ ScriptOK /\ RequestsOK /\ AnswersOK /\ StreamOK /\ WaitsOK
      /\ IdentifiedOK /\ MediaOK
    BY DEF SessionOK
<1>3. Pos' = Pos /\ Mode' = Mode /\ Application' = Application
  <2>1. Pos' = Pos
    BY <1>1 DEF Pos
  <2> QED BY <1>1, <2>1, ApplicationSame DEF Mode
<1>4. FieldsOK'
    BY <1>1, <1>2 DEF FieldsOK
<1>5. ScriptOK'
    BY <1>1, <1>2, <1>3 DEF ScriptOK
<1>6. RequestsOK'
  <2>1. Requested(make, Pos, requests["client"])'
    BY <1>1, <1>2, <1>3 DEF RequestsOK
  <2>2. CASE ToServer' = ToServer
    BY <1>1, <1>2, <2>1, <2>2 DEF RequestsOK
  <2>3. CASE ToServer' = <<>>
    BY <2>1, <2>3, NothingListed DEF RequestsOK
  <2> QED BY <2>2, <2>3 DEF Quiet
<1>7. AnswersOK'
  <2>1. CASE ToClient' = ToClient
    BY <1>1, <1>2, <1>3, <2>1 DEF AnswersOK
  <2>2. CASE ToClient' = <<>>
    BY <2>2, NothingListed DEF AnswersOK
  <2> QED BY <2>1, <2>2 DEF Quiet
<1>8. StreamOK'
    BY <1>1, <1>2, <1>3 DEF StreamOK
<1>9. WaitsOK'
  <2>1. SUFFICES ASSUME ~Over("server")' PROVE Follows(make, requests["client"], tid["server"],
                            Application, todo["server"], ToServer, Mode)'
    BY DEF WaitsOK
  <2>2. ~Over("server") /\ ToServer' = ToServer /\ todo'["server"] = todo["server"]
    BY <2>1 DEF Quiet
  <2>3. Follows(make, requests["client"], tid["server"], Application, todo["server"], ToServer, Mode)
    BY <1>2, <2>2 DEF WaitsOK
  <2> QED BY <1>1, <1>3, <2>2, <2>3
<1>10. IdentifiedOK'
    BY <1>1, <1>2 DEF IdentifiedOK
<1>11. MediaOK'
  <2>1. Arrives' => Arrives /\ Way' = Way
    BY <1>1 DEF Arrives, Way, Quiet
  <2>2. Arrived(make.means, sent, msgs, got, Way, Arrives)
    BY <1>2 DEF MediaOK
  <2>3. Arrived(make.means, sent, msgs, got, Way, Arrives)'
    BY <1>1, <2>1, <2>2 DEF Arrived
  <2> QED BY <1>1, <1>2, <2>3 DEF MediaOK
<1> QED BY <1>4, <1>5, <1>6, <1>7, <1>8, <1>9, <1>10, <1>11 DEF SessionOK

----------------------------------------------------------------------------
(* Steps of the handshake, and those that end a side. *)

LEMMA WriteC0C1Quiet ==
    ASSUME HandshakeInv, WriteC0C1
    PROVE  /\ \A s \in Sides : Over(s)' = Over(s)
           /\ ToServer' = ToServer /\ ToClient' = ToClient
           /\ \A s \in Sides : stage'[s] = "failed" => stage[s] = "failed"
<1>1. StateOK /\ ClientOK /\ ServerOK
    BY DEF HandshakeInv
<1>2. stage["client"] = "c0c1" /\ stage' = [stage EXCEPT !["client"] = "s0s1s2"]
    BY DEF WriteC0C1, Enter
<1>3. stage'["client"] = "s0s1s2" /\ stage'["server"] = stage["server"]
    BY <1>1, <1>2 DEF StateOK, Sides
<1>4. ClientSaid = <<>>
    BY <1>1, <1>2 DEF ClientOK
<1>5. ServerHeard = <<>>
  <2>1. C0C1 # <<>>
    BY PartsWritten
  <2> QED BY <1>1, <1>4, <2>1 DEF ServerOK
<1>6. stage["server"] \notin {"c2", "rtmp"}
    BY <1>1, <1>5 DEF ServerOK
<1>7. ToServer' = ToServer /\ ToClient' = ToClient
    BY <1>2, <1>3, <1>6 DEF ToServer, ToClient
<1> QED BY <1>2, <1>3, <1>7 DEF Over, Sides

LEMMA ReadC0C1Quiet ==
    ASSUME HandshakeInv, ReadC0C1
    PROVE  /\ \A s \in Sides : Over(s) => Over(s)'
           /\ ToServer' = ToServer /\ ToClient' = ToClient
           /\ \A s \in Sides : stage'[s] = "failed" => stage[s] = "failed" \/ ~make.plain
<1>1. StateOK /\ ClientOK /\ ServerOK
    BY DEF HandshakeInv
<1>2. stage["server"] = "c0c1" /\ Readable("server", "c0c1")
    BY DEF ReadC0C1
<1>3. Read("server", "c0c1") = C0C1 /\ Rest("server", "c0c1") = <<>>
    BY <1>2, C0C1Read
<1>4. ServerSaid = <<>> /\ stage["client"] # "rtmp"
    BY <1>1, <1>2 DEF ClientOK, ServerOK
<1>5. CASE Answered(C0C1)
  <2>1. /\ stage' = [stage EXCEPT !["server"] = "c2"]
        /\ wire' = [s \in Sides |-> IF s = "server" THEN <<>> ELSE wire[s] \o S0S1S2(C0C1)]
    BY <1>3, <1>5 DEF ReadC0C1, Enter
  <2>2. /\ stage'["server"] = "c2" /\ wire'["server"] = <<>>
        /\ stage'["client"] = stage["client"]
    BY <1>1, <2>1 DEF StateOK, Sides
  <2>3. ToServer' = ToServer /\ ToClient' = ToClient
    BY <1>2, <1>4, <2>2 DEF ToServer, ToClient
  <2> QED BY <1>2, <2>2, <2>3 DEF Over, Sides
<1>6. CASE ~Answered(C0C1)
  <2>1. stage' = [stage EXCEPT !["server"] = IF try["server"] = "complex" THEN "c0c1" ELSE "failed"]
    BY <1>3, <1>6 DEF ReadC0C1, Enter
  <2>2. /\ stage'["server"] = IF try["server"] = "complex" THEN "c0c1" ELSE "failed"
        /\ stage'["client"] = stage["client"]
    BY <1>1, <2>1 DEF StateOK, Sides
  <2>3. ToServer' = ToServer /\ ToClient' = ToClient
    BY <1>2, <1>4, <2>2 DEF ToServer, ToClient
  <2>4. stage'["server"] = "failed" => ~make.plain
    <3>1. SUFFICES ASSUME try["server"] # "complex" PROVE ~make.plain
      BY <2>2
    <3>2. try["server"] = "simple"
      BY <1>1, <1>2, <3>1 DEF ServerOK, FirstTry
    <3>3. C0C1[1].plain = make.plain
      BY DEF C0C1
    <3> QED BY <1>6, <3>2, <3>3 DEF Answered
  <2> QED BY <1>2, <2>2, <2>3, <2>4 DEF Over, Sides
<1> QED BY <1>5, <1>6

LEMMA ReadS0S1S2Quiet ==
    ASSUME HandshakeInv, ReadS0S1S2
    PROVE  /\ \A s \in Sides : Over(s)' = Over(s)
           /\ ToServer' = ToServer /\ ToClient' = ToClient
           /\ \A s \in Sides : stage'[s] = "failed" => stage[s] = "failed"
<1>1. StateOK /\ ClientOK /\ ServerOK
    BY DEF HandshakeInv
<1>2. stage["client"] = "s0s1s2" /\ Readable("client", "s0s1s2")
    BY DEF ReadS0S1S2
<1>3. ClientHeard = <<>> /\ ClientAnswered = <<>> /\ wire["client"] = ServerSaid
    BY <1>1, <1>2 DEF ClientOK
<1>4. ~HasRead("client", "s0s1s2") /\ Len(ServerSaid) >= 3
    BY <1>2, <1>3 DEF Readable, HasRead, ClientHeard, Blocks
<1>5. ServerSaid # <<>> /\ ServerSaid = S0S1S2(C0C1)
    BY <1>1, <1>4 DEF ServerOK
<1>6. PICK x, y : ServerSaid = << [k |-> "s0", plain |-> TRUE], x, y >>
    BY <1>5 DEF S0S1S2
<1>7. Read("client", "s0s1s2") = ServerSaid /\ Rest("client", "s0s1s2") = <<>>
  <2>1. /\ Read("client", "s0s1s2") = SubSeq(ServerSaid, 1, 3)
        /\ Rest("client", "s0s1s2") = SubSeq(ServerSaid, 4, Len(ServerSaid))
    BY <1>3, <1>4 DEF Read, Rest, Blocks
  <2>2. Listed(ServerSaid)
    BY <1>6, ListedStays
  <2>3. Len(ServerSaid) = 3 /\ 3 + 1 = 4
    BY <1>6
  <2>4. SubSeq(ServerSaid, 1, 3) = ServerSaid /\ SubSeq(ServerSaid, 3 + 1, 3) = <<>>
    BY <2>2, <2>3, Whole
  <2> QED BY <2>1, <2>3, <2>4
<1>8. ServerSaid[1].plain
    BY <1>6
<1>9. PICK z : C2(ServerSaid) = << z >>
    BY PartsWritten
<1>10. /\ stage' = [stage EXCEPT !["client"] = "rtmp"]
       /\ wire' = [s \in Sides |-> IF s = "client" THEN <<>> ELSE wire[s] \o << z >>]
    BY <1>7, <1>8, <1>9 DEF ReadS0S1S2, Enter
<1>11. /\ wire'["client"] = <<>> /\ wire'["server"] = wire["server"] \o << z >>
       /\ stage'["client"] = "rtmp" /\ stage'["server"] = stage["server"]
    BY <1>1, <1>10 DEF StateOK, Sides
<1>12. stage["server"] # "rtmp" /\ (stage["server"] = "c2" => wire["server"] = <<>>)
    BY <1>1, <1>3 DEF ServerOK, AnswerComes
<1>13. ToServer' = ToServer
  <2>1. ToServer = <<>>
    BY <1>12 DEF ToServer
  <2>2. <<>> \o << z >> = << z >> /\ Tail(<< z >>) = <<>>
    OBVIOUS
  <2>3. stage'["server"] = "c2" => wire'["server"] = << z >>
    BY <1>11, <1>12, <2>2
  <2> QED BY <1>11, <1>12, <2>1, <2>2, <2>3 DEF ToServer
<1>14. ToClient' = ToClient
    BY <1>2, <1>11 DEF ToClient
<1> QED BY <1>2, <1>11, <1>13, <1>14 DEF Over, Sides

LEMMA ReadC2Quiet ==
    ASSUME HandshakeInv, ReadC2
    PROVE  /\ \A s \in Sides : Over(s)' = Over(s)
           /\ ToServer' = ToServer /\ ToClient' = ToClient
           /\ \A s \in Sides : stage'[s] = "failed" => stage[s] = "failed"
<1>1. StateOK /\ ClientOK /\ ServerOK
    BY DEF HandshakeInv
<1>2. stage["server"] = "c2" /\ Readable("server", "c2")
    BY DEF ReadC2
<1>3. ServerHeardAnswer = <<>>
    BY <1>1, <1>2 DEF ServerOK
<1>4. ~HasRead("server", "c2") /\ Len(wire["server"]) >= 1
    BY <1>2, <1>3 DEF Readable, HasRead, ServerHeardAnswer, Blocks
<1>5. PICK w : w = wire["server"]
    OBVIOUS
<1>6. Listed(w) /\ w # <<>>
    BY <1>1, <1>4, <1>5 DEF StateOK, Sides
<1>7. Rest("server", "c2") = SubSeq(w, 2, Len(w))
    BY <1>4, <1>5 DEF Rest, Blocks
<1>8. SubSeq(w, 2, Len(w)) = Tail(w)
    BY <1>6, HeadAndTail DEF Listed
<1>9. /\ stage' = [stage EXCEPT !["server"] = "rtmp"]
      /\ wire' = [wire EXCEPT !["server"] = Tail(w)]
    BY <1>7, <1>8 DEF ReadC2, Enter
<1>10. /\ wire'["client"] = wire["client"] /\ wire'["server"] = Tail(w)
       /\ stage'["client"] = stage["client"] /\ stage'["server"] = "rtmp"
    BY <1>1, <1>9 DEF StateOK, Sides
<1>11. ToServer' = ToServer /\ ToClient' = ToClient
    BY <1>2, <1>5, <1>6, <1>10 DEF ToServer, ToClient
<1> QED BY <1>2, <1>10, <1>11 DEF Over, Sides

\* A side that ends does not get what is on its way to it.
LEMMA EndQuiet ==
    ASSUME HandshakeInv, NEW s \in Sides, NEW end \in Ends, Enter(s, end), wire' = wire
    PROVE  /\ \A p \in Sides : Over(p) => Over(p)'
           /\ Over(s)'
           /\ ToServer' = ToServer \/ (ToServer' = <<>> /\ Over("server")')
           /\ ToClient' = ToClient \/ (ToClient' = <<>> /\ Over("client")')
           /\ \A p \in Sides : stage'[p] = "failed" => stage[p] = "failed" \/ end = "failed"
<1>1. DOMAIN stage = Sides
    BY DEF HandshakeInv, StateOK
<1>2. stage'[s] = end /\ \A p \in Sides \ {s} : stage'[p] = stage[p]
    BY <1>1 DEF Enter
<1>3. CASE s = "client"
    BY <1>2, <1>3 DEF Sides, Over, Ends, ToServer, ToClient
<1>4. CASE s = "server"
    BY <1>2, <1>4 DEF Sides, Over, Ends, ToServer, ToClient
<1> QED BY <1>3, <1>4 DEF Sides

LEMMA QuietSteps ==
    ASSUME HandshakeInv, SessionOK,
           \/ Shake \/ Stay \/ UNCHANGED sessionVars \/ Close
           \/ \E s \in Sides : Lose(s) \/ Crash(s)
    PROVE  /\ SessionOK'
           /\ \A s \in Sides : stage'[s] = "failed" => stage[s] = "failed" \/ ~make.plain
<1>1. FieldsOK
    BY DEF SessionOK
<1>2. CASE Shake
  <2>1. /\ make' = make /\ UNCHANGED <<todo, requests, tid, stream_id, identified, msgs, sent, got>>
    BY <1>2 DEF Shake, HandshakeNext, WriteC0C1, ReadC0C1, ReadS0S1S2, ReadC2, ReadFails
  <2>2. /\ \A s \in Sides : Over(s) => Over(s)'
        /\ ToServer' = ToServer \/ (ToServer' = <<>> /\ Over("server")')
        /\ ToClient' = ToClient \/ (ToClient' = <<>> /\ Over("client")')
        /\ \A s \in Sides : stage'[s] = "failed" => stage[s] = "failed" \/ ~make.plain
    <3>1. ASSUME NEW s \in Sides, ReadFails(s)
          PROVE  Enter(s, "lost") /\ wire' = wire /\ "lost" \in Ends /\ "lost" # "failed"
      BY <3>1 DEF ReadFails, Ends
    <3>2. CASE \E s \in Sides : ReadFails(s)
      BY <3>1, <3>2, EndQuiet
    <3> QED BY <1>2, <3>2, WriteC0C1Quiet, ReadC0C1Quiet, ReadS0S1S2Quiet, ReadC2Quiet
            DEF Shake, HandshakeNext
  <2>3. Quiet
    BY <1>1, <2>1, <2>2 DEF Quiet, FieldsOK, Sides
  <2> QED BY <2>2, <2>3, QuietOK
<1>3. CASE Stay \/ UNCHANGED sessionVars
  <2>1. UNCHANGED sessionVars
    BY <1>3 DEF Stay
  <2>2. ToServer' = ToServer /\ ToClient' = ToClient /\ \A s \in Sides : Over(s)' = Over(s)
    BY <2>1 DEF sessionVars, hsVars, ToServer, ToClient, Over
  <2>3. Quiet
    BY <1>1, <2>1, <2>2 DEF Quiet, FieldsOK, Sides, sessionVars, hsVars
  <2> QED BY <2>1, <2>3, QuietOK DEF sessionVars, hsVars
<1>4. CASE Close
  <2>1. /\ Enter("server", "closed") /\ wire' = wire /\ make' = make
        /\ todo' = [todo EXCEPT !["server"] = Tail(@)]
        /\ UNCHANGED <<requests, tid, stream_id, identified, msgs, sent, got>>
    BY <1>4 DEF Close, Same, Continue
  <2>2. "server" \in Sides /\ "closed" \in Ends /\ "closed" # "failed"
    BY DEF Sides, Ends
  <2>3. /\ \A p \in Sides : Over(p) => Over(p)'
        /\ Over("server")'
        /\ ToServer' = ToServer \/ (ToServer' = <<>> /\ Over("server")')
        /\ ToClient' = ToClient \/ (ToClient' = <<>> /\ Over("client")')
        /\ \A p \in Sides : stage'[p] = "failed" => stage[p] = "failed"
    BY <2>1, <2>2, EndQuiet
  <2>4. DOMAIN todo' = Sides /\ todo'["client"] = todo["client"]
    BY <1>1, <2>1 DEF FieldsOK, Sides
  <2>5. Quiet
    BY <2>1, <2>3, <2>4 DEF Quiet, Sides
  <2> QED BY <2>3, <2>5, QuietOK
<1>5. ASSUME NEW s \in Sides, Lose(s) \/ Crash(s)
      PROVE  /\ SessionOK'
             /\ \A p \in Sides : stage'[p] = "failed" => stage[p] = "failed"
  <2>1. /\ Enter(s, "lost") /\ wire' = wire /\ make' = make
        /\ UNCHANGED <<todo, requests, tid, stream_id, identified, msgs, sent, got>>
    BY <1>5 DEF Lose, Crash, Same
  <2>2. "lost" \in Ends /\ "lost" # "failed"
    BY DEF Ends
  <2>3. /\ \A p \in Sides : Over(p) => Over(p)'
        /\ ToServer' = ToServer \/ (ToServer' = <<>> /\ Over("server")')
        /\ ToClient' = ToClient \/ (ToClient' = <<>> /\ Over("client")')
        /\ \A p \in Sides : stage'[p] = "failed" => stage[p] = "failed"
    BY <2>1, <2>2, EndQuiet
  <2>4. Quiet
    BY <1>1, <2>1, <2>3 DEF Quiet, FieldsOK, Sides
  <2> QED BY <2>3, <2>4, QuietOK
<1> QED BY <1>2, <1>3, <1>4, <1>5

----------------------------------------------------------------------------
(* The client says the next of its script. *)

LEMMA ScriptStep ==
    ASSUME HandshakeInv, SessionOK, todo["client"] # <<>>
    PROVE  /\ Pos \in Nat /\ Pos + 1 \in 1..Len(make.script) /\ Mode \in Modes
           /\ Head(todo["client"]) = make.script[Pos + 1]
           /\ CallInOrder(make, Mode, Head(todo["client"]))
           /\ make' = make /\ todo'["client"] = Tail(todo["client"]) =>
                 ScriptOK' /\ Pos' = Pos + 1 /\ Mode' = NextMode(make, Mode, Pos + 1)
<1>1. /\ Listed(todo["client"]) /\ Pos \in 0..Len(make.script)
      /\ \A i \in 1..Len(todo["client"]) : todo["client"][i] = make.script[Pos + i]
    BY DEF SessionOK, ScriptOK
<1>2. Len(make.script) \in Nat
    BY InOrder
<1>3. PICK w, n, p : w = todo["client"] /\ n = Len(make.script) /\ p = Pos
    OBVIOUS
<1>4. /\ Len(w) \in Nat \ {0} /\ Listed(Tail(w)) /\ Len(Tail(w)) = Len(w) - 1 /\ Head(w) = w[1]
      /\ \A i \in 1..Len(Tail(w)) : Tail(w)[i] = w[i + 1]
    BY <1>1, <1>3, FrontTaken
<1>5. n \in Nat /\ p \in 0..n /\ p = n - Len(w)
    BY <1>1, <1>2, <1>3 DEF Pos
<1>6. p \in Nat /\ p + 1 \in 1..n
  <2>1. PICK l \in Nat \ {0} : l = Len(w)
    BY <1>4
  <2>2. p = n - l
    BY <1>5, <2>1
  <2> QED BY <1>5, <2>2
<1>7. Head(w) = make.script[p + 1]
  <2>1. 1 \in 1..Len(w)
    BY <1>4
  <2> QED BY <1>1, <1>3, <1>4, <2>1
<1>8. Mode \in Modes
    BY <1>1, <1>2, ReachedMode DEF Mode
<1>9. CallInOrder(make, Mode, Head(w))
  <2>1. (p + 1) - 1 = p
    BY <1>6
  <2>2. CallInOrder(make, Reached(make)[(p + 1) - 1], make.script[p + 1])
    BY <1>3, <1>6, InOrder
  <2> QED BY <1>3, <1>7, <2>1, <2>2 DEF Mode
<1>10. ASSUME make' = make, todo'["client"] = Tail(todo["client"])
       PROVE  ScriptOK' /\ Pos' = Pos + 1 /\ Mode' = NextMode(make, Mode, Pos + 1)
  <2>1. Pos' = n - Len(Tail(w))
    BY <1>3, <1>10 DEF Pos
  <2>2. Pos' = p + 1
    <3>1. PICK l \in Nat \ {0} : l = Len(w)
      BY <1>4
    <3>2. Pos' = n - (l - 1) /\ p = n - l
      BY <1>4, <1>5, <2>1, <3>1
    <3> QED BY <1>5, <3>2
  <2>3. ASSUME NEW i \in 1..Len(Tail(w)) PROVE Tail(w)[i] = make.script[p + 1 + i]
    <3>1. i + 1 \in 1..Len(w) /\ p + (i + 1) = p + 1 + i
      BY <1>4, <1>6
    <3>2. w[i + 1] = make.script[p + (i + 1)]
      BY <1>1, <1>3, <3>1
    <3> QED BY <1>4, <3>1, <3>2
  <2>4. ScriptOK'
    BY <1>3, <1>4, <1>6, <1>10, <2>2, <2>3 DEF ScriptOK
  <2>5. (p + 1) - 1 = p
    BY <1>6
  <2>6. Reached(make)[p + 1] = NextMode(make, Reached(make)[(p + 1) - 1], p + 1)
    BY <1>2, <1>3, <1>6, ReachedIs
  <2> QED BY <1>3, <1>10, <2>2, <2>4, <2>5, <2>6 DEF Mode
<1> QED BY <1>3, <1>6, <1>7, <1>8, <1>9, <1>10

LEMMA SaidPacket ==
    ASSUME NEW m, NEW mode, NEW c, NEW x, NEW sid, ClientPacket(m, c), Takes(m, mode, c),
           x \in {c, [c EXCEPT !.sid = sid]}
    PROVE  /\ x.name = c.name /\ x.tid = c.tid
           /\ Heard(m, mode, x) = Heard(m, mode, c)
           /\ ClientPacket(m, x) /\ Takes(m, mode, x) /\ ~IsMedia(x) /\ x.name # "_result"
<1>1. /\ x.name = c.name /\ x.tid = c.tid /\ x.type = c.type
      /\ x.stream = c.stream /\ DOMAIN x = DOMAIN Blank
    BY DEF ClientPacket, Blank
<1>2. Class(x) = Class(c)
    BY <1>1 DEF Class
<1>3. Heard(m, mode, x) = Heard(m, mode, c)
    BY <1>1, <1>2 DEF Heard
<1>4. ClientPacket(m, x)
    BY <1>1, <1>2 DEF ClientPacket
<1>5. Takes(m, mode, x)
    BY <1>1, <1>2 DEF Takes
<1>6. ~IsMedia(x)
    BY <1>4 DEF ClientPacket, IsMedia, PartTypes
<1> QED BY <1>1, <1>3, <1>4, <1>5, <1>6 DEF ClientPacket

\* What remains true of requests and answers when the client says more.
Remembered(reqs, x) ==
    IF x.name \notin Remembers THEN reqs
    ELSE [t \in DOMAIN reqs \cup {x.tid} |-> IF t = x.tid THEN x.name ELSE reqs[t]]

LEMMA RequestsGrow ==
    ASSUME NEW m, Orderly(m), Len(m.script) \in Nat, NEW pos \in Nat, pos + 1 \in 1..Len(m.script),
           NEW reqs, Requested(m, pos, reqs), NEW x, Says(m.script[pos + 1]),
           x.name = m.script[pos + 1].m.name, x.tid = m.script[pos + 1].m.tid
    PROVE  /\ Requested(m, pos + 1, Remembered(reqs, x))
           /\ Grows(m, reqs, Remembered(reqs, x))
           /\ Known(m, Remembered(reqs, x), x)
<1>1. PICK r : r = Remembered(reqs, x)
    OBVIOUS
<1>2. Requested(m, pos + 1, r)
  <2>1. SUFFICES ASSUME NEW t \in DOMAIN r
                 PROVE  /\ r[t] \in Remembers
                        /\ \E i \in 1..(pos + 1) : /\ Says(m.script[i])
                              /\ m.script[i].m.name = r[t] /\ m.script[i].m.tid = t
    BY DEF Requested
  <2>2. CASE x.name \in Remembers /\ t = x.tid
    <3>1. r[t] = x.name /\ pos + 1 \in 1..(pos + 1)
      BY <1>1, <2>1, <2>2 DEF Remembered
    <3> QED BY <2>2, <3>1
  <2>3. CASE ~(x.name \in Remembers /\ t = x.tid)
    <3>1. t \in DOMAIN reqs /\ r[t] = reqs[t]
      BY <1>1, <2>1, <2>3 DEF Remembered
    <3>2. PICK i \in 1..pos : /\ Says(m.script[i])
                              /\ m.script[i].m.name = reqs[t] /\ m.script[i].m.tid = t
      BY <3>1 DEF Requested
    <3>3. i \in 1..(pos + 1) /\ reqs[t] \in Remembers
      BY <3>1 DEF Requested
    <3> QED BY <3>1, <3>2, <3>3
  <2> QED BY <2>2, <2>3
<1>3. Grows(m, reqs, r)
  <2>1. SUFFICES ASSUME m.own, NEW t \in DOMAIN reqs PROVE t \in DOMAIN r /\ r[t] = reqs[t]
    BY DEF Grows
  <2>2. CASE x.name \in Remembers /\ t = x.tid
    <3>1. PICK i \in 1..pos : /\ Says(m.script[i])
                              /\ m.script[i].m.name = reqs[t] /\ m.script[i].m.tid = t
      BY DEF Requested
    <3>2. reqs[t] \in Remembers
      BY DEF Requested
    <3>3. DOMAIN m.script = 1..Len(m.script)
      BY DEF Orderly
    <3>4. i \in DOMAIN m.script /\ pos + 1 \in DOMAIN m.script
      BY <3>3
    <3>5. OneNamePerTid(m)
      BY <2>1 DEF Orderly
    <3>6. m.script[i].m.name = m.script[pos + 1].m.name
      BY <2>2, <3>1, <3>2, <3>4, <3>5 DEF OneNamePerTid
    <3> QED BY <1>1, <2>2, <3>1, <3>6 DEF Remembered
  <2>3. CASE ~(x.name \in Remembers /\ t = x.tid)
    BY <1>1, <2>3 DEF Remembered
  <2> QED BY <2>2, <2>3
<1>4. Known(m, r, x)
    BY <1>1 DEF Known, Remembered
<1> QED BY <1>1, <1>2, <1>3, <1>4

LEMMA AnsweringStays ==
    ASSUME NEW m, NEW reqs, NEW reqs2, NEW mode, NEW mode2, NEW x, Grows(m, reqs, reqs2),
           mode = "serve" => mode2 = "serve", Answering(m, reqs, mode, x)
    PROVE  Answering(m, reqs2, mode2, x)
    BY DEF Answering, Right, Grows

LEMMA KnownStays ==
    ASSUME NEW m, NEW reqs, NEW reqs2, NEW x, Grows(m, reqs, reqs2), Known(m, reqs, x)
    PROVE  Known(m, reqs2, x)
    BY DEF Known, Grows

\* Media are passed by what is none.
LEMMA MediaPasses ==
    ASSUME HandshakeInv, MediaOK, make' = make, UNCHANGED <<sent, msgs, got>>,
           Arrives' => /\ Arrives
                       /\ \/ Way' = Way
                          \/ \E x : ~IsMedia(x) /\ Way' = Way \o << x >>
                          \/ Way # <<>> /\ ~IsMedia(Head(Way)) /\ Way' = Tail(Way)
    PROVE  MediaOK'
<1>1. Listed(Way) /\ Listed(sent)
    BY ServerThrough DEF Way, MediaOK, SentOK
<1>2. PICK c, F :
          /\ c \in 0..Len(sent) /\ Flat(make.means, sent, F) /\ got \o Pending(msgs) = F[c + 1]
          /\ Arrives => Counted(sent, Way, c)
    BY DEF MediaOK, Arrived
<1>3. ASSUME Arrives' PROVE Counted(sent, Way', c)
  <2>1. Counted(sent, Way, c)
    BY <1>2, <1>3
  <2>2. CASE Way' = Way
    BY <2>1, <2>2
  <2>3. CASE \E x : ~IsMedia(x) /\ Way' = Way \o << x >>
    <3>1. PICK x : ~IsMedia(x) /\ Way' = Way \o << x >>
      BY <2>3
    <3>2. Counted(sent, Way \o << x >>, c)
      BY <1>1, <2>1, <3>1, CountedMore
    <3> QED BY <3>1, <3>2
  <2>4. CASE Way # <<>> /\ ~IsMedia(Head(Way)) /\ Way' = Tail(Way)
    <3>1. PICK k \in Nat : Counts(sent, Head(Way), c, k) /\ Counted(sent, Tail(Way), k)
      BY <1>1, <2>1, <2>4, CountedTaken
    <3>2. k = c
      BY <2>4, <3>1 DEF Counts
    <3> QED BY <2>4, <3>1, <3>2
  <2> QED BY <1>3, <2>2, <2>3, <2>4
<1>4. Arrived(make.means, sent, msgs, got, Way', Arrives')
    BY <1>2, <1>3 DEF Arrived
<1> QED BY <1>4 DEF MediaOK

LEMMA HeardServe == \A m, c : Heard(m, "serve", c) = "serve"
    BY DEF Heard

LEMMA ClientSends ==
    ASSUME HandshakeInv, SessionOK, SendPacket("client") PROVE SessionOK'
<1>1. /\ FieldsOK /\ ScriptOK /\ RequestsOK /\ AnswersOK /\ StreamOK /\ WaitsOK
      /\ IdentifiedOK /\ MediaOK
    BY DEF SessionOK
<1>2. PICK call : call = Head(todo["client"])
    OBVIOUS
<1>3. /\ stage["client"] = "rtmp" /\ todo["client"] # <<>> /\ ~Over("server") /\ stage' = stage
      /\ call.do \in {"send", "send on", "answer"}
      /\ make' = make /\ UNCHANGED <<tid, stream_id, identified, msgs, sent, got>>
      /\ todo' = [todo EXCEPT !["client"] = Tail(@)]
    BY <1>2 DEF SendPacket, Sends, Doing, Peer, Same, Continue
<1>4. todo'["client"] = Tail(todo["client"]) /\ todo'["server"] = todo["server"] /\ DOMAIN todo' = Sides
    BY <1>1, <1>3 DEF FieldsOK, Sides
<1>5. /\ Pos \in Nat /\ Pos + 1 \in 1..Len(make.script) /\ Mode \in Modes
      /\ call = make.script[Pos + 1] /\ CallInOrder(make, Mode, call)
      /\ ScriptOK' /\ Pos' = Pos + 1 /\ Mode' = NextMode(make, Mode, Pos + 1)
    BY <1>2, <1>3, <1>4, ScriptStep
<1>6. Says(call) /\ ClientPacket(make, call.m) /\ Takes(make, Mode, call.m)
    BY <1>3, <1>5 DEF CallInOrder, Says
<1>7. PICK x : x = Packet("client")
    OBVIOUS
<1>8. x = call.m \/ x = [call.m EXCEPT !.sid = stream_id["client"]]
    BY <1>2, <1>6, <1>7 DEF Packet, Call, Says
<1>9. /\ x.name = call.m.name /\ x.tid = call.m.tid
      /\ Heard(make, Mode, x) = Heard(make, Mode, call.m)
      /\ ClientPacket(make, x) /\ Takes(make, Mode, x) /\ ~IsMedia(x) /\ x.name # "_result"
  <2>1. PICK sid, mode, c : sid = stream_id["client"] /\ mode = Mode /\ c = call.m
    OBVIOUS
  <2>2. ClientPacket(make, c) /\ Takes(make, mode, c)
    BY <1>6, <2>1
  <2>3. x \in {c, [c EXCEPT !.sid = sid]}
    BY <1>8, <2>1
  <2>4. /\ x.name = c.name /\ x.tid = c.tid
        /\ Heard(make, mode, x) = Heard(make, mode, c)
        /\ ClientPacket(make, x) /\ Takes(make, mode, x) /\ ~IsMedia(x) /\ x.name # "_result"
    BY <2>2, <2>3, SaidPacket
  <2> QED BY <2>1, <2>4
<1>10. wire' = [wire EXCEPT !["server"] = @ \o << x >>]
    BY <1>7 DEF SendPacket, Put, Peer
<1>11. ToServer' = ToServer \o << x >> /\ ToClient' = ToClient
    BY <1>3, <1>10, SaidToServer
<1>12. requests'["client"] = Remembered(requests["client"], x) /\ DOMAIN requests' = Sides
  <2>1. requests' = IF x.name \notin Remembers THEN requests
                    ELSE [requests EXCEPT !["client"] =
                            [t \in DOMAIN @ \cup {x.tid} |-> IF t = x.tid THEN x.name ELSE @[t]]]
    BY <1>7 DEF SendPacket, OnSendPacket
  <2> QED BY <1>1, <2>1 DEF FieldsOK, Remembered, Sides
<1>13. PICK reqs, reqs2 : reqs = requests["client"] /\ reqs2 = requests'["client"]
    OBVIOUS
<1>14. Requested(make, Pos + 1, reqs2) /\ Grows(make, reqs, reqs2) /\ Known(make, reqs2, x)
  <2>1. Orderly(make) /\ Len(make.script) \in Nat
    BY InOrder
  <2>2. Requested(make, Pos, reqs)
    BY <1>1, <1>13 DEF RequestsOK
  <2> QED BY <1>5, <1>6, <1>9, <1>12, <1>13, <2>1, <2>2, RequestsGrow
<1>15. Mode' = Heard(make, Mode, x) /\ Mode' \in Modes /\ (Mode = "serve" => Mode' = "serve")
  <2>1. Mode' = Heard(make, Mode, x)
    BY <1>5, <1>6, <1>9 DEF NextMode
  <2> QED BY <1>5, <2>1, HeardIsMode, HeardServe
<1>16. FieldsOK'
    BY <1>1, <1>3, <1>4, <1>12 DEF FieldsOK
<1>17. RequestsOK'
  <2>1. PICK w : w = ToServer
    OBVIOUS
  <2>2. Listed(w) /\ \A i \in 1..Len(w) : Known(make, reqs, w[i])
    BY <1>1, <1>13, <2>1 DEF RequestsOK
  <2>3. /\ Listed(w \o << x >>) /\ Len(w) \in Nat /\ Len(w \o << x >>) = Len(w) + 1
        /\ (w \o << x >>)[Len(w) + 1] = x
        /\ \A i \in 1..Len(w) : (w \o << x >>)[i] = w[i]
    BY <2>2, EndPut
  <2>4. ASSUME NEW i \in 1..Len(w \o << x >>) PROVE Known(make, reqs2, (w \o << x >>)[i])
    <3>1. CASE i = Len(w) + 1
      BY <1>14, <2>3, <3>1
    <3>2. CASE i # Len(w) + 1
      <4>1. i \in 1..Len(w)
        BY <2>3, <3>2
      <4> QED BY <1>14, <2>2, <2>3, <4>1, KnownStays
    <3> QED BY <3>1, <3>2
  <2> QED BY <1>3, <1>5, <1>11, <1>13, <1>14, <2>1, <2>3, <2>4 DEF RequestsOK
<1>18. AnswersOK'
  <2>1. ASSUME NEW y, Answering(make, reqs, Mode, y) PROVE Answering(make, reqs2, Mode', y)
    BY <1>14, <1>15, <2>1, AnsweringStays
  <2> QED BY <1>1, <1>3, <1>11, <1>13, <2>1 DEF AnswersOK
<1>19. StreamOK'
  <2>1. Created(make, Pos + 1) => Created(make, Pos)
    <3>1. SUFFICES ASSUME NEW i \in 1..(Pos + 1), make.script[i].do = "expect",
                          make.script[i].class = "CreateStreamRes"
                   PROVE  Created(make, Pos)
      BY DEF Created
    <3>2. i # Pos + 1
      BY <1>5, <1>6, <3>1 DEF Says
    <3>3. i \in 1..Pos
      BY <1>5, <3>2
    <3> QED BY <3>1, <3>3 DEF Created
  <2> QED BY <1>1, <1>3, <1>5, <2>1 DEF StreamOK
<1>20. WaitsOK'
  <2>1. PICK mode \in Modes :
            /\ Waits(make, reqs, tid["server"], Application, mode, todo["server"])
            /\ Suits(make, mode) /\ Chained(make, mode, ToServer, Mode)
    BY <1>1, <1>3, <1>13 DEF WaitsOK, Follows
  <2>2. Waits(make, reqs2, tid["server"], Application, mode, todo["server"])
    BY <1>14, <2>1, WaitsStays
  <2>3. Hears(make, Mode, x, Mode')
    BY <1>9, <1>15 DEF Hears
  <2>4. Listed(ToServer)
    BY <1>1 DEF RequestsOK
  <2>5. PICK c \in Modes : c = Mode'
    BY <1>15
  <2>6. Chained(make, mode, ToServer \o << x >>, c)
    BY <1>15, <2>1, <2>3, <2>4, <2>5, ChainSaid
  <2>7. Follows(make, reqs2, tid["server"], Application, todo["server"], ToServer', Mode')
    BY <1>11, <2>1, <2>2, <2>5, <2>6 DEF Follows
  <2> QED BY <1>3, <1>4, <1>13, <2>7, ApplicationSame DEF WaitsOK
<1>21. IdentifiedOK'
    BY <1>1, <1>3 DEF IdentifiedOK
<1>22. MediaOK'
  <2>1. Arrives' = Arrives
    BY <1>3 DEF Arrives, Over
  <2>2. Way' = Way \/ Way' = Way \o << x >>
    BY <1>3, <1>11 DEF Way
  <2> QED BY <1>1, <1>3, <1>9, <2>1, <2>2, MediaPasses
<1> QED BY <1>5, <1>16, <1>17, <1>18, <1>19, <1>20, <1>21, <1>22 DEF SessionOK

----------------------------------------------------------------------------
(* The server says the next of its calls. *)

\* A client that says nothing.
LEMMA ClientStays ==
    ASSUME make' = make, todo'["client"] = todo["client"]
    PROVE  /\ Pos' = Pos /\ Mode' = Mode /\ Application' = Application
           /\ ScriptOK => ScriptOK'
<1>1. Pos' = Pos
    BY DEF Pos
<1>2. Mode' = Mode
    BY <1>1 DEF Mode
<1>3. ScriptOK => ScriptOK'
    BY <1>1 DEF ScriptOK
<1> QED BY <1>1, <1>2, <1>3, ApplicationSame

LEMMA FitPacket ==
    ASSUME stage["server"] = "rtmp", stream_id["server"] = ServerStream,
           NEW reqs, NEW mode, NEW call, call = Head(todo["server"]),
           Fit(make, reqs, tid["server"], call), call.do \in SendingCalls
    PROVE  ~IsMedia(Packet("server")) /\ Answering(make, reqs, mode, Packet("server"))
<1>1. PICK x, t : x = Packet("server") /\ t = tid["server"]
    OBVIOUS
<1>2. CASE call.do = "answer" /\ call.value = "number"
  <2>1. x = CreateStreamRes(t, ServerStream) /\ (make.own => Right(reqs, t, "number"))
    BY <1>1, <1>2 DEF Packet, Call, Fit, Says
  <2>2. /\ x.type = "command" /\ x.tid = t /\ x.value = "number" /\ x.id = ServerStream
    BY <2>1 DEF CreateStreamRes, Result, Command, Blank
  <2> QED BY <1>1, <2>1, <2>2 DEF Answering, IsMedia, PartTypes
<1>3. CASE call.do = "answer" /\ call.value # "number"
  <2>1. PICK value : value = call.value
    OBVIOUS
  <2>2. x = Result(t, value) /\ (make.own => Right(reqs, t, value)) /\ value # "number"
    BY <1>1, <1>3, <2>1 DEF Packet, Call, Fit, Says
  <2>3. /\ x.type = "command" /\ x.tid = t /\ x.value = value
    BY <2>2 DEF Result, Command, Blank
  <2> QED BY <1>1, <2>2, <2>3 DEF Answering, IsMedia, PartTypes
<1>4. CASE call.do # "answer"
  <2>1. PICK c, sid : c = call.m /\ sid = stream_id["server"]
    OBVIOUS
  <2>2. x \in {c, [c EXCEPT !.sid = sid]} /\ Says(call)
    BY <1>1, <1>4, <2>1 DEF Packet, Call, Says, SendingCalls
  <2>3. /\ DOMAIN c = DOMAIN Blank /\ ~IsMedia(c)
        /\ c.name = "_result" => c.value # "number" /\ (make.own => Right(reqs, c.tid, c.value))
    BY <1>4, <2>1 DEF Fit
  <2>4. x.name = c.name /\ x.value = c.value /\ x.tid = c.tid /\ x.type = c.type
    BY <2>2, <2>3 DEF Blank
  <2> QED BY <1>1, <2>3, <2>4 DEF Answering, IsMedia
<1> QED BY <1>2, <1>3, <1>4

LEMMA AnswersMore ==
    ASSUME NEW m, NEW reqs, NEW mode, NEW w, NEW x, Listed(w), Answering(m, reqs, mode, x),
           \A i \in 1..Len(w) : Answering(m, reqs, mode, w[i])
    PROVE  /\ Listed(w \o << x >>)
           /\ \A i \in 1..Len(w \o << x >>) : Answering(m, reqs, mode, (w \o << x >>)[i])
<1>1. PICK v : v = w \o << x >>
    OBVIOUS
<1>2. /\ Listed(v) /\ Len(w) \in Nat /\ Len(v) = Len(w) + 1 /\ v[Len(w) + 1] = x
      /\ \A i \in 1..Len(w) : v[i] = w[i]
    BY <1>1, EndPut
<1>3. ASSUME NEW i \in 1..Len(v) PROVE Answering(m, reqs, mode, v[i])
  <2>1. CASE i = Len(w) + 1
    BY <1>2, <2>1
  <2>2. CASE i # Len(w) + 1
    <3>1. i \in 1..Len(w)
      BY <1>2, <2>2
    <3> QED BY <1>2, <3>1
  <2> QED BY <2>1, <2>2
<1> QED BY <1>1, <1>2, <1>3

LEMMA ServerSends ==
    ASSUME HandshakeInv, SessionOK, SendPacket("server") PROVE SessionOK'
<1>1. /\ FieldsOK /\ ScriptOK /\ RequestsOK /\ AnswersOK /\ StreamOK /\ WaitsOK
      /\ IdentifiedOK /\ MediaOK
    BY DEF SessionOK
<1>2. PICK call, x, reqs : /\ call = Head(todo["server"]) /\ x = Packet("server")
                           /\ reqs = requests["client"]
    OBVIOUS
<1>3. /\ stage["server"] = "rtmp" /\ todo["server"] # <<>> /\ ~Over("client") /\ stage' = stage
      /\ call.do \in SendingCalls
      /\ make' = make /\ UNCHANGED <<tid, stream_id, identified, msgs, sent, got>>
      /\ todo' = [todo EXCEPT !["server"] = Tail(@)]
      /\ wire' = [wire EXCEPT !["client"] = @ \o << x >>]
    BY <1>2 DEF SendPacket, Sends, Doing, Peer, Same, Continue, Put, SendingCalls
<1>4. /\ todo'["client"] = todo["client"] /\ todo'["server"] = Tail(todo["server"])
      /\ DOMAIN todo' = Sides
    BY <1>1, <1>3 DEF FieldsOK, Sides
<1>5. requests'["client"] = reqs /\ DOMAIN requests' = Sides
  <2>1. requests' = requests \/ \E f : requests' = [requests EXCEPT !["server"] = f]
    BY DEF SendPacket, OnSendPacket
  <2> QED BY <1>1, <1>2, <2>1 DEF FieldsOK, Sides
<1>6. Pos' = Pos /\ Mode' = Mode /\ Application' = Application /\ ScriptOK'
    BY <1>1, <1>3, <1>4, ClientStays
<1>7. ToClient' = ToClient \o << x >> /\ ToServer' = ToServer
    BY <1>3, SaidToClient
<1>8. ~Over("server") /\ Over("server")' = Over("server") /\ Over("client")' = Over("client")
    BY <1>3 DEF Over
<1>9. PICK mode \in Modes :
          /\ Waits(make, reqs, tid["server"], Application, mode, todo["server"])
          /\ Suits(make, mode) /\ Chained(make, mode, ToServer, Mode)
    BY <1>1, <1>2, <1>8 DEF WaitsOK, Follows
<1>10. /\ Fit(make, reqs, tid["server"], call)
       /\ Waits(make, reqs, tid["server"], Application, mode, todo'["server"])
  <2>1. PICK calls, t, app : calls = todo["server"] /\ t = tid["server"] /\ app = Application
    OBVIOUS
  <2>2. Listed(app) /\ app # <<>> /\ Stops("ConnectApp", app[1])
    BY <2>1, ApplicationIs
  <2>3. Waits(make, reqs, t, app, mode, calls) /\ calls # <<>> /\ Head(calls).do \in SendingCalls
    BY <1>2, <1>3, <1>9, <2>1
  <2>4. Fit(make, reqs, t, Head(calls)) /\ Waits(make, reqs, t, app, mode, Tail(calls))
    BY <2>2, <2>3, WaitsPops
  <2> QED BY <1>2, <1>4, <2>1, <2>4
<1>11. ~IsMedia(x) /\ Answering(make, reqs, Mode, x)
  <2>1. PICK to : to = Mode
    OBVIOUS
  <2> QED BY <1>1, <1>2, <1>3, <1>10, <2>1, FitPacket DEF StreamOK
<1>12. FieldsOK'
    BY <1>1, <1>3, <1>4, <1>5 DEF FieldsOK
<1>13. RequestsOK'
    BY <1>1, <1>2, <1>3, <1>5, <1>6, <1>7 DEF RequestsOK
<1>14. AnswersOK'
  <2>1. PICK to, w : to = Mode /\ w = ToClient
    OBVIOUS
  <2>2. Listed(w \o << x >>) /\ \A i \in 1..Len(w \o << x >>) :
                                   Answering(make, reqs, to, (w \o << x >>)[i])
    BY <1>1, <1>2, <1>11, <2>1, AnswersMore DEF AnswersOK
  <2> QED BY <1>3, <1>5, <1>6, <1>7, <2>1, <2>2 DEF AnswersOK
<1>15. StreamOK'
    BY <1>1, <1>3, <1>6 DEF StreamOK
<1>16. WaitsOK'
    BY <1>3, <1>5, <1>6, <1>7, <1>9, <1>10 DEF WaitsOK, Follows
<1>17. IdentifiedOK'
    BY <1>1, <1>3 DEF IdentifiedOK
<1>18. MediaOK'
  <2>1. Arrives' = Arrives
    BY <1>3, <1>8 DEF Arrives
  <2>2. Way' = Way \/ Way' = Way \o << x >>
    BY <1>3, <1>7 DEF Way
  <2> QED BY <1>1, <1>3, <1>11, <2>1, <2>2, MediaPasses
<1> QED BY <1>6, <1>12, <1>13, <1>14, <1>15, <1>16, <1>17, <1>18 DEF SessionOK

----------------------------------------------------------------------------
(* The client takes the answer it waits for. *)

LEMMA Classes ==
    \A n \in DOMAIN ClassOf : ClassOf[n] \notin {"error", "CreateStreamRes", "Call", "Packet", "none"}
<1>1. PICK c : c = CallOf
    OBVIOUS
<1>2. \A n \in DOMAIN c : c[n] \notin {"error", "CreateStreamRes", "Call", "Packet", "none"}
    BY <1>1 DEF CallOf
<1> HIDE DEF BandwidthNames
<1>3. ClassOf = [n \in BandwidthNames \cup DOMAIN c |->
                  IF n \in BandwidthNames THEN "Bandwidth" ELSE c[n]]
    BY <1>1 DEF ClassOf
<1> QED BY <1>2, <1>3

LEMMA AnswerClasses ==
    /\ \A name \in Remembers :
          /\ AnswerTo[name].class # "error"
          /\ AnswerTo[name].class = "CreateStreamRes" => AnswerTo[name].value = "number"
    BY DEF AnswerTo, Remembers

LEMMA AnswerDecoded ==
    ASSUME NEW mode, NEW x, NEW pos, Requested(make, pos, requests["client"]),
           Answering(make, requests["client"], mode, x)
    PROVE  /\ make.own => Decode("client", x) # "error"
           /\ Decode("client", x) = "CreateStreamRes" => x.id = ServerStream
<1>1. PICK reqs : reqs = requests["client"]
    OBVIOUS
<1>2. CASE x.name # "_result"
  <2>1. Decode("client", x) \notin {"error", "CreateStreamRes"}
    BY <1>2, Classes DEF Decode
  <2> QED BY <2>1
<1>3. CASE x.name = "_result" /\ x.tid \notin DOMAIN reqs
  <2>1. Decode("client", x) = "error"
    BY <1>1, <1>3 DEF Decode
  <2> QED BY <1>1, <1>3, <2>1 DEF Answering, Right
<1>4. CASE x.name = "_result" /\ x.tid \in DOMAIN reqs
  <2>1. reqs[x.tid] \in Remembers
    BY <1>1, <1>4 DEF Requested
  <2>2. PICK a : a = AnswerTo[reqs[x.tid]]
    OBVIOUS
  <2>3. Decode("client", x) = IF x.value = a.value THEN a.class ELSE "error"
    BY <1>1, <1>4, <2>2 DEF Decode
  <2>4. a.class # "error" /\ (a.class = "CreateStreamRes" => a.value = "number")
    BY <2>1, <2>2, AnswerClasses
  <2>5. /\ make.own => x.value = a.value
        /\ x.value = "number" => x.id = ServerStream
    BY <1>1, <1>4, <2>2 DEF Answering, Right
  <2> QED BY <2>3, <2>4, <2>5
<1> QED BY <1>2, <1>3, <1>4

LEMMA ClientExpects ==
    ASSUME HandshakeInv, SessionOK, ExpectMessage("client") PROVE SessionOK' /\ stage' = stage
<1>1. /\ FieldsOK /\ ScriptOK /\ RequestsOK /\ AnswersOK /\ StreamOK /\ WaitsOK
      /\ IdentifiedOK /\ MediaOK
    BY DEF SessionOK
<1>2. PICK call, x, class : /\ call = Head(todo["client"]) /\ x = Message("client")
                            /\ class = Decode("client", x)
    OBVIOUS
<1>3. /\ stage["client"] = "rtmp" /\ todo["client"] # <<>> /\ Incoming("client")
      /\ call.do = "expect" /\ Take("client", <<>>)
      /\ make' = make /\ UNCHANGED <<requests, identified, msgs, sent, got>>
    BY <1>2 DEF ExpectMessage, Doing, Same
<1>4. /\ Pos \in Nat /\ Pos + 1 \in 1..Len(make.script)
      /\ call = make.script[Pos + 1] /\ CallInOrder(make, Mode, call)
      /\ todo'["client"] = Tail(todo["client"]) =>
            ScriptOK' /\ Pos' = Pos + 1 /\ Mode' = NextMode(make, Mode, Pos + 1)
    BY <1>2, <1>3, <1>1, ScriptStep
<1>5. /\ ToClient # <<>> /\ Listed(ToClient) /\ x = Head(ToClient)
  <2>1. ToClient = wire["client"]
    BY <1>3 DEF ToClient
  <2> QED BY <1>2, <1>3, <2>1, ServerThrough DEF Incoming, Message
<1>6. Answering(make, requests["client"], Mode, x)
  <2>1. PICK w : w = ToClient
    OBVIOUS
  <2>2. Head(w) = w[1] /\ 1 \in 1..Len(w)
    BY <1>5, <2>1, FrontTaken
  <2> QED BY <1>1, <1>5, <2>1, <2>2 DEF AnswersOK
<1>7. ~IsMedia(x)
  <2>1. Mode # "serve"
    BY <1>3, <1>4 DEF CallInOrder
  <2> QED BY <1>6, <2>1 DEF Answering
<1>8. /\ make.own => class # "error"
      /\ class = "CreateStreamRes" => x.id = ServerStream
  <2>1. PICK mode, pos : mode = Mode /\ pos = Pos
    OBVIOUS
  <2>2. Requested(make, pos, requests["client"]) /\ Answering(make, requests["client"], mode, x)
    BY <1>1, <1>6, <2>1 DEF RequestsOK
  <2>3. /\ make.own => Decode("client", x) # "error"
        /\ Decode("client", x) = "CreateStreamRes" => x.id = ServerStream
    BY <2>2, AnswerDecoded
  <2> QED BY <1>2, <2>3
<1>9. \/ /\ UNCHANGED <<stage, todo, tid, stream_id>>
      \/ /\ class = call.class /\ Continue("client") /\ stage' = stage
         /\ tid' = [tid EXCEPT !["client"] = x.tid]
         /\ stream_id' = [stream_id EXCEPT !["client"] = IF class = "CreateStreamRes" THEN x.id ELSE @]
  <2>1. \/ /\ Drops("client", class, x) /\ UNCHANGED <<stage, todo, tid, stream_id>>
        \/ /\ ~Drops("client", class, x) /\ class = "error"
        \/ /\ ~Drops("client", class, x) /\ class # "error" /\ Continue("client") /\ stage' = stage
           /\ tid' = [tid EXCEPT !["client"] = x.tid]
           /\ stream_id' = [stream_id EXCEPT !["client"] =
                              IF class = "CreateStreamRes" THEN x.id ELSE @]
    BY <1>2 DEF ExpectMessage
  <2>2. ~(~Drops("client", class, x) /\ class = "error")
    BY <1>8 DEF Drops
  <2>3. ~Drops("client", class, x) /\ class # "error" => class = call.class
    BY <1>2 DEF Drops, Call
  <2> QED BY <2>1, <2>2, <2>3
<1>10. stage' = stage
    BY <1>9
<1>11. ToClient' = Tail(ToClient) /\ ToServer' = ToServer
    BY <1>3, <1>10, TakenByClient
<1>12. /\ DOMAIN todo' = Sides /\ todo'["server"] = todo["server"]
       /\ DOMAIN tid' = Sides /\ tid'["server"] = tid["server"]
       /\ DOMAIN stream_id' = Sides /\ stream_id'["server"] = stream_id["server"]
    BY <1>1, <1>9 DEF FieldsOK, Sides, Continue
<1>13. /\ Mode' = Mode /\ ScriptOK' /\ Application' = Application
       /\ Requested(make, Pos', requests["client"])
       /\ Created(make, Pos') => stream_id'["client"] = ServerStream
  <2>1. CASE UNCHANGED <<stage, todo, tid, stream_id>>
    <3>1. Pos' = Pos /\ Mode' = Mode /\ Application' = Application /\ ScriptOK'
      BY <1>1, <1>3, <2>1, ClientStays
    <3> QED BY <1>1, <2>1, <3>1 DEF RequestsOK, StreamOK
  <2>2. CASE /\ class = call.class /\ Continue("client") /\ stage' = stage
             /\ tid' = [tid EXCEPT !["client"] = x.tid]
             /\ stream_id' = [stream_id EXCEPT !["client"] =
                                IF class = "CreateStreamRes" THEN x.id ELSE @]
    <3>1. todo'["client"] = Tail(todo["client"])
      BY <1>1, <2>2 DEF Continue, FieldsOK, Sides
    <3>2. ScriptOK' /\ Pos' = Pos + 1 /\ Mode' = NextMode(make, Mode, Pos + 1)
      BY <1>4, <3>1
    <3>3. Mode' = Mode
      BY <1>3, <1>4, <3>2 DEF NextMode, Says
    <3>4. Requested(make, Pos + 1, requests["client"])
      <4>1. 1..Pos \subseteq 1..(Pos + 1)
        BY <1>4
      <4> QED BY <1>1, <4>1 DEF RequestsOK, Requested
    <3>5. Created(make, Pos + 1) => stream_id'["client"] = ServerStream
      <4>1. stream_id'["client"] = IF class = "CreateStreamRes" THEN x.id ELSE stream_id["client"]
        BY <1>1, <2>2 DEF FieldsOK, Sides
      <4>2. CASE class = "CreateStreamRes"
        BY <1>8, <4>1, <4>2
      <4>3. CASE class # "CreateStreamRes"
        <5>1. SUFFICES ASSUME NEW i \in 1..(Pos + 1), make.script[i].do = "expect",
                              make.script[i].class = "CreateStreamRes"
                       PROVE  Created(make, Pos)
          BY <1>1, <4>1, <4>3 DEF Created, StreamOK
        <5>2. i # Pos + 1
          BY <1>4, <2>2, <4>3, <5>1
        <5>3. i \in 1..Pos
          BY <1>4, <5>2
        <5> QED BY <5>1, <5>3 DEF Created
      <4> QED BY <4>2, <4>3
    <3> QED BY <1>3, <3>2, <3>3, <3>4, <3>5, ApplicationSame
  <2> QED BY <1>9, <2>1, <2>2
<1>14. FieldsOK'
    BY <1>1, <1>3, <1>12 DEF FieldsOK
<1>15. RequestsOK'
    BY <1>1, <1>3, <1>11, <1>13 DEF RequestsOK
<1>16. AnswersOK'
  <2>1. PICK w, to : w = ToClient /\ to = Mode
    OBVIOUS
  <2>2. /\ Listed(Tail(w)) /\ Len(w) \in Nat /\ Len(Tail(w)) = Len(w) - 1
        /\ \A i \in 1..Len(Tail(w)) : Tail(w)[i] = w[i + 1]
    BY <1>5, <2>1, FrontTaken
  <2>3. ASSUME NEW i \in 1..Len(Tail(w)) PROVE Answering(make, requests["client"], to, Tail(w)[i])
    <3>1. i + 1 \in 1..Len(w)
      BY <2>2
    <3> QED BY <1>1, <2>1, <2>2, <3>1 DEF AnswersOK
  <2> QED BY <1>3, <1>11, <1>13, <2>1, <2>2, <2>3 DEF AnswersOK
<1>17. StreamOK'
    BY <1>1, <1>3, <1>12, <1>13 DEF StreamOK
<1>18. WaitsOK'
    BY <1>1, <1>3, <1>10, <1>11, <1>12, <1>13 DEF WaitsOK, Over
<1>19. IdentifiedOK'
    BY <1>1, <1>3 DEF IdentifiedOK
<1>20. MediaOK'
  <2>1. Arrives' = Arrives
    BY <1>3, <1>10 DEF Arrives, Over
  <2>2. Way' = Way \/ (Way # <<>> /\ ~IsMedia(Head(Way)) /\ Way' = Tail(Way))
    <3>1. CASE make.means = "Play"
      BY <1>3, <1>5, <1>7, <1>11, <3>1 DEF Way
    <3>2. CASE make.means # "Play"
      BY <1>3, <1>11, <3>2 DEF Way
    <3> QED BY <3>1, <3>2
  <2>3. Arrives' =>
            /\ Arrives
            /\ \/ Way' = Way
               \/ \E y : ~IsMedia(y) /\ Way' = Way \o << y >>
               \/ (Way # <<>> /\ ~IsMedia(Head(Way)) /\ Way' = Tail(Way))
    BY <2>1, <2>2
  <2> QED BY <1>1, <1>3, <2>3, MediaPasses
<1> QED BY <1>10, <1>13, <1>14, <1>15, <1>16, <1>17, <1>18, <1>19, <1>20 DEF SessionOK

----------------------------------------------------------------------------
(* The server takes a message. *)

Answers(ms, reqs, mode) ==
    ms = <<>> \/ \E y : ms = << y >> /\ ~IsMedia(y) /\ Answering(make, reqs, mode, y)

LEMMA ServerTakes ==
    ASSUME HandshakeInv, SessionOK, stage["server"] = "rtmp", stage' = stage, Incoming("server"),
           NEW ms, Take("server", ms), Answers(ms, requests["client"], Mode),
           make' = make, UNCHANGED <<requests, msgs, sent>>,
           DOMAIN tid' = Sides, DOMAIN todo' = Sides, todo'["client"] = todo["client"],
           DOMAIN stream_id' = Sides, \A s \in Sides : stream_id'[s] = stream_id[s],
           IdentifiedOK', MediaOK', NEW mode \in Modes, Suits(make, mode),
           Waits(make, requests["client"], tid'["server"], Application, mode, todo'["server"]),
           Chained(make, mode, Tail(ToServer), Mode)
    PROVE  SessionOK'
<1>1. /\ FieldsOK /\ ScriptOK /\ RequestsOK /\ AnswersOK /\ StreamOK
    BY DEF SessionOK
<1>2. Pos' = Pos /\ Mode' = Mode /\ Application' = Application /\ ScriptOK'
    BY <1>1, ClientStays
<1>3. PICK reqs, w, v, to : reqs = requests["client"] /\ w = ToServer /\ v = ToClient /\ to = Mode
    OBVIOUS
<1>4. Listed(ms)
  <2>1. CASE ms = <<>>
    BY <2>1, ListedStays
  <2>2. CASE \E y : ms = << y >>
    BY <2>2, ListedTuples
  <2> QED BY <2>1, <2>2 DEF Answers
<1>5. /\ w # <<>> /\ ToServer' = Tail(w)
      /\ ToClient' = IF Over("client") THEN <<>> ELSE v \o ms
    BY <1>3, <1>4, TakenByServer
<1>6. FieldsOK'
    BY <1>1 DEF FieldsOK
<1>7. RequestsOK'
  <2>1. /\ Listed(Tail(w)) /\ Len(w) \in Nat /\ Len(Tail(w)) = Len(w) - 1
        /\ \A i \in 1..Len(Tail(w)) : Tail(w)[i] = w[i + 1]
    BY <1>1, <1>3, <1>5, FrontTaken DEF RequestsOK
  <2>2. ASSUME NEW i \in 1..Len(Tail(w)) PROVE Known(make, reqs, Tail(w)[i])
    <3>1. i + 1 \in 1..Len(w)
      BY <2>1
    <3> QED BY <1>1, <1>3, <2>1, <3>1 DEF RequestsOK
  <2> QED BY <1>1, <1>2, <1>3, <1>5, <2>1, <2>2 DEF RequestsOK
<1>8. AnswersOK'
  <2>1. Listed(v) /\ \A i \in 1..Len(v) : Answering(make, reqs, to, v[i])
    BY <1>1, <1>3 DEF AnswersOK
  <2>2. PICK u : u = ToClient'
    OBVIOUS
  <2>3. Listed(u) /\ \A i \in 1..Len(u) : Answering(make, reqs, to, u[i])
    <3>1. CASE Over("client")
      BY <1>5, <2>2, <3>1, NothingListed
    <3>2. CASE ~Over("client") /\ ms = <<>>
      <4>1. v \o ms = v
        BY <2>1, <3>2, ListedStays, Joined
      <4> QED BY <1>5, <2>1, <2>2, <3>2, <4>1
    <3>3. CASE ~Over("client") /\ ms # <<>>
      <4>1. PICK y : ms = << y >> /\ Answering(make, reqs, to, y)
        BY <1>3, <3>3 DEF Answers
      <4>2. /\ Listed(v \o << y >>)
            /\ \A i \in 1..Len(v \o << y >>) : Answering(make, reqs, to, (v \o << y >>)[i])
        BY <2>1, <4>1, AnswersMore
      <4> QED BY <1>5, <2>2, <3>3, <4>1, <4>2
    <3> QED BY <3>1, <3>2, <3>3
  <2> QED BY <1>2, <1>3, <2>2, <2>3 DEF AnswersOK
<1>9. StreamOK'
    BY <1>1, <1>2 DEF StreamOK, Sides
<1>10. WaitsOK'
    BY <1>2, <1>3, <1>5 DEF WaitsOK, Follows
<1> QED BY <1>2, <1>6, <1>7, <1>8, <1>9, <1>10 DEF SessionOK

LEMMA ServerTakesNoMedia ==
    ASSUME HandshakeInv, SessionOK, stage["server"] = "rtmp", stage' = stage, Incoming("server"),
           NEW ms, Take("server", ms), NEW reqs, NEW mode, Answers(ms, reqs, mode),
           make' = make, UNCHANGED <<msgs, sent, got>>,
           make.means = "Play" \/ ~IsMedia(Head(ToServer))
    PROVE  MediaOK'
<1>1. Listed(ms)
  <2>1. CASE ms = <<>>
    BY <2>1, ListedStays
  <2>2. CASE \E y : ms = << y >>
    BY <2>2, ListedTuples
  <2> QED BY <2>1, <2>2 DEF Answers
<1>2. /\ ToServer # <<>> /\ ToServer' = Tail(ToServer)
      /\ ToClient' = IF Over("client") THEN <<>> ELSE ToClient \o ms
      /\ Listed(ToClient)
    BY <1>1, TakenByServer, ServerThrough
<1>3. Arrives' = Arrives
    BY DEF Arrives, Over
<1>4. ASSUME Arrives
      PROVE  \/ Way' = Way
             \/ \E y : ~IsMedia(y) /\ Way' = Way \o << y >>
             \/ (Way # <<>> /\ ~IsMedia(Head(Way)) /\ Way' = Tail(Way))
  <2>1. CASE make.means # "Play"
    BY <1>2, <2>1 DEF Way
  <2>2. CASE make.means = "Play"
    <3>1. Way' = ToClient \o ms /\ Way = ToClient
      BY <1>2, <1>4, <2>2 DEF Way, Arrives
    <3>2. CASE ms = <<>>
      BY <1>2, <3>1, <3>2, ListedStays, Joined
    <3>3. CASE ms # <<>>
      BY <3>1, <3>3 DEF Answers
    <3> QED BY <3>2, <3>3
  <2> QED BY <2>1, <2>2
<1> QED BY <1>3, <1>4, MediaPasses DEF SessionOK

\* What the server waits for, and the next it takes.
LEMMA ServerNext ==
    ASSUME HandshakeInv, SessionOK, stage["server"] = "rtmp", Incoming("server"),
           todo["server"] # <<>>, Head(todo["server"]).do \notin SendingCalls
    PROVE  \E mode \in Modes, c \in Modes :
              /\ Remains(Application, mode, todo["server"]) /\ Stops(mode, Head(todo["server"]))
              /\ Waits(make, requests["client"], tid["server"], Application, mode, todo["server"])
              /\ Suits(make, mode) /\ Hears(make, mode, Head(ToServer), c)
              /\ Chained(make, c, Tail(ToServer), Mode)
              /\ Message("server") = Head(ToServer)
              /\ Known(make, requests["client"], Head(ToServer))
<1>1. ToServer = wire["server"] /\ ToServer # <<>> /\ Listed(ToServer) /\ ~Over("server")
    BY ServerThrough DEF ToServer, Incoming, Over
<1>2. PICK calls, w, app, to, t, reqs :
          /\ calls = todo["server"] /\ w = ToServer /\ app = Application
          /\ to = Mode /\ t = tid["server"] /\ reqs = requests["client"]
    OBVIOUS
<1>3. PICK mode \in Modes : /\ Waits(make, reqs, t, app, mode, calls) /\ Suits(make, mode)
                            /\ Chained(make, mode, w, to)
    BY <1>1, <1>2 DEF SessionOK, WaitsOK, Follows
<1>4. Listed(app) /\ app # <<>> /\ Stops("ConnectApp", app[1])
    BY <1>2, ApplicationIs
<1>5. Remains(app, mode, calls)
    BY <1>2, <1>3, WaitsStops
<1>6. Stops(mode, Head(calls))
    BY <1>2, <1>4, <1>5, StoppedAt
<1>7. PICK c \in Modes : Hears(make, mode, Head(w), c) /\ Chained(make, c, Tail(w), to)
    BY <1>1, <1>2, <1>3, ChainTaken
<1>8. Known(make, reqs, Head(w))
  <2>1. Head(w) = w[1] /\ 1 \in 1..Len(w)
    BY <1>1, <1>2, FrontTaken
  <2> QED BY <1>2, <2>1 DEF SessionOK, RequestsOK
<1>9. Message("server") = Head(w)
    BY <1>1, <1>2 DEF Message
<1> QED BY <1>2, <1>3, <1>5, <1>6, <1>7, <1>8, <1>9

----------------------------------------------------------------------------
(* The server takes a call it waits for. *)

LEMMA NamesOf ==
    ASSUME NEW n \in DOMAIN ClassOf
    PROVE  /\ ClassOf[n] = "ConnectApp" => n = "connect"
           /\ ClassOf[n] = "CreateStream" => n = "createStream"
           /\ ClassOf[n] = "FMLEStart" => n \in {"releaseStream", "FCPublish", "FCUnpublish"}
<1>1. PICK c : c = CallOf
    OBVIOUS
<1>2. \A k \in DOMAIN c : /\ c[k] = "ConnectApp" => k = "connect"
                          /\ c[k] = "CreateStream" => k = "createStream"
                          /\ c[k] = "FMLEStart" => k \in {"releaseStream", "FCPublish", "FCUnpublish"}
    BY <1>1 DEF CallOf
<1> HIDE DEF BandwidthNames
<1>3. ClassOf = [k \in BandwidthNames \cup DOMAIN c |->
                  IF k \in BandwidthNames THEN "Bandwidth" ELSE c[k]]
    BY <1>1 DEF ClassOf
<1> QED BY <1>2, <1>3

LEMMA RightAnswers ==
    ASSUME NEW reqs, NEW x, ClientPacket(make, x), Known(make, reqs, x), make.own
    PROVE  /\ Class(x) = "ConnectApp" => Right(reqs, 1, "object")
           /\ Class(x) = "CreateStream" => Right(reqs, x.tid, "number")
           /\ Class(x) = "FMLEStart" => Right(reqs, x.tid, "undefined")
<1>1. x.name \in DOMAIN ClassOf /\ Class(x) = ClassOf[x.name] /\ (x.name = "connect" => x.tid = 1)
    BY DEF ClientPacket, Class
<1>2. x.name \in Remembers => x.tid \in DOMAIN reqs /\ reqs[x.tid] = x.name
    BY DEF Known
<1>3. /\ AnswerTo["connect"].value = "object" /\ AnswerTo["createStream"].value = "number"
      /\ \A n \in {"releaseStream", "FCPublish", "FCUnpublish"} : AnswerTo[n].value = "undefined"
    BY DEF AnswerTo
<1>4. CASE Class(x) = "ConnectApp"
  <2>1. x.name = "connect" /\ x.tid = 1 /\ x.name \in Remembers
    BY <1>1, <1>4, NamesOf DEF Remembers
  <2> QED BY <1>2, <1>3, <1>4, <2>1 DEF Right
<1>5. CASE Class(x) = "CreateStream"
  <2>1. x.name = "createStream" /\ x.name \in Remembers
    BY <1>1, <1>5, NamesOf DEF Remembers
  <2> QED BY <1>2, <1>3, <1>5, <2>1 DEF Right
<1>6. CASE Class(x) = "FMLEStart"
  <2>1. x.name \in {"releaseStream", "FCPublish", "FCUnpublish"} /\ x.name \in Remembers
    BY <1>1, <1>6, NamesOf DEF Remembers
  <2> QED BY <1>2, <1>3, <1>6, <2>1 DEF Right
<1> QED BY <1>4, <1>5, <1>6

LEMMA HeardCalls ==
    ASSUME NEW m, NEW c
    PROVE  /\ Class(c) = "ConnectApp" => Heard(m, "ConnectApp", c) = Admitted(m)
           /\ Class(c) = "FMLEStart" => Heard(m, "FMLEStart", c) = "CreateStream"
           /\ Class(c) = "CreateStream" => Heard(m, "CreateStream", c) = "Publish"
           /\ Class(c) = "Publish" => Heard(m, "Publish", c) = "record"
           /\ Heard(m, "check", c) = "check"
           /\ \A mode \in {"ConnectApp", "FMLEStart", "CreateStream", "Publish"} :
                 Class(c) # mode => Heard(m, mode, c) = mode
    BY DEF Heard

LEMMA CheckGoesOn ==
    ASSUME NEW m, NEW reqs, NEW t, NEW app, NEW calls, Remains(app, "check", calls), calls # <<>>
    PROVE  Waits(m, reqs, t, app, "check", Tail(calls))
<1>1. Listed(calls) /\ \A i \in 1..Len(calls) : CheckCall(calls[i])
    BY DEF Remains
<1>2. /\ Listed(Tail(calls)) /\ Len(calls) \in Nat /\ Len(Tail(calls)) = Len(calls) - 1
      /\ \A i \in 1..Len(Tail(calls)) : Tail(calls)[i] = calls[i + 1]
    BY <1>1, FrontTaken
<1>3. ASSUME NEW i \in 1..Len(Tail(calls)) PROVE CheckCall(Tail(calls)[i])
  <2>1. i + 1 \in 1..Len(calls)
    BY <1>2
  <2> QED BY <1>1, <1>2, <2>1
<1>4. Remains(app, "check", Tail(calls))
    BY <1>2, <1>3 DEF Remains
<1> QED BY <1>4, WaitsAtOnce

LEMMA CallsGoOn ==
    ASSUME NEW reqs, NEW x, ClientPacket(make, x), Known(make, reqs, x),
           NEW mode \in {"ConnectApp", "FMLEStart", "CreateStream", "Publish", "check"},
           NEW calls, Remains(Application, mode, calls), calls # <<>>, Suits(make, mode),
           mode = "check" \/ Class(x) = mode
    PROVE  /\ Waits(make, reqs, x.tid, Application, Heard(make, mode, x), Tail(calls))
           /\ Suits(make, Heard(make, mode, x))
<1>1. PICK app, t : app = Application /\ t = x.tid
    OBVIOUS
<1>2. CASE mode = "ConnectApp"
  <2>1. calls = Application /\ Heard(make, mode, x) = Admitted(make) /\ Class(x) = "ConnectApp"
    BY <1>2, HeardCalls DEF Remains, Ahead
  <2>2. make.own => Right(reqs, 1, "object")
    BY <2>1, RightAnswers
  <2>3. Waits(make, reqs, t, Application, Admitted(make), Tail(Application))
    BY <2>2, ApplicationIs
  <2>4. Suits(make, Admitted(make))
    BY DEF Suits, Admitted
  <2> QED BY <1>1, <2>1, <2>3, <2>4
<1>3. CASE mode = "FMLEStart"
  <2>1. /\ calls = Ahead(app, "FMLEStart") /\ Heard(make, mode, x) = "CreateStream"
        /\ Class(x) = "FMLEStart" /\ make.means = "FMLEPublish"
    BY <1>1, <1>3, HeardCalls DEF Remains, Suits
  <2>2. make.own => Right(reqs, t, "undefined")
    BY <1>1, <2>1, RightAnswers
  <2>3. Waits(make, reqs, t, app, "CreateStream", Tail(calls))
    BY <2>1, <2>2, FmleGoesOn
  <2> QED BY <1>1, <2>1, <2>3 DEF Suits
<1>4. CASE mode = "CreateStream"
  <2>1. /\ calls = Ahead(app, "CreateStream") /\ Heard(make, mode, x) = "Publish"
        /\ Class(x) = "CreateStream" /\ make.means = "FMLEPublish"
    BY <1>1, <1>4, HeardCalls DEF Remains, Suits
  <2>2. make.own => Right(reqs, t, "number")
    BY <1>1, <2>1, RightAnswers
  <2>3. Waits(make, reqs, t, app, "Publish", Tail(calls))
    BY <2>1, <2>2, CreateGoesOn
  <2> QED BY <1>1, <2>1, <2>3 DEF Suits
<1>5. CASE mode = "Publish"
  <2>1. /\ calls = Ahead(app, "Publish") /\ Heard(make, mode, x) = "record"
        /\ make.means = "FMLEPublish"
    BY <1>1, <1>5, HeardCalls DEF Remains, Suits
  <2>2. Waits(make, reqs, t, app, "record", Tail(calls))
    BY <2>1, PublishGoesOn
  <2> QED BY <1>1, <2>1, <2>2 DEF Suits
<1>6. CASE mode = "check"
  <2>1. Heard(make, mode, x) = "check"
    BY <1>6, HeardCalls
  <2>2. Waits(make, reqs, t, app, "check", Tail(calls))
    BY <1>1, <1>6, CheckGoesOn
  <2> QED BY <1>1, <2>1, <2>2 DEF Suits
<1> QED BY <1>2, <1>3, <1>4, <1>5, <1>6

LEMMA NoError ==
    ASSUME NEW x, x.name # "_result"
    PROVE  Decode("server", x) = Class(x) /\ Class(x) \notin {"error", "CreateStreamRes"}
    BY Classes DEF Decode, Class

LEMMA ServerExpects ==
    ASSUME HandshakeInv, SessionOK, ExpectMessage("server") PROVE SessionOK' /\ stage' = stage
<1>1. PICK call, x, class : /\ call = Head(todo["server"]) /\ x = Message("server")
                            /\ class = Decode("server", x)
    OBVIOUS
<1>2. /\ stage["server"] = "rtmp" /\ todo["server"] # <<>> /\ Incoming("server")
      /\ call.do = "expect" /\ Take("server", <<>>)
      /\ make' = make /\ UNCHANGED <<requests, identified, msgs, sent, got>>
    BY <1>1 DEF ExpectMessage, Doing, Same
<1>3. PICK calls, reqs, to : calls = todo["server"] /\ reqs = requests["client"] /\ to = Mode
    OBVIOUS
<1>4. Head(todo["server"]).do \notin SendingCalls
    BY <1>1, <1>2 DEF SendingCalls
<1>5. PICK mode \in Modes, c \in Modes :
          /\ Remains(Application, mode, calls) /\ Stops(mode, call)
          /\ Waits(make, reqs, tid["server"], Application, mode, calls)
          /\ Suits(make, mode) /\ Hears(make, mode, x, c)
          /\ Chained(make, c, Tail(ToServer), to)
          /\ x = Head(ToServer) /\ Known(make, reqs, x)
    BY <1>1, <1>2, <1>3, <1>4, ServerNext
<1>6. /\ mode \in {"ConnectApp", "FMLEStart", "CreateStream", "Publish", "check"}
      /\ mode # "check" => call.class = mode
    BY <1>2, <1>5 DEF Stops, Modes
<1>7. /\ x.name # "_result" /\ c = Heard(make, mode, x) /\ ~IsMedia(x) /\ ClientPacket(make, x)
    BY <1>5, <1>6 DEF Hears
<1>8. class = Class(x) /\ class \notin {"error", "CreateStreamRes"}
    BY <1>1, <1>7, NoError
<1>9. \/ /\ UNCHANGED <<stage, todo, tid, stream_id>>
         /\ mode # "check" => class # mode
      \/ /\ class = call.class /\ Continue("server") /\ stage' = stage
         /\ tid' = [tid EXCEPT !["server"] = x.tid]
         /\ stream_id' = [stream_id EXCEPT !["server"] = @]
  <2>1. \/ /\ Drops("server", class, x) /\ UNCHANGED <<stage, todo, tid, stream_id>>
        \/ /\ ~Drops("server", class, x) /\ class = "error"
        \/ /\ ~Drops("server", class, x) /\ class # "error" /\ Continue("server") /\ stage' = stage
           /\ tid' = [tid EXCEPT !["server"] = x.tid]
           /\ stream_id' = [stream_id EXCEPT !["server"] =
                              IF class = "CreateStreamRes" THEN x.id ELSE @]
    BY <1>1 DEF ExpectMessage
  <2>2. Drops("server", class, x) /\ mode # "check" => class # mode
    BY <1>1, <1>6, <1>8 DEF Drops, Call
  <2>3. ~Drops("server", class, x) => class = call.class
    BY <1>1, <1>8 DEF Drops, Call
  <2> QED BY <1>8, <2>1, <2>2, <2>3
<1>10. stage' = stage
    BY <1>9
<1>11. FieldsOK /\ DOMAIN todo = Sides /\ DOMAIN tid = Sides /\ DOMAIN stream_id = Sides
    BY DEF SessionOK, FieldsOK
<1>12. /\ DOMAIN tid' = Sides /\ DOMAIN todo' = Sides /\ todo'["client"] = todo["client"]
       /\ DOMAIN stream_id' = Sides /\ \A s \in Sides : stream_id'[s] = stream_id[s]
  <2>1. CASE UNCHANGED <<stage, todo, tid, stream_id>>
    BY <1>11, <2>1
  <2>2. CASE /\ Continue("server") /\ tid' = [tid EXCEPT !["server"] = x.tid]
             /\ stream_id' = [stream_id EXCEPT !["server"] = @]
    <3>1. DOMAIN stream_id' = Sides /\ \A s \in Sides : stream_id'[s] = stream_id[s]
      BY <1>11, <2>2 DEF Sides
    <3> QED BY <1>11, <2>2, <3>1 DEF Continue, Sides
  <2> QED BY <1>9, <2>1, <2>2
<1>13. Waits(make, reqs, tid'["server"], Application, c, todo'["server"]) /\ Suits(make, c)
  <2>1. CASE UNCHANGED <<stage, todo, tid, stream_id>> /\ (mode # "check" => class # mode)
    <3>1. c = mode
      BY <1>6, <1>7, <1>8, <2>1, HeardCalls
    <3> QED BY <1>3, <1>5, <2>1, <3>1
  <2>2. CASE /\ class = call.class /\ Continue("server")
             /\ tid' = [tid EXCEPT !["server"] = x.tid]
    <3>1. todo'["server"] = Tail(calls) /\ tid'["server"] = x.tid
      BY <1>3, <1>11, <2>2 DEF Continue, Sides
    <3>2. calls # <<>> /\ (mode = "check" \/ Class(x) = mode)
      BY <1>2, <1>3, <1>6, <1>8, <2>2
    <3>3. Waits(make, reqs, x.tid, Application, c, Tail(calls)) /\ Suits(make, c)
      BY <1>5, <1>6, <1>7, <3>2, CallsGoOn
    <3> QED BY <3>1, <3>3
  <2> QED BY <1>9, <2>1, <2>2
<1>14. Answers(<<>>, reqs, to)
    BY DEF Answers
<1>15. MediaOK'
    BY <1>2, <1>5, <1>7, <1>10, <1>14, ServerTakesNoMedia
<1>16. IdentifiedOK'
    BY <1>2 DEF SessionOK, IdentifiedOK
<1> QED BY <1>2, <1>3, <1>5, <1>10, <1>12, <1>13, <1>14, <1>15, <1>16, ServerTakes

----------------------------------------------------------------------------
(* The server finds out what a client is. *)

LEMMA WaitsListed ==
    ASSUME NEW m, NEW reqs, NEW t, NEW app, NEW mode, NEW calls, Waits(m, reqs, t, app, mode, calls)
    PROVE  Listed(calls)
<1>1. PICK pre, rest : Listed(pre) /\ calls = pre \o rest /\ Remains(app, mode, rest)
    BY DEF Waits
<1>2. Listed(rest)
    BY <1>1 DEF Remains
<1> QED BY <1>1, <1>2, Joined

LEMMA InsteadWaits ==
    ASSUME FieldsOK, Tail(todo["server"]) = <<>>, NEW m, NEW reqs, NEW t, NEW app, NEW mode, NEW calls,
           Waits(m, reqs, t, app, mode, calls), Instead("server", calls)
    PROVE  /\ DOMAIN todo' = Sides /\ todo'["client"] = todo["client"]
           /\ Waits(m, reqs, t, app, mode, todo'["server"])
<1>1. Listed(calls)
    BY WaitsListed
<1>2. calls \o <<>> = calls
    BY <1>1, ListedStays, Joined
<1> QED BY <1>2 DEF Instead, FieldsOK, Sides

LEMMA HeardIdentified ==
    ASSUME NEW m, NEW c, NEW mode \in {"identify", "created"}
    PROVE  /\ Class(c) = "CreateStream" => Heard(m, mode, c) = "created"
           /\ Class(c) = "Play" => Heard(m, mode, c) = "serve"
           /\ Class(c) = "Publish" => Heard(m, "created", c) = "record"
           /\ Class(c) = "FMLEStart" => Heard(m, "identify", c) = "FMLEStart"
           /\ /\ Class(c) \notin {"CreateStream", "Play"}
              /\ mode = "identify" => Class(c) # "FMLEStart"
              /\ mode = "created" => Class(c) # "Publish"
              => Heard(m, mode, c) = mode
    BY DEF Heard

LEMMA ClientIdentified ==
    ASSUME HandshakeInv, SessionOK, NEW x, ClientPacket(make, x),
           Known(make, requests["client"], x),
           NEW mode \in {"identify", "created"}, Takes(make, mode, x), Suits(make, mode),
           Tail(todo["server"]) = <<>>,
           Waits(make, requests["client"], tid["server"], Application, mode, todo["server"]),
           IdentifyMessage(x, IF x.type = "command" THEN Class(x) ELSE "none", mode = "created")
    PROVE  \E ms :
              /\ Take("server", ms) /\ Answers(ms, requests["client"], Mode)
              /\ identified' = identified \/ identified' = [type |-> make.means, stream |-> make.stream]
              /\ DOMAIN todo' = Sides /\ todo'["client"] = todo["client"]
              /\ Waits(make, requests["client"], tid["server"], Application,
                       Heard(make, mode, x), todo'["server"])
              /\ Suits(make, Heard(make, mode, x))
<1>1. PICK reqs, to, t, app, class : /\ reqs = requests["client"] /\ to = Mode /\ t = tid["server"]
                                     /\ app = Application
                                     /\ class = IF x.type = "command" THEN Class(x) ELSE "none"
    OBVIOUS
<1>2. FieldsOK /\ IdentifiedOK
    BY DEF SessionOK
<1>3. class = Class(x) \/ (class = "none" /\ Class(x) \notin
                              {"CreateStream", "Play", "Publish", "FMLEStart", "Call"})
    BY <1>1 DEF ClientPacket
<1>4. CASE class = "CreateStream"
  <2>1. /\ Take("server", << CreateStreamRes(x.tid, ServerStream) >>)
        /\ Instead("server", << Loop("identify created") >>)
        /\ identified' = identified
    BY <1>1, <1>4 DEF IdentifyMessage
  <2>2. Class(x) = "CreateStream" /\ Heard(make, mode, x) = "created"
    BY <1>3, <1>4, HeardIdentified
  <2>3. Answers(<< CreateStreamRes(x.tid, ServerStream) >>, reqs, to)
    <3>1. PICK y : y = CreateStreamRes(x.tid, ServerStream)
      OBVIOUS
    <3>2. /\ y.type = "command" /\ y.name = "_result" /\ y.tid = x.tid /\ y.value = "number"
          /\ y.id = ServerStream
      BY <3>1 DEF CreateStreamRes, Result, Command, Blank
    <3>3. make.own => Right(reqs, x.tid, "number")
      BY <1>1, <2>2, RightAnswers
    <3> QED BY <3>1, <3>2, <3>3 DEF Answers, Answering, IsMedia, PartTypes
  <2>4. Waits(make, reqs, t, app, "created", << Loop("identify created") >>)
    <3>1. Remains(app, "created", << Loop("identify created") >>)
      BY ListedTuples DEF Remains, Ahead
    <3> QED BY <3>1, WaitsAtOnce
  <2>5. /\ DOMAIN todo' = Sides /\ todo'["client"] = todo["client"]
        /\ Waits(make, reqs, t, app, "created", todo'["server"])
    BY <1>2, <2>1, <2>4, InsteadWaits
  <2>6. Suits(make, "created")
    BY DEF Suits
  <2> QED BY <1>1, <1>2, <2>1, <2>2, <2>3, <2>5, <2>6
<1>5. ASSUME NEW type \in {"Play", "FlashPublish", "FMLEPublish"}, NEW next, NEW ms,
             next = Heard(make, mode, x), make.means = type, x.stream = make.stream,
             Waits(make, reqs, t, app, next, Start(type)), Suits(make, next),
             Take("server", ms), Answers(ms, reqs, to), IdentifiedAs(type, x)
      PROVE  /\ Take("server", ms) /\ Answers(ms, reqs, to)
             /\ identified' = [type |-> make.means, stream |-> make.stream]
             /\ DOMAIN todo' = Sides /\ todo'["client"] = todo["client"]
             /\ Waits(make, reqs, t, app, next, todo'["server"]) /\ Suits(make, next)
  <2>1. Instead("server", Start(type)) /\ identified' = [type |-> type, stream |-> x.stream]
    BY <1>5 DEF IdentifiedAs
  <2>2. /\ DOMAIN todo' = Sides /\ todo'["client"] = todo["client"]
        /\ Waits(make, reqs, t, app, next, todo'["server"])
    BY <1>2, <1>5, <2>1, InsteadWaits
  <2> QED BY <1>5, <2>1, <2>2
<1>6. CASE class = "Play"
  <2>1. Take("server", <<>>) /\ IdentifiedAs("Play", x)
    BY <1>1, <1>6 DEF IdentifyMessage
  <2>2. Class(x) = "Play" /\ Heard(make, mode, x) = "serve"
    BY <1>3, <1>6, HeardIdentified
  <2>3. make.means = "Play" /\ x.stream = make.stream
    BY <2>2 DEF Takes
  <2>4. Suits(make, "serve") /\ Waits(make, reqs, t, app, "serve", Start("Play"))
    BY <2>3, Started DEF Suits
  <2> QED BY <1>1, <1>2, <1>5, <2>1, <2>2, <2>3, <2>4 DEF Answers
<1>7. CASE class = "Publish" /\ mode = "created"
  <2>1. Take("server", <<>>) /\ IdentifiedAs("FlashPublish", x)
    BY <1>1, <1>7 DEF IdentifyMessage
  <2>2. Class(x) = "Publish" /\ Heard(make, mode, x) = "record"
    BY <1>3, <1>7, HeardIdentified
  <2>3. make.means = "FlashPublish" /\ x.stream = make.stream
    BY <1>7, <2>2 DEF Takes
  <2>4. Suits(make, "record") /\ Waits(make, reqs, t, app, "record", Start("FlashPublish"))
    BY <2>3, Started DEF Suits
  <2> QED BY <1>1, <1>2, <1>5, <2>1, <2>2, <2>3, <2>4 DEF Answers
<1>8. CASE class = "FMLEStart" /\ mode = "identify"
  <2>1. Take("server", << Result(x.tid, "undefined") >>) /\ IdentifiedAs("FMLEPublish", x)
    BY <1>1, <1>8 DEF IdentifyMessage
  <2>2. Class(x) = "FMLEStart" /\ Heard(make, mode, x) = "FMLEStart"
    BY <1>3, <1>8, HeardIdentified
  <2>3. make.means = "FMLEPublish" /\ x.stream = make.stream
    BY <1>8, <2>2 DEF Takes
  <2>4. Suits(make, "FMLEStart") /\ Waits(make, reqs, t, app, "FMLEStart", Start("FMLEPublish"))
    BY <2>3, Started DEF Suits
  <2>5. Answers(<< Result(x.tid, "undefined") >>, reqs, to)
    <3>1. PICK y : y = Result(x.tid, "undefined")
      OBVIOUS
    <3>2. y.type = "command" /\ y.tid = x.tid /\ y.value = "undefined"
      BY <3>1 DEF Result, Command, Blank
    <3>3. make.own => Right(reqs, x.tid, "undefined")
      BY <1>1, <2>2, RightAnswers
    <3> QED BY <3>1, <3>2, <3>3 DEF Answers, Answering, IsMedia, PartTypes
  <2> QED BY <1>1, <1>2, <1>5, <2>1, <2>2, <2>3, <2>4, <2>5
<1>9. CASE /\ class \notin {"CreateStream", "Play"} /\ ~(class = "Publish" /\ mode = "created")
           /\ ~(class = "FMLEStart" /\ mode = "identify")
  <2>1. Heard(make, mode, x) = mode
    BY <1>3, <1>9, HeardIdentified
  <2>2. ASSUME NEW ms, Take("server", ms), Answers(ms, reqs, to), UNCHANGED <<todo, identified>>
        PROVE  \E ms2 :
                  /\ Take("server", ms2) /\ Answers(ms2, reqs, to) /\ identified' = identified
                  /\ DOMAIN todo' = Sides /\ todo'["client"] = todo["client"]
                  /\ Waits(make, reqs, t, app, mode, todo'["server"])
    BY <1>1, <1>2, <2>2 DEF FieldsOK
  <2>3. \E ms : Take("server", ms) /\ Answers(ms, reqs, to) /\ UNCHANGED <<todo, identified>>
    <3>1. CASE class = "Call" /\ mode = "identify"
      <4>1. Take("server", << Result(x.tid, "null") >>) /\ UNCHANGED <<todo, identified>>
        BY <1>1, <3>1 DEF IdentifyMessage
      <4>2. Class(x) = "Call"
        BY <1>3, <3>1
      <4>3. ~make.own
        BY <4>2, Classes DEF ClientPacket, Class
      <4>4. PICK y : y = Result(x.tid, "null")
        OBVIOUS
      <4>5. y.type = "command" /\ y.value = "null"
        BY <4>4 DEF Result, Command, Blank
      <4> QED BY <4>1, <4>3, <4>4, <4>5 DEF Answers, Answering, IsMedia, PartTypes
    <3>2. CASE ~(class = "Call" /\ mode = "identify")
      <4>1. Take("server", <<>>) /\ UNCHANGED <<todo, identified>>
        BY <1>1, <1>9, <3>2 DEF IdentifyMessage
      <4> QED BY <4>1 DEF Answers
    <3> QED BY <3>1, <3>2
  <2> QED BY <1>1, <1>2, <2>1, <2>2, <2>3
<1> QED BY <1>4, <1>6, <1>7, <1>8, <1>9

LEMMA IdentifyClientOK ==
    ASSUME HandshakeInv, SessionOK, IdentifyClient PROVE SessionOK' /\ stage' = stage
<1>1. PICK x : x = Message("server")
    OBVIOUS
<1>2. /\ stage["server"] = "rtmp" /\ todo["server"] # <<>> /\ Incoming("server")
      /\ Head(todo["server"]).do \in {"identify", "identify created"}
      /\ make' = make /\ UNCHANGED <<requests, tid, stream_id, msgs, sent, got>>
    BY DEF IdentifyClient, Doing, Same
<1>3. PICK calls, reqs, to : calls = todo["server"] /\ reqs = requests["client"] /\ to = Mode
    OBVIOUS
<1>4. Head(calls).do \notin SendingCalls
    BY <1>2, <1>3 DEF SendingCalls
<1>5. PICK mode \in Modes, c \in Modes :
          /\ Remains(Application, mode, calls) /\ Stops(mode, Head(calls))
          /\ Waits(make, reqs, tid["server"], Application, mode, calls)
          /\ Suits(make, mode) /\ Hears(make, mode, x, c)
          /\ Chained(make, c, Tail(ToServer), to)
          /\ x = Head(ToServer) /\ Known(make, reqs, x)
    BY <1>1, <1>2, <1>3, <1>4, ServerNext
<1>6. /\ mode \in {"identify", "created"}
      /\ Doing("server", "identify created") <=> mode = "created"
    BY <1>2, <1>3, <1>5 DEF Stops, Modes, Doing
<1>7. Tail(calls) = <<>>
  <2>1. calls = << Identify >> \/ calls = << Loop("identify created") >>
    BY <1>5, <1>6 DEF Remains, Ahead
  <2>2. \A call : Tail(<< call >>) = <<>>
    OBVIOUS
  <2> QED BY <2>1, <2>2
<1>8. /\ x.name # "_result" /\ c = Heard(make, mode, x) /\ ~IsMedia(x) /\ ClientPacket(make, x)
      /\ Takes(make, mode, x)
    BY <1>5, <1>6 DEF Hears
<1>9. /\ stage' = stage
      /\ IdentifyMessage(x, IF x.type = "command" THEN Class(x) ELSE "none", mode = "created")
  <2>1. Decode("server", x) = Class(x) /\ Class(x) # "error"
    BY <1>8, NoError
  <2>2. PICK class, created :
            /\ class = IF x.type = "command" THEN Decode("server", x) ELSE "none"
            /\ created = Doing("server", "identify created")
    OBVIOUS
  <2>3. class # "error" /\ class = IF x.type = "command" THEN Class(x) ELSE "none"
    BY <2>1, <2>2
  <2>4. IF class = "error"
        THEN Take("server", <<>>) /\ Enter("server", "failed") /\ UNCHANGED <<todo, identified>>
        ELSE IdentifyMessage(x, class, created) /\ UNCHANGED stage
    BY <1>1, <2>2, Zenon DEF IdentifyClient
  <2>5. IdentifyMessage(x, class, created) /\ stage' = stage
    BY <2>3, <2>4
  <2>6. created = (mode = "created")
    BY <1>6, <2>2 DEF Doing
  <2> QED BY <2>3, <2>5, <2>6
<1>10. PICK ms :
          /\ Take("server", ms) /\ Answers(ms, reqs, to)
          /\ identified' = identified \/ identified' = [type |-> make.means, stream |-> make.stream]
          /\ DOMAIN todo' = Sides /\ todo'["client"] = todo["client"]
          /\ Waits(make, reqs, tid["server"], Application, c, todo'["server"])
          /\ Suits(make, c)
    BY <1>3, <1>5, <1>6, <1>7, <1>8, <1>9, ClientIdentified
<1>11. IdentifiedOK'
    BY <1>2, <1>10 DEF SessionOK, IdentifiedOK
<1>12. MediaOK'
    BY <1>2, <1>5, <1>8, <1>9, <1>10, ServerTakesNoMedia
<1>13. /\ DOMAIN tid' = Sides /\ tid'["server"] = tid["server"]
       /\ DOMAIN stream_id' = Sides /\ \A s \in Sides : stream_id'[s] = stream_id[s]
    BY <1>2 DEF SessionOK, FieldsOK
<1> QED BY <1>2, <1>3, <1>5, <1>9, <1>10, <1>11, <1>12, <1>13, ServerTakes

----------------------------------------------------------------------------
(* Media is sent and taken. *)

LEMMA NothingPending ==
    ASSUME NEW g, Listed(g) PROVE g \o Pending(<<>>) = g
<1>1. PICK none : none = <<>>
    OBVIOUS
<1>2. Pending(none) = <<>>
  <2>1. 1..Len(none) = {}
    BY <1>1
  <2> QED BY <2>1 DEF Pending
<1> QED BY <1>1, <1>2, ListedStays, Joined

LEMMA MediumSent ==
    ASSUME HandshakeInv, MediaOK, NEW x, Sent(make.means, x), DOMAIN x = DOMAIN Blank,
           sent' = Append(sent, x), make' = make, UNCHANGED <<msgs, got>>,
           Arrives' => Arrives /\ Way' = Way \o << x >>
    PROVE  MediaOK'
<1>1. PICK means, s, w, q, g : means = make.means /\ s = sent /\ w = Way /\ q = msgs /\ g = got
    OBVIOUS
<1>2. /\ Listed(s) /\ Listed(w) /\ Listed(g) /\ Cached(means, q)
      /\ \A i \in 1..Len(s) : Sent(means, s[i]) /\ DOMAIN s[i] = DOMAIN Blank
    BY <1>1, ServerThrough DEF Way, MediaOK, SentOK
<1>3. PICK c, F : /\ c \in 0..Len(s) /\ Flat(means, s, F) /\ g \o Pending(q) = F[c + 1]
                  /\ Arrives => Counted(s, w, c)
    BY <1>1 DEF MediaOK, Arrived
<1>4. PICK more : more = s \o << x >>
    OBVIOUS
<1>5. /\ Listed(more) /\ Len(s) \in Nat /\ Len(more) = Len(s) + 1 /\ more[Len(s) + 1] = x
      /\ \A i \in 1..Len(s) : more[i] = s[i]
      /\ sent' = more
  <2>1. sent' = Append(s, x)
    BY <1>1
  <2>2. /\ Listed(s \o << x >>) /\ Len(s) \in Nat /\ Len(s \o << x >>) = Len(s) + 1
        /\ (s \o << x >>)[Len(s) + 1] = x
        /\ \A i \in 1..Len(s) : (s \o << x >>)[i] = s[i]
        /\ Append(s, x) = s \o << x >>
    BY <1>2, EndPut
  <2> QED BY <1>4, <2>1, <2>2
<1>6. SentOK(means, more)
  <2>1. ASSUME NEW i \in 1..Len(more) PROVE Sent(means, more[i]) /\ DOMAIN more[i] = DOMAIN Blank
    <3>1. CASE i = Len(s) + 1
      BY <1>1, <1>5, <3>1
    <3>2. CASE i # Len(s) + 1
      <4>1. i \in 1..Len(s)
        BY <1>5, <3>2
      <4> QED BY <1>2, <1>5, <4>1
    <3> QED BY <3>1, <3>2
  <2> QED BY <1>5, <2>1 DEF SentOK
<1>7. PICK G : Flat(means, more, G) /\ \A k \in 1..(Len(s) + 1) : G[k] = F[k]
    BY <1>2, <1>3, <1>4, FlatMore
<1>8. c \in 0..Len(more) /\ G[c + 1] = F[c + 1]
  <2>1. c + 1 \in 1..(Len(s) + 1) /\ c \in 0..(Len(s) + 1)
    BY <1>3, <1>5
  <2> QED BY <1>5, <1>7, <2>1
<1>9. Arrives' => Counted(more, Way', c)
  <2>1. SUFFICES ASSUME Arrives' PROVE Counted(more, w \o << x >>, c)
    BY <1>1
  <2>2. Counted(s, w, c) /\ IsMedia(x)
    BY <1>3, <2>1 DEF Sent
  <2> QED BY <1>2, <1>4, <2>2, CountedMore
<1>10. Arrived(means, more, q, g, Way', Arrives')
    BY <1>3, <1>7, <1>8, <1>9 DEF Arrived
<1> QED BY <1>1, <1>2, <1>5, <1>6, <1>10 DEF MediaOK

LEMMA MediumTaken ==
    ASSUME NEW means, NEW s, NEW g, NEW w, SentOK(means, s), Listed(g), Listed(w), w # <<>>,
           IsMedia(Head(w)), Arrived(means, s, <<>>, g, w, TRUE)
    PROVE  /\ Sent(means, Head(w)) /\ DOMAIN Head(w) = DOMAIN Blank
           /\ \A q2, g2 : g2 \o Pending(q2) = g \o PartsOf(means, Head(w)) =>
                             Arrived(means, s, q2, g2, Tail(w), TRUE)
<1>1. PICK c, F : /\ c \in 0..Len(s) /\ Flat(means, s, F) /\ g \o Pending(<<>>) = F[c + 1]
                  /\ Counted(s, w, c)
    BY DEF Arrived
<1>2. g = F[c + 1]
    BY <1>1, NothingPending
<1>3. PICK k \in Nat : Counts(s, Head(w), c, k) /\ Counted(s, Tail(w), k)
    BY <1>1, CountedTaken
<1>4. c < Len(s) /\ Head(w) = s[c + 1] /\ k = c + 1
    BY <1>3 DEF Counts
<1>5. Len(s) \in Nat /\ c + 1 \in 1..Len(s) /\ c + 1 \in 0..Len(s)
  <2>1. Len(s) \in Nat
    BY DEF SentOK, Listed
  <2> QED BY <1>1, <1>4, <2>1
<1>6. Sent(means, Head(w)) /\ DOMAIN Head(w) = DOMAIN Blank
    BY <1>4, <1>5 DEF SentOK
<1>7. F[(c + 1) + 1] = F[c + 1] \o PartsOf(means, s[c + 1])
    BY <1>1, <1>5 DEF Flat
<1>8. F[(c + 1) + 1] = g \o PartsOf(means, Head(w))
    BY <1>2, <1>4, <1>7
<1>9. ASSUME NEW q2, NEW g2, g2 \o Pending(q2) = g \o PartsOf(means, Head(w))
      PROVE  Arrived(means, s, q2, g2, Tail(w), TRUE)
  <2>1. Counted(s, Tail(w), c + 1)
    BY <1>3, <1>4
  <2> QED BY <1>1, <1>5, <1>8, <1>9, <2>1 DEF Arrived
<1> QED BY <1>6, <1>9

----------------------------------------------------------------------------
(* The server takes a message of a client it serves or records. *)

LEMMA HeardServed ==
    ASSUME NEW m, NEW c
    PROVE  /\ c.name = "FCUnpublish" => Heard(m, "record", c) = "identify"
           /\ c.name # "FCUnpublish" => Heard(m, "record", c) = "record"
           /\ Heard(m, "serve", c) = "serve"
    BY DEF Heard

LEMMA Unpublished ==
    ASSUME NEW reqs, NEW t, NEW app, NEW x, Known(make, reqs, x), x.name = "FCUnpublish"
    PROVE  Waits(make, reqs, t, app, "identify", FmleUnpublish(x.tid) \o << Identify >>)
<1>1. PICK n, more : n = x.tid /\ more = FmleUnpublish(n)
    OBVIOUS
<1>2. make.own => Right(reqs, n, "undefined")
    BY <1>1 DEF Known, Remembers, Right, AnswerTo
<1>3. /\ Fit(make, reqs, t, SendOn(Command("onFCUnpublish", 0)))
      /\ Fit(make, reqs, t, SendOn(Result(n, "undefined")))
      /\ Fit(make, reqs, t, SendOn(Command("onStatus", 0)))
    BY <1>2, FitSends
<1>4. \A i \in 1..Len(more) : Fit(make, reqs, t, more[i])
    BY <1>1, <1>3, FitTuples DEF FmleUnpublish
<1>5. Listed(more)
    BY <1>1, ListedTuples DEF FmleUnpublish
<1>6. Remains(app, "identify", << Identify >>)
    BY ListedTuples DEF Remains, Ahead
<1> QED BY <1>1, <1>4, <1>5, <1>6, WaitsMore

LEMMA Paused ==
    ASSUME NEW reqs, NEW t, NEW app, NEW calls, Waits(make, reqs, t, app, "serve", calls)
    PROVE  Waits(make, reqs, t, app, "serve", OnPlayClientPause \o calls)
<1>1. PICK more : more = OnPlayClientPause
    OBVIOUS
<1>2. /\ Fit(make, reqs, t, SendOn(Command("onStatus", 0)))
      /\ Fit(make, reqs, t, Send(Control("UserControl")))
    BY FitSends
<1>3. \A i \in 1..Len(more) : Fit(make, reqs, t, more[i])
    BY <1>1, <1>2, FitTuples DEF OnPlayClientPause
<1>4. Listed(more)
    BY <1>1, ListedTuples DEF OnPlayClientPause
<1> QED BY <1>1, <1>3, <1>4, WaitsMore

LEMMA ServeMessageOK ==
    ASSUME HandshakeInv, SessionOK, ServeMessage PROVE SessionOK' /\ stage' = stage
<1>1. PICK x : x = Message("server")
    OBVIOUS
<1>2. /\ stage["server"] = "rtmp" /\ todo["server"] # <<>> /\ Incoming("server")
      /\ Head(todo["server"]).do \in {"serve", "record"} /\ Take("server", <<>>) /\ stage' = stage
      /\ make' = make /\ UNCHANGED <<requests, tid, stream_id, identified, msgs, sent>>
    BY DEF ServeMessage, Doing, Same
<1>3. PICK calls, reqs, to, t : /\ calls = todo["server"] /\ reqs = requests["client"]
                                /\ to = Mode /\ t = tid["server"]
    OBVIOUS
<1>4. Head(calls).do \notin SendingCalls
    BY <1>2, <1>3 DEF SendingCalls
<1>5. PICK mode \in Modes, c \in Modes :
          /\ Remains(Application, mode, calls) /\ Stops(mode, Head(calls))
          /\ Waits(make, reqs, t, Application, mode, calls)
          /\ Suits(make, mode) /\ Hears(make, mode, x, c)
          /\ Chained(make, c, Tail(ToServer), to)
          /\ x = Head(ToServer) /\ Known(make, reqs, x)
    BY <1>1, <1>2, <1>3, <1>4, ServerNext
<1>6. mode \in {"serve", "record"} /\ Head(calls).do = mode /\ c = Heard(make, mode, x)
    BY <1>2, <1>3, <1>5 DEF Stops, Modes, Hears
<1>7. Doing("server", "record") <=> mode = "record"
    BY <1>2, <1>3, <1>6 DEF Doing
<1>8. /\ got' = IF mode = "record" /\ IsMedia(x) THEN Append(got, GotPacket(x)) ELSE got
      /\ IF mode = "record" /\ x.name = "FCUnpublish"
         THEN Instead("server", FmleUnpublish(x.tid) \o << Identify >>)
         ELSE IF mode # "record" /\ x.name = "pause"
         THEN todo' = [todo EXCEPT !["server"] = OnPlayClientPause \o @]
         ELSE UNCHANGED todo
    BY <1>1, <1>7 DEF ServeMessage
<1>9. FieldsOK /\ MediaOK /\ IdentifiedOK
    BY DEF SessionOK
<1>10. /\ DOMAIN todo' = Sides /\ todo'["client"] = todo["client"]
       /\ Waits(make, reqs, t, Application, c, todo'["server"]) /\ Suits(make, c)
  <2>1. CASE mode = "record" /\ x.name = "FCUnpublish"
    <3>1. c = "identify" /\ Instead("server", FmleUnpublish(x.tid) \o << Identify >>)
      BY <1>6, <1>8, <2>1, HeardServed
    <3>2. Waits(make, reqs, t, Application, "identify", FmleUnpublish(x.tid) \o << Identify >>)
      BY <1>5, <2>1, Unpublished
    <3>3. Tail(calls) = <<>>
      <4>1. calls = << Loop("record") >>
        BY <1>5, <2>1 DEF Remains, Ahead
      <4>2. \A call : Tail(<< call >>) = <<>>
        OBVIOUS
      <4> QED BY <4>1, <4>2
    <3> QED BY <1>3, <1>9, <3>1, <3>2, <3>3, InsteadWaits DEF Suits
  <2>2. CASE mode = "serve" /\ x.name = "pause"
    <3>1. c = "serve" /\ todo' = [todo EXCEPT !["server"] = OnPlayClientPause \o @]
      BY <1>6, <1>8, <2>2, HeardServed
    <3>2. Waits(make, reqs, t, Application, "serve", OnPlayClientPause \o calls)
      BY <1>5, <2>2, Paused
    <3>3. /\ DOMAIN todo' = Sides /\ todo'["client"] = todo["client"]
          /\ todo'["server"] = OnPlayClientPause \o calls
      BY <1>3, <1>9, <3>1 DEF FieldsOK, Sides
    <3> QED BY <1>5, <2>2, <3>1, <3>2, <3>3
  <2>3. CASE ~(mode = "record" /\ x.name = "FCUnpublish") /\ ~(mode = "serve" /\ x.name = "pause")
    <3>1. c = mode /\ todo' = todo
      BY <1>6, <1>8, <2>3, HeardServed
    <3> QED BY <1>3, <1>5, <1>9, <3>1 DEF FieldsOK
  <2> QED BY <1>6, <2>1, <2>2, <2>3
<1>11. Answers(<<>>, reqs, to)
    BY DEF Answers
<1>12. MediaOK'
  <2>1. CASE ~(mode = "record" /\ IsMedia(x))
    <3>1. got' = got
      BY <1>8, <2>1
    <3>2. make.means = "Play" \/ ~IsMedia(Head(ToServer))
      <4>1. CASE mode = "serve"
        BY <1>5, <4>1 DEF Suits
      <4>2. CASE mode = "record"
        <5>1. ~IsMedia(x)
          BY <2>1, <4>2
        <5> QED BY <1>5, <5>1
      <4> QED BY <1>6, <4>1, <4>2
    <3> QED BY <1>2, <1>11, <3>1, <3>2, ServerTakesNoMedia
  <2>2. CASE mode = "record" /\ IsMedia(x)
    <3>1. make.means # "Play" /\ got' = Append(got, GotPacket(x))
      BY <1>5, <1>8, <2>2 DEF Suits
    <3>2. /\ ToServer # <<>> /\ ToServer' = Tail(ToServer)
      BY <1>2, ListedStays, TakenByServer
    <3>3. PICK means, s, g, w : means = make.means /\ s = sent /\ g = got /\ w = ToServer
      OBVIOUS
    <3>4. msgs = <<>> /\ SentOK(means, s) /\ Listed(g)
      BY <1>9, <3>1, <3>3 DEF MediaOK, Cached
    <3>5. Way = w /\ Way' = Tail(w) /\ w # <<>> /\ Listed(w)
      BY <1>2, <3>1, <3>2, <3>3, ServerThrough DEF Way
    <3>6. Arrives
      BY <1>2, <3>1 DEF Arrives, Over
    <3>7. Arrived(means, s, <<>>, g, w, TRUE)
      BY <1>9, <3>3, <3>4, <3>5, <3>6 DEF MediaOK, Arrived
    <3>8. Head(w) = x /\ IsMedia(Head(w))
      <4>1. Head(w) = x
        BY <1>5, <3>3
      <4> QED BY <2>2, <4>1
    <3>9. /\ Sent(means, x)
          /\ \A q2, g2 : g2 \o Pending(q2) = g \o PartsOf(means, x) =>
                            Arrived(means, s, q2, g2, Tail(w), TRUE)
      BY <3>4, <3>5, <3>7, <3>8, MediumTaken
    <3>10. PartsOf(means, x) = << GotPacket(x) >>
      <4>1. x.type # "aggregate"
        BY <3>1, <3>3, <3>9 DEF Sent
      <4> QED BY <3>1, <3>3, <3>9, <4>1, OnePart
    <3>11. PICK y : y = GotPacket(x)
      OBVIOUS
    <3>12. got' = g \o << y >> /\ Listed(g \o << y >>)
      <4>1. Append(g, y) = g \o << y >> /\ Listed(g \o << y >>)
        BY <3>4, EndPut
      <4> QED BY <3>1, <3>3, <3>11, <4>1
    <3>13. (g \o << y >>) \o Pending(<<>>) = g \o PartsOf(means, x)
      BY <3>10, <3>11, <3>12, NothingPending
    <3>14. Arrived(means, s, <<>>, g \o << y >>, Tail(w), TRUE)
      BY <3>9, <3>13
    <3>15. Arrived(means, s, <<>>, g \o << y >>, Tail(w), Arrives')
      BY <3>14 DEF Arrived
    <3> QED BY <1>2, <1>9, <3>3, <3>4, <3>5, <3>12, <3>15 DEF MediaOK
  <2> QED BY <2>1, <2>2
<1>13. IdentifiedOK'
    BY <1>2, <1>9 DEF IdentifiedOK
<1>14. /\ DOMAIN tid' = Sides /\ tid'["server"] = t
       /\ DOMAIN stream_id' = Sides /\ \A s \in Sides : stream_id'[s] = stream_id[s]
    BY <1>2, <1>3, <1>9 DEF FieldsOK
<1> QED BY <1>2, <1>3, <1>5, <1>10, <1>11, <1>12, <1>13, <1>14, ServerTakes

----------------------------------------------------------------------------
(* The client and the server send media, and the client stops. *)

\* What a step of media leaves alone.
LEMMA Untouched ==
    ASSUME SessionOK, make' = make, UNCHANGED <<todo, requests, tid, stream_id, identified>>
    PROVE  /\ Pos' = Pos /\ Mode' = Mode /\ Application' = Application
           /\ FieldsOK' /\ ScriptOK' /\ StreamOK' /\ IdentifiedOK'
<1>1. /\ FieldsOK /\ ScriptOK /\ StreamOK /\ IdentifiedOK
    BY DEF SessionOK
<1>2. Pos' = Pos /\ Mode' = Mode /\ Application' = Application /\ ScriptOK'
    BY <1>1, ClientStays
<1>3. FieldsOK'
    BY <1>1 DEF FieldsOK
<1>4. StreamOK'
    BY <1>1, <1>2 DEF StreamOK
<1>5. IdentifiedOK'
    BY <1>1 DEF IdentifiedOK
<1> QED BY <1>2, <1>3, <1>4, <1>5

LEMMA MediumIs ==
    ASSUME NEW means, NEW d \in Media, NEW s, means # "Play" => d.subs = <<>>
    PROVE  /\ Sent(means, Medium(d, s)) /\ DOMAIN Medium(d, s) = DOMAIN Blank
           /\ IsMedia(Medium(d, s)) /\ Medium(d, s).name = Medium(d, s).type
<1>1. PICK x, n, sid : x = Medium(d, s) /\ n = Len(sent) + 1 /\ sid = stream_id[s]
    OBVIOUS
<1>2. x = [Blank EXCEPT !.type = d.type, !.name = d.type, !.ts = d.ts, !.subs = d.subs,
                        !.id = n, !.sid = sid]
    BY <1>1 DEF Medium
<1>3. /\ x.type = d.type /\ x.name = d.type /\ x.ts = d.ts /\ x.subs = d.subs
      /\ DOMAIN x = DOMAIN Blank
    BY <1>2 DEF Blank
<1>4. /\ IsMedia(d) /\ d.ts \in Nat /\ d.subs \in Seq(SubMessage)
      /\ d.type = "aggregate" <=> d.subs # <<>>
      /\ \A i, j \in DOMAIN d.subs : i <= j => d.subs[i].ts <= d.subs[j].ts
    BY MediaAssumption
<1>5. DOMAIN d.subs = 1..Len(d.subs)
    BY <1>4
<1>6. IsMedia(x)
    BY <1>3, <1>4 DEF IsMedia
<1>7. Sent(means, x)
    BY <1>3, <1>4, <1>5, <1>6 DEF Sent
<1> QED BY <1>1, <1>3, <1>6, <1>7

LEMMA MediaNames ==
    ASSUME NEW x, IsMedia(x), x.name = x.type
    PROVE  x.name \notin Remembers \cup {"_result", "FCUnpublish"}
    BY DEF IsMedia, PartTypes, Remembers

LEMMA WritePacketOK ==
    ASSUME HandshakeInv, SessionOK, WritePacket PROVE SessionOK' /\ stage' = stage
<1>1. PICK d, x :
          /\ d \in Media /\ x = Medium(d, "client") /\ d.subs = <<>> /\ sent' = Append(sent, x)
          /\ wire' = [wire EXCEPT !["server"] = @ \o << x >>]
    BY DEF WritePacket, NewMedium, Put, Peer
<1>2. /\ stage["client"] = "rtmp" /\ todo["client"] # <<>> /\ Head(todo["client"]).do = "write"
      /\ ~Over("server") /\ make' = make /\ stage' = stage
      /\ UNCHANGED <<todo, requests, tid, stream_id, identified, msgs, got>>
    BY DEF WritePacket, NewMedium, Doing, Peer, Same
<1>3. make.means # "Play" /\ Mode \in {"record", "refuse"} /\ Mode \in Modes
  <2>1. CallInOrder(make, Mode, Head(todo["client"])) /\ Mode \in Modes
    BY <1>2, ScriptStep
  <2> QED BY <1>2, <2>1 DEF CallInOrder
<1>4. PICK means, reqs, to, w : /\ means = make.means /\ reqs = requests["client"]
                                /\ to = Mode /\ w = ToServer
    OBVIOUS
<1>5. /\ Sent(means, x) /\ DOMAIN x = DOMAIN Blank /\ IsMedia(x) /\ x.name = x.type
    BY <1>1, MediumIs
<1>6. x.name \notin Remembers \cup {"_result", "FCUnpublish"}
    BY <1>5, MediaNames
<1>7. ToServer' = w \o << x >> /\ ToClient' = ToClient
    BY <1>1, <1>2, <1>4, SaidToServer
<1>8. /\ Pos' = Pos /\ Mode' = Mode /\ Application' = Application
      /\ FieldsOK' /\ ScriptOK' /\ StreamOK' /\ IdentifiedOK'
    BY <1>2, Untouched
<1>9. RequestsOK /\ AnswersOK /\ WaitsOK /\ MediaOK
    BY DEF SessionOK
<1>10. RequestsOK'
  <2>1. Listed(w) /\ \A i \in 1..Len(w) : Known(make, reqs, w[i])
    BY <1>4, <1>9 DEF RequestsOK
  <2>2. /\ Listed(w \o << x >>) /\ Len(w) \in Nat /\ Len(w \o << x >>) = Len(w) + 1
        /\ (w \o << x >>)[Len(w) + 1] = x
        /\ \A i \in 1..Len(w) : (w \o << x >>)[i] = w[i]
    BY <2>1, EndPut
  <2>3. ASSUME NEW i \in 1..Len(w \o << x >>) PROVE Known(make, reqs, (w \o << x >>)[i])
    <3>1. CASE i = Len(w) + 1
      BY <1>6, <2>2, <3>1 DEF Known
    <3>2. CASE i # Len(w) + 1
      <4>1. i \in 1..Len(w)
        BY <2>2, <3>2
      <4> QED BY <2>1, <2>2, <4>1
    <3> QED BY <3>1, <3>2
  <2> QED BY <1>2, <1>4, <1>7, <1>8, <1>9, <2>2, <2>3 DEF RequestsOK
<1>11. AnswersOK'
    BY <1>2, <1>7, <1>8, <1>9 DEF AnswersOK
<1>12. WaitsOK'
  <2>1. PICK mode \in Modes :
            /\ Waits(make, reqs, tid["server"], Application, mode, todo["server"])
            /\ Suits(make, mode) /\ Chained(make, mode, w, to)
    BY <1>2, <1>4, <1>9 DEF WaitsOK, Follows
  <2>2. Heard(make, to, x) = to
    BY <1>3, <1>4, <1>6 DEF Heard
  <2>3. Hears(make, to, x, to)
    BY <1>3, <1>4, <1>5, <1>6, <2>2 DEF Hears, Takes
  <2>4. Listed(w)
    BY <1>4, <1>9 DEF RequestsOK
  <2>5. Chained(make, mode, w \o << x >>, to)
    BY <1>3, <1>4, <2>1, <2>3, <2>4, ChainSaid
  <2> QED BY <1>2, <1>4, <1>7, <1>8, <2>1, <2>5 DEF WaitsOK, Follows
<1>13. MediaOK'
  <2>1. Arrives' = Arrives
    BY <1>2 DEF Arrives, Over
  <2>2. Way' = Way \o << x >>
    BY <1>2, <1>3, <1>4, <1>7 DEF Way
  <2> QED BY <1>1, <1>2, <1>4, <1>5, <1>9, <2>1, <2>2, MediumSent
<1> QED BY <1>2, <1>8, <1>10, <1>11, <1>12, <1>13 DEF SessionOK

LEMMA ServeMediaOK ==
    ASSUME HandshakeInv, SessionOK, ServeMedia PROVE SessionOK' /\ stage' = stage
<1>1. PICK d, x :
          /\ d \in Media /\ x = Medium(d, "server") /\ sent' = Append(sent, x)
          /\ wire' = [wire EXCEPT !["client"] = @ \o << x >>]
    BY DEF ServeMedia, NewMedium, Put, Peer
<1>2. /\ stage["server"] = "rtmp" /\ todo["server"] # <<>> /\ Head(todo["server"]).do = "serve"
      /\ ~Over("client") /\ make' = make /\ stage' = stage
      /\ UNCHANGED <<todo, requests, tid, stream_id, identified, msgs, got>>
    BY DEF ServeMedia, NewMedium, Doing, Peer, Same
<1>3. RequestsOK /\ AnswersOK /\ WaitsOK /\ MediaOK
    BY DEF SessionOK
<1>4. PICK means, reqs, to, w, calls, app, t :
          /\ means = make.means /\ reqs = requests["client"] /\ to = Mode /\ w = ToServer
          /\ calls = todo["server"] /\ app = Application /\ t = tid["server"]
    OBVIOUS
<1>5. ~Over("server") /\ Head(calls).do \notin SendingCalls /\ calls # <<>>
    BY <1>2, <1>4 DEF Over, SendingCalls
<1>6. PICK mode \in Modes : /\ Waits(make, reqs, t, app, mode, calls)
                            /\ Suits(make, mode) /\ Chained(make, mode, w, to)
    BY <1>3, <1>4, <1>5 DEF WaitsOK, Follows
<1>7. mode = "serve" /\ means = "Play" /\ to = "serve"
  <2>1. Listed(app) /\ app # <<>> /\ Stops("ConnectApp", app[1])
    BY <1>4, ApplicationIs
  <2>2. Remains(app, mode, calls)
    BY <1>5, <1>6, WaitsStops
  <2>3. Stops(mode, Head(calls))
    BY <1>5, <2>1, <2>2, StoppedAt
  <2>4. mode = "serve"
    BY <1>2, <1>4, <2>3 DEF Stops, Modes
  <2>5. Listed(w)
    BY <1>3, <1>4 DEF RequestsOK
  <2> QED BY <1>4, <1>6, <2>4, <2>5, ChainServe DEF Suits
<1>8. /\ Sent(means, x) /\ DOMAIN x = DOMAIN Blank /\ IsMedia(x) /\ x.name = x.type
    BY <1>1, <1>7, MediumIs
<1>9. Answering(make, reqs, to, x)
    BY <1>4, <1>7, <1>8, MediaNames DEF Answering
<1>10. ToClient' = ToClient \o << x >> /\ ToServer' = w
    BY <1>1, <1>2, <1>4, SaidToClient
<1>11. /\ Pos' = Pos /\ Mode' = Mode /\ Application' = Application
       /\ FieldsOK' /\ ScriptOK' /\ StreamOK' /\ IdentifiedOK'
    BY <1>2, Untouched
<1>12. RequestsOK'
    BY <1>2, <1>3, <1>4, <1>10, <1>11 DEF RequestsOK
<1>13. AnswersOK'
  <2>1. PICK v : v = ToClient
    OBVIOUS
  <2>2. Listed(v \o << x >>) /\ \A i \in 1..Len(v \o << x >>) :
                                   Answering(make, reqs, to, (v \o << x >>)[i])
    BY <1>3, <1>4, <1>9, <2>1, AnswersMore DEF AnswersOK
  <2> QED BY <1>2, <1>4, <1>10, <1>11, <2>1, <2>2 DEF AnswersOK
<1>14. WaitsOK'
    BY <1>2, <1>3, <1>4, <1>5, <1>10, <1>11 DEF WaitsOK
<1>15. MediaOK'
  <2>1. Arrives' = Arrives
    BY <1>2 DEF Arrives, Over
  <2>2. Way' = Way \o << x >>
    BY <1>2, <1>4, <1>7, <1>10 DEF Way
  <2> QED BY <1>1, <1>2, <1>3, <1>4, <1>8, <2>1, <2>2, MediumSent
<1> QED BY <1>2, <1>11, <1>12, <1>13, <1>14, <1>15 DEF SessionOK

LEMMA EndWriteOK ==
    ASSUME HandshakeInv, SessionOK, EndWrite PROVE SessionOK' /\ stage' = stage
<1>1. /\ todo["client"] # <<>> /\ Head(todo["client"]).do = "write"
      /\ todo' = [todo EXCEPT !["client"] = Tail(@)] /\ make' = make
      /\ UNCHANGED <<stage, wire, requests, tid, stream_id, identified, msgs, sent, got>>
    BY DEF EndWrite, Doing, Continue, Same
<1>2. /\ FieldsOK /\ ScriptOK /\ RequestsOK /\ AnswersOK /\ StreamOK /\ WaitsOK
      /\ IdentifiedOK /\ MediaOK
    BY DEF SessionOK
<1>3. /\ todo'["client"] = Tail(todo["client"]) /\ todo'["server"] = todo["server"]
      /\ DOMAIN todo' = Sides
    BY <1>1, <1>2 DEF FieldsOK, Sides
<1>4. /\ Pos \in Nat /\ Pos + 1 \in 1..Len(make.script)
      /\ make.script[Pos + 1].do = "write"
      /\ ScriptOK' /\ Pos' = Pos + 1 /\ Mode' = NextMode(make, Mode, Pos + 1)
    BY <1>1, <1>3, <1>2, ScriptStep
<1>5. Mode' = Mode
    BY <1>4 DEF NextMode, Says
<1>6. ToServer' = ToServer /\ ToClient' = ToClient
    BY <1>1 DEF ToServer, ToClient
<1>7. FieldsOK'
    BY <1>1, <1>2, <1>3 DEF FieldsOK
<1>8. RequestsOK'
  <2>1. 1..Pos \subseteq 1..(Pos + 1)
    BY <1>4
  <2>2. Requested(make, Pos + 1, requests["client"])
    BY <1>2, <2>1 DEF RequestsOK, Requested
  <2> QED BY <1>1, <1>2, <1>4, <1>6, <2>2 DEF RequestsOK
<1>9. AnswersOK'
    BY <1>1, <1>2, <1>5, <1>6 DEF AnswersOK
<1>10. StreamOK'
  <2>1. Created(make, Pos + 1) => Created(make, Pos)
    <3>1. SUFFICES ASSUME NEW i \in 1..(Pos + 1), make.script[i].do = "expect",
                          make.script[i].class = "CreateStreamRes"
                   PROVE  Created(make, Pos)
      BY DEF Created
    <3>2. i # Pos + 1
      BY <1>4, <3>1
    <3>3. i \in 1..Pos
      BY <1>4, <3>2
    <3> QED BY <3>1, <3>3 DEF Created
  <2> QED BY <1>1, <1>2, <1>4, <2>1 DEF StreamOK
<1>11. WaitsOK'
    BY <1>1, <1>2, <1>3, <1>5, <1>6, ApplicationSame DEF WaitsOK, Over
<1>12. IdentifiedOK'
    BY <1>1, <1>2 DEF IdentifiedOK
<1>13. MediaOK'
  <2>1. Arrives' = Arrives /\ Way' = Way
    BY <1>1, <1>6 DEF Arrives, Over, Way
  <2> QED BY <1>1, <1>2, <2>1, MediaPasses
<1> QED BY <1>1, <1>4, <1>7, <1>8, <1>9, <1>10, <1>11, <1>12, <1>13 DEF SessionOK

----------------------------------------------------------------------------
(* The client reads. *)

LEMMA ReadsOn ==
    ASSUME HandshakeInv, SessionOK, stage' = stage, make' = make,
           UNCHANGED <<todo, requests, tid, stream_id, identified>>,
           ToServer' = ToServer, MediaOK',
           ToClient' = ToClient \/ (ToClient # <<>> /\ ToClient' = Tail(ToClient))
    PROVE  SessionOK'
<1>1. /\ Pos' = Pos /\ Mode' = Mode /\ Application' = Application
      /\ FieldsOK' /\ ScriptOK' /\ StreamOK' /\ IdentifiedOK'
    BY Untouched
<1>2. RequestsOK /\ AnswersOK /\ WaitsOK
    BY DEF SessionOK
<1>3. PICK w, u, reqs, to : /\ w = ToClient /\ u = ToClient' /\ reqs = requests["client"]
                            /\ to = Mode
    OBVIOUS
<1>4. Listed(u) /\ \A i \in 1..Len(u) : Answering(make, reqs, to, u[i])
  <2>1. Listed(w) /\ \A i \in 1..Len(w) : Answering(make, reqs, to, w[i])
    BY <1>2, <1>3 DEF AnswersOK
  <2>2. CASE u = w
    BY <2>1, <2>2
  <2>3. CASE w # <<>> /\ u = Tail(w)
    <3>1. /\ Listed(u) /\ Len(w) \in Nat /\ Len(u) = Len(w) - 1
          /\ \A i \in 1..Len(u) : u[i] = w[i + 1]
      BY <2>1, <2>3, FrontTaken
    <3>2. ASSUME NEW i \in 1..Len(u) PROVE Answering(make, reqs, to, u[i])
      <4>1. i + 1 \in 1..Len(w)
        BY <3>1
      <4> QED BY <2>1, <3>1, <4>1
    <3> QED BY <3>1, <3>2
  <2> QED BY <1>3, <2>2, <2>3
<1>5. AnswersOK'
    BY <1>1, <1>3, <1>4 DEF AnswersOK
<1>6. RequestsOK'
    BY <1>1, <1>2 DEF RequestsOK
<1>7. WaitsOK'
    BY <1>1, <1>2 DEF WaitsOK, Over
<1> QED BY <1>1, <1>5, <1>6, <1>7 DEF SessionOK

LEMMA CachedTaken ==
    ASSUME HandshakeInv, SessionOK, msgs # <<>>, make' = make, stage' = stage,
           ToClient' = ToClient, sent' = sent,
           msgs' = Tail(msgs), got' = Append(got, GoPacket(Head(msgs)))
    PROVE  MediaOK'
<1>1. PICK means, s, q, g, y : /\ means = make.means /\ s = sent /\ q = msgs /\ g = got
                               /\ y = GoPacket(Head(q))
    OBVIOUS
<1>2. /\ SentOK(means, s) /\ Listed(q) /\ means = "Play" /\ Listed(g) /\ q # <<>>
      /\ \A i \in 1..Len(q) : q[i].type \in PartTypes
    BY <1>1 DEF SessionOK, MediaOK, Cached
<1>3. PICK c, F : /\ c \in 0..Len(s) /\ Flat(means, s, F) /\ g \o Pending(q) = F[c + 1]
                  /\ Arrives => Counted(s, Way, c)
    BY <1>1 DEF SessionOK, MediaOK, Arrived
<1>4. PICK rest, p : rest = Tail(q) /\ p = Pending(rest)
    OBVIOUS
<1>5. /\ Listed(rest) /\ Len(q) \in Nat /\ Len(rest) = Len(q) - 1
      /\ \A i \in 1..Len(rest) : rest[i] = q[i + 1]
    BY <1>2, <1>4, FrontTaken
<1>6. \A i \in 1..Len(rest) : rest[i].type \in PartTypes
  <2>1. ASSUME NEW i \in 1..Len(rest) PROVE rest[i].type \in PartTypes
    <3>1. i + 1 \in 1..Len(q)
      BY <1>5
    <3> QED BY <1>2, <1>5, <3>1
  <2> QED BY <2>1
<1>7. Listed(p)
  <2>1. PICK l \in Nat : l = Len(rest)
    <3>1. Len(rest) \in Nat
      BY <1>5, Joined
    <3> QED BY <3>1
  <2>2. p = [i \in 1..l |-> GoPacket(rest[i])]
    BY <1>4, <2>1 DEF Pending
  <2>3. p \in Seq(Range(p))
    BY <2>1, <2>2 DEF Range
  <2> QED BY <2>3 DEF Listed
<1>8. Pending(q) = << y >> \o p
    BY <1>1, <1>2, <1>4, PendingTaken
<1>9. got' = g \o << y >> /\ Listed(g \o << y >>)
  <2>1. Append(g, y) = g \o << y >> /\ Listed(g \o << y >>)
    BY <1>2, EndPut
  <2> QED BY <1>1, <2>1
<1>10. (g \o << y >>) \o p = F[c + 1]
  <2>1. Listed(<< y >>)
    BY ListedTuples
  <2>2. PICK e : e = << y >>
    OBVIOUS
  <2>3. (g \o e) \o p = g \o (e \o p)
    BY <1>2, <1>7, <2>1, <2>2, JoinedTwice
  <2> QED BY <1>3, <1>8, <2>2, <2>3
<1>11. Arrives' = Arrives /\ Way' = Way
    BY <1>1, <1>2 DEF Arrives, Over, Way
<1>12. msgs' = rest
    BY <1>1, <1>4
<1>13. Arrived(means, s, rest, g \o << y >>, Way', Arrives')
    BY <1>3, <1>4, <1>10, <1>11 DEF Arrived
<1>14. Cached(means, rest)
    BY <1>2, <1>5, <1>6 DEF Cached
<1> QED BY <1>1, <1>2, <1>9, <1>12, <1>13, <1>14 DEF MediaOK

LEMMA ReadMedium ==
    ASSUME HandshakeInv, SessionOK, msgs = <<>>, make' = make, stage' = stage,
           stage["client"] = "rtmp", sent' = sent, NEW x, ToClient # <<>>, x = Head(ToClient),
           IsMedia(x), ToClient' = Tail(ToClient),
           msgs' = IF x.type = "aggregate" THEN <<>> \o OnAggregate(x) ELSE <<>>,
           got' = IF x.type # "aggregate" THEN Append(got, GoPacket(x)) ELSE got
    PROVE  MediaOK'
<1>1. PICK means, s, g, w : means = make.means /\ s = sent /\ g = got /\ w = ToClient
    OBVIOUS
<1>2. Listed(w) /\ w # <<>> /\ Head(w) = x
    BY <1>1, ServerThrough
<1>3. means = "Play"
  <2>1. Head(w) = w[1] /\ 1 \in 1..Len(w)
    BY <1>2, FrontTaken
  <2>2. Answering(make, requests["client"], Mode, w[1])
    BY <1>1, <2>1 DEF SessionOK, AnswersOK
  <2>3. Answering(make, requests["client"], Mode, x)
    BY <1>2, <2>1, <2>2
  <2> QED BY <1>1, <2>3 DEF Answering
<1>4. SentOK(means, s) /\ Listed(g)
    BY <1>1 DEF SessionOK, MediaOK
<1>5. Way = w /\ Way' = Tail(w) /\ Arrives
    BY <1>1, <1>3 DEF Way, Arrives, Over
<1>6. Arrived(means, s, <<>>, g, w, TRUE)
    BY <1>1, <1>5 DEF SessionOK, MediaOK, Arrived
<1>7. /\ Sent(means, x) /\ DOMAIN x = DOMAIN Blank
      /\ \A q2, g2 : g2 \o Pending(q2) = g \o PartsOf(means, x) =>
                        Arrived(means, s, q2, g2, Tail(w), TRUE)
    BY <1>2, <1>4, <1>6, MediumTaken
<1>8. PICK q2, g2 : q2 = msgs' /\ g2 = got'
    OBVIOUS
<1>9. g2 \o Pending(q2) = g \o PartsOf(means, x) /\ Listed(g2) /\ Cached(means, q2)
  <2>1. CASE x.type = "aggregate"
    <3>1. PICK o : o = OnAggregate(x)
      OBVIOUS
    <3>2. /\ Listed(o) /\ Pending(o) = PartsOf("Play", x)
          /\ \A i \in 1..Len(o) : o[i].type \in PartTypes
      BY <1>3, <1>7, <2>1, <3>1, AggregateParts
    <3>3. <<>> \o o = o
      BY <3>2, ListedStays, Joined
    <3>4. q2 = o /\ g2 = g
      BY <1>1, <1>8, <2>1, <3>1, <3>3
    <3> QED BY <1>3, <1>4, <3>2, <3>4 DEF Cached
  <2>2. CASE x.type # "aggregate"
    <3>1. PICK y : y = GoPacket(x)
      OBVIOUS
    <3>2. PartsOf(means, x) = << y >>
      BY <1>3, <1>7, <2>2, <3>1, OnePart
    <3>3. Append(g, y) = g \o << y >> /\ Listed(g \o << y >>)
      BY <1>4, EndPut
    <3>4. q2 = <<>> /\ g2 = g \o << y >>
      BY <1>1, <1>8, <2>2, <3>1, <3>3
    <3>5. (g \o << y >>) \o Pending(<<>>) = g \o << y >>
      BY <3>3, NothingPending
    <3>6. Cached(means, q2)
      BY <3>4, NothingListed DEF Cached
    <3> QED BY <3>2, <3>3, <3>4, <3>5, <3>6
  <2> QED BY <2>1, <2>2
<1>10. Arrived(means, s, q2, g2, Tail(w), TRUE)
    BY <1>7, <1>9
<1>11. Arrived(means, s, q2, g2, Tail(w), Arrives')
    BY <1>10 DEF Arrived
<1> QED BY <1>1, <1>4, <1>5, <1>8, <1>9, <1>11 DEF MediaOK

LEMMA ReadPacketOK ==
    ASSUME HandshakeInv, SessionOK, ReadPacket PROVE SessionOK' /\ stage' = stage
<1>1. /\ stage["client"] = "rtmp" /\ stage' = stage /\ make' = make
      /\ msgs # <<>> \/ Incoming("client")
      /\ UNCHANGED <<todo, requests, tid, stream_id, identified, sent>>
    BY DEF ReadPacket, Doing, Same
<1>2. CASE msgs # <<>>
  <2>1. PICK x : x = Head(msgs)
    OBVIOUS
  <2>2. x.type \in PartTypes
    <3>1. PICK q : q = msgs
      OBVIOUS
    <3>2. Listed(q) /\ \A i \in 1..Len(q) : q[i].type \in PartTypes
      BY <3>1 DEF SessionOK, MediaOK, Cached
    <3>3. Head(q) = q[1] /\ 1 \in 1..Len(q)
      BY <1>2, <3>1, <3>2, FrontTaken
    <3> QED BY <2>1, <3>1, <3>2, <3>3
  <2>3. IsMedia(x) /\ x.type # "aggregate"
    BY <2>2 DEF IsMedia, PartTypes
  <2>4. wire' = wire /\ msgs' = Tail(msgs) /\ got' = Append(got, GoPacket(x))
    BY <1>2, <2>1, <2>3 DEF ReadPacket
  <2>5. ToClient' = ToClient /\ ToServer' = ToServer
    BY <1>1, <2>4 DEF ToClient, ToServer
  <2>6. MediaOK'
    BY <1>1, <1>2, <2>1, <2>4, <2>5, CachedTaken
  <2> QED BY <1>1, <2>5, <2>6, ReadsOn
<1>3. CASE msgs = <<>>
  <2>1. PICK x : x = Message("client")
    OBVIOUS
  <2>2. /\ Incoming("client") /\ Take("client", <<>>)
        /\ msgs' = IF x.type = "aggregate" THEN <<>> \o OnAggregate(x) ELSE <<>>
        /\ got' = IF IsMedia(x) /\ x.type # "aggregate" THEN Append(got, GoPacket(x)) ELSE got
    BY <1>1, <1>3, <2>1 DEF ReadPacket
  <2>3. /\ ToClient # <<>> /\ x = Head(ToClient)
        /\ ToClient' = Tail(ToClient) /\ ToServer' = ToServer
    BY <1>1, <2>1, <2>2, TakenByClient
  <2>4. MediaOK'
    <3>1. CASE IsMedia(x)
      BY <1>1, <1>3, <2>2, <2>3, <3>1, ReadMedium
    <3>2. CASE ~IsMedia(x)
      <4>1. msgs' = msgs /\ got' = got
        BY <1>3, <2>2, <3>2 DEF IsMedia
      <4>2. Arrives' = Arrives
        BY <1>1 DEF Arrives, Over
      <4>3. ~IsMedia(Head(ToClient))
        BY <2>3, <3>2
      <4>4. \/ Way' = Way
            \/ (Way # <<>> /\ ~IsMedia(Head(Way)) /\ Way' = Tail(Way))
        BY <1>1, <2>3, <4>3 DEF Way
      <4>5. MediaOK
        BY DEF SessionOK
      <4> QED BY <1>1, <4>1, <4>2, <4>4, <4>5, MediaPasses
    <3> QED BY <3>1, <3>2
  <2> QED BY <1>1, <2>3, <2>4, ReadsOn
<1> QED BY <1>1, <1>2, <1>3

----------------------------------------------------------------------------
(* The invariant holds. *)

LEMMA SessionInitOK ==
    SessionInit => HandshakeInv /\ SessionOK /\ NobodyFails
<1> SUFFICES ASSUME SessionInit PROVE HandshakeInv /\ SessionOK /\ NobodyFails
    OBVIOUS
<1>1. HandshakeInv
    BY HandshakeInvInit
<1>2. /\ make \in Makes /\ wire = [s \in Sides |-> <<>>] /\ stage["server"] = "c0c1"
      /\ stage["client"] = IF make.handshake = "complex" /\ ~make.ssl THEN "failed" ELSE "c0c1"
    BY DEF SessionInit, HandshakeInit, Sides
<1>3. NobodyFails
    BY <1>2 DEF NobodyFails, Sides
<1>4. /\ DOMAIN todo = Sides /\ DOMAIN requests = Sides /\ DOMAIN tid = Sides
      /\ DOMAIN stream_id = Sides
      /\ todo["client"] = make.script /\ todo["server"] = Application
      /\ requests["client"] = <<>> /\ stream_id["server"] = ServerStream
      /\ identified = Unknown /\ msgs = <<>> /\ sent = <<>> /\ got = <<>>
    BY DEF SessionInit, Sides
<1>5. Orderly(make) /\ Len(make.script) \in Nat /\ Listed(make.script)
  <2>1. Orderly(make) /\ Len(make.script) \in Nat
    BY <1>1, InOrder
  <2> QED BY <2>1 DEF Orderly, Listed
<1>6. ToServer = <<>> /\ ToClient = <<>>
    BY <1>2 DEF ToServer, ToClient
<1>7. Pos = 0 /\ Mode = "ConnectApp"
  <2>1. PICK n \in Nat : n = Len(make.script)
    BY <1>5
  <2>2. Pos = 0
    BY <1>4, <2>1 DEF Pos
  <2> QED BY <1>5, <2>2, ReachedIs DEF Mode
<1>8. FieldsOK
    BY <1>4 DEF FieldsOK
<1>9. ScriptOK
    BY <1>4, <1>5, <1>7 DEF ScriptOK
<1>10. PICK none : none = <<>>
    OBVIOUS
<1>11. Listed(none) /\ 1..Len(none) = {} /\ DOMAIN none = {} /\ Len(none) = 0
    BY <1>10, NothingListed
<1>12. RequestsOK
    BY <1>4, <1>6, <1>10, <1>11 DEF RequestsOK, Requested
<1>13. AnswersOK
    BY <1>6, <1>10, <1>11 DEF AnswersOK
<1>14. StreamOK
    BY <1>4, <1>7 DEF StreamOK, Created
<1>15. WaitsOK
  <2>1. PICK app, t : app = Application /\ t = tid["server"]
    OBVIOUS
  <2>2. Remains(app, "ConnectApp", app)
    BY <2>1, ApplicationIs DEF Remains, Ahead
  <2>3. Waits(make, none, t, app, "ConnectApp", app)
    BY <2>2, WaitsAtOnce
  <2>4. "ConnectApp" \in Modes /\ Suits(make, "ConnectApp")
    BY DEF Modes, Suits
  <2>5. Chained(make, "ConnectApp", none, "ConnectApp")
    BY <1>10, <2>4, ChainEmpty
  <2> QED BY <1>4, <1>6, <1>7, <1>10, <2>1, <2>3, <2>4, <2>5 DEF WaitsOK, Follows
<1>16. IdentifiedOK
    BY <1>4 DEF IdentifiedOK
<1>17. MediaOK
  <2>1. PICK means : means = make.means
    OBVIOUS
  <2>2. SentOK(means, none) /\ Cached(means, none)
    BY <1>10, <1>11 DEF SentOK, Cached
  <2>3. PICK F : F = [k \in {1} |-> none]
    OBVIOUS
  <2>4. Flat(means, none, F) /\ F[0 + 1] = none
    BY <1>10, <1>11, <2>3 DEF Flat
  <2>5. none \o Pending(none) = none
    BY <1>10, <1>11, NothingPending
  <2>6. Way = none
    BY <1>6, <1>10 DEF Way
  <2>7. Counted(none, none, 0)
    BY <1>10, CountedNone
  <2>8. 0 \in 0..Len(none)
    BY <1>11
  <2>9. Arrived(means, none, none, none, Way, Arrives)
    BY <2>4, <2>5, <2>6, <2>7, <2>8 DEF Arrived
  <2> QED BY <1>4, <1>10, <1>11, <2>1, <2>2, <2>9 DEF MediaOK
<1> QED BY <1>1, <1>3, <1>8, <1>9, <1>12, <1>13, <1>14, <1>15, <1>16, <1>17 DEF SessionOK

LEMMA NextMakes == [Next]_sessionVars => make' = make
<1> SUFFICES ASSUME [Next]_sessionVars PROVE make' = make
    OBVIOUS
<1>1. CASE Shake
    BY <1>1 DEF Shake, HandshakeNext, WriteC0C1, ReadC0C1, ReadS0S1S2, ReadC2, ReadFails
<1>2. CASE WritePacket \/ ServeMedia \/ EndWrite
    BY <1>2 DEF WritePacket, ServeMedia, NewMedium, EndWrite, Same
<1>3. CASE Stay \/ UNCHANGED sessionVars
    BY <1>3 DEF Stay, sessionVars, hsVars
<1>4. ASSUME NEW s \in Sides, Step(s) \/ Crash(s) PROVE make' = make
    BY <1>4 DEF Step, Crash, SendPacket, ExpectMessage, Lose, IdentifyClient, Close, ServeMessage,
                ReadPacket, Same
<1> QED BY <1>1, <1>2, <1>3, <1>4 DEF Next

LEMMA SessionStep ==
    ASSUME HandshakeInv, SessionOK, [Next]_sessionVars
    PROVE  /\ SessionOK'
           /\ \A s \in Sides : stage'[s] = "failed" => stage[s] = "failed" \/ ~make.plain
<1>1. CASE Shake \/ Stay \/ UNCHANGED sessionVars
    BY <1>1, QuietSteps
<1>2. CASE WritePacket
    BY <1>2, WritePacketOK
<1>3. CASE ServeMedia
    BY <1>3, ServeMediaOK
<1>4. CASE EndWrite
    BY <1>4, EndWriteOK
<1>5. ASSUME NEW s \in Sides, Crash(s) \/ Lose(s)
      PROVE  /\ SessionOK'
             /\ \A p \in Sides : stage'[p] = "failed" => stage[p] = "failed" \/ ~make.plain
    BY <1>5, QuietSteps
<1>6. ASSUME NEW s \in Sides, SendPacket(s) PROVE SessionOK' /\ stage' = stage
  <2>1. stage' = stage
    BY <1>6 DEF SendPacket
  <2> QED BY <1>6, <2>1, ClientSends, ServerSends DEF Sides
<1>7. ASSUME NEW s \in Sides, ExpectMessage(s) PROVE SessionOK' /\ stage' = stage
    BY <1>7, ClientExpects, ServerExpects DEF Sides
<1>8. CASE IdentifyClient
    BY <1>8, IdentifyClientOK
<1>9. CASE Close
    BY <1>9, QuietSteps
<1>10. CASE ServeMessage
    BY <1>10, ServeMessageOK
<1>11. CASE ReadPacket
    BY <1>11, ReadPacketOK
<1> QED BY <1>1, <1>2, <1>3, <1>4, <1>5, <1>6, <1>7, <1>8, <1>9, <1>10, <1>11 DEF Next, Step

(***************************************************************************)
(* For every set of makes whose calls come in the order of SessionOrder,   *)
(* every call of both sides keeps the invariant the theorems below rest    *)
(* on: the messages on their way to the server and the rest of the         *)
(* client's script lead it from what it waits for to the end of its calls, *)
(* each answer on its way is to a call the client remembers, and media on  *)
(* its way are the next of what has been sent (SrsRtmpServer,              *)
(* SrsRtmpClient and the srs_rtmp_ functions of srs_librtmp.cpp).          *)
(***************************************************************************)
THEOREM SessionInvariant == Spec => []SessionInv
<1>1. SessionInit => SessionInv
    BY SessionInitOK DEF SessionInv
<1>2. SessionInv /\ [Next]_sessionVars => SessionInv'
    BY HandshakeInvStep, SessionStep DEF SessionInv
<1> QED BY <1>1, <1>2, PTL DEF Spec

(***************************************************************************)
(* For every such set of makes, only a client that asks for encryption, or *)
(* for a complex handshake it was built without, makes a side fail: behind *)
(* the handshake each answer is to a request its receiver remembers and is *)
(* read as the answer to it (SrsProtocol::do_decode_message).              *)
(***************************************************************************)
THEOREM FailuresOfHandshakesOnly == Spec => []NobodyFails
<1>1. SessionInit => NobodyFails
    BY SessionInitOK
<1>2. SessionInv /\ NobodyFails /\ [Next]_sessionVars => NobodyFails'
    BY SessionStep, NextMakes DEF SessionInv, NobodyFails
<1> QED BY <1>1, <1>2, SessionInvariant, PTL DEF Spec

LEMMA ServedAsMeant == SessionInv => ServesWhatIsMeant
<1> SUFFICES ASSUME SessionInv PROVE ServesWhatIsMeant
    OBVIOUS
<1>1. HandshakeInv /\ SessionOK /\ IdentifiedOK /\ RequestsOK /\ StreamOK
    BY DEF SessionInv, SessionOK
<1>2. identified # Unknown => identified = [type |-> make.means, stream |-> make.stream]
    BY <1>1 DEF IdentifiedOK
<1>3. ASSUME \A s \in Sides : Streams(s), Asked("client", "createStream")
      PROVE  stream_id["client"] = stream_id["server"]
  <2>1. PICK what \in {"read", "write", "serve", "record"} : Doing("client", what)
    BY <1>3 DEF Streams, Sides
  <2>2. todo["client"] # <<>> /\ Head(todo["client"]).do = what
    BY <2>1 DEF Doing
  <2>3. /\ Pos \in Nat /\ Pos + 1 \in 1..Len(make.script)
        /\ Head(todo["client"]) = make.script[Pos + 1]
        /\ CallInOrder(make, Mode, Head(todo["client"]))
    BY <1>1, <2>2, ScriptStep
  <2>4. make.script[Pos + 1].do \in {"read", "write"}
    BY <2>2, <2>3 DEF CallInOrder
  <2>5. PICK t \in DOMAIN requests["client"] : requests["client"][t] = "createStream"
    BY <1>3 DEF Asked
  <2>6. PICK i \in 1..Pos : Says(make.script[i]) /\ make.script[i].m.name = "createStream"
    BY <1>1, <2>5 DEF RequestsOK, Requested
  <2>7. StreamAwaited(make) /\ Len(make.script) \in Nat /\ DOMAIN make.script = 1..Len(make.script)
    BY <1>1, InOrder DEF Orderly
  <2>8. PICK p, n : p = Pos /\ n = Len(make.script)
    OBVIOUS
  <2>9. p \in Nat /\ n \in Nat /\ p + 1 \in 1..n /\ i \in 1..p
    BY <2>3, <2>6, <2>7, <2>8
  <2>10. i \in DOMAIN make.script
    BY <2>7, <2>8, <2>9
  <2>11. PICK j \in i..n :
            /\ make.script[j].do = "expect" /\ make.script[j].class = "CreateStreamRes"
            /\ \A k \in i..j : make.script[k].do \notin {"read", "write"}
    BY <2>6, <2>7, <2>8, <2>10 DEF StreamAwaited
  <2>12. p + 1 \notin i..j
    BY <2>4, <2>8, <2>11
  <2>13. j \in 1..p
    BY <2>9, <2>11, <2>12
  <2>14. Created(make, Pos)
    BY <2>8, <2>11, <2>13 DEF Created
  <2> QED BY <1>1, <2>14 DEF StreamOK
<1> QED BY <1>2, <1>3 DEF ServesWhatIsMeant

(***************************************************************************)
(* For every such set of makes, SrsRtmpServer::identify_client finds out   *)
(* what the client means to do and the stream it names, and when both      *)
(* sides have come to media they agree on the id of a stream the client    *)
(* has created (srs_rtmp_play_stream, srs_rtmp_publish_stream).            *)
(***************************************************************************)
THEOREM ServedAsMeantAlways == Spec => []ServesWhatIsMeant
    BY SessionInvariant, ServedAsMeant, PTL

LEMMA PartsAre == \A m : Parts(m) = PartsOf(make.means, m)
    BY DEF Parts, PartsOf, PartOf, TimeOf

LEMMA PrefixJoined ==
    ASSUME NEW a, NEW b, Listed(a), Listed(b) PROVE IsPrefix(a, a \o b)
<1>1. PICK k, w : k = Len(a) /\ w = a \o b
    OBVIOUS
<1>2. /\ Listed(w) /\ Len(w) = k + Len(b) /\ k \in Nat /\ Len(b) \in Nat
      /\ \A i \in 1..k : w[i] = a[i]
    BY <1>1, Joined
<1>3. k <= Len(w)
    BY <1>2
<1>4. SubSeq(a, 1, k) = SubSeq(w, 1, k)
  <2>1. SubSeq(a, 1, k) = [i \in 1..k |-> a[i]]
    BY <1>1, <1>2 DEF Listed
  <2>2. SubSeq(w, 1, k) = [i \in 1..k |-> w[i]]
    BY <1>2, <1>3 DEF Listed
  <2> QED BY <1>2, <2>1, <2>2
<1> QED BY <1>1, <1>3, <1>4 DEF IsPrefix

LEMMA MediaJoined == SessionInv => MediaInOrder
<1> SUFFICES ASSUME SessionInv PROVE MediaInOrder
    OBVIOUS
<1>1. PICK means, s, g, p : /\ means = make.means /\ s = sent /\ g = got /\ p = Pending(msgs)
    OBVIOUS
<1>2. /\ Listed(s) /\ Listed(g) /\ \A i \in 1..Len(s) : Sent(means, s[i])
    BY <1>1 DEF SessionInv, SessionOK, MediaOK, SentOK
<1>3. PICK c, F : c \in 0..Len(s) /\ Flat(means, s, F) /\ g \o p = F[c + 1]
    BY <1>1 DEF SessionInv, SessionOK, MediaOK, Arrived
<1>4. Len(s) \in Nat
    BY <1>2, Joined
<1>5. Listed(p)
  <2>1. PICK q : q = msgs
    OBVIOUS
  <2>2. Listed(q)
    BY <2>1 DEF SessionInv, SessionOK, MediaOK, Cached
  <2>3. CASE q = <<>>
    <3>1. 1..Len(q) = {}
      BY <2>3, NothingListed
    <3>2. Pending(q) = <<>>
      BY <3>1 DEF Pending
    <3> QED BY <1>1, <2>1, <3>2, ListedStays
  <2>4. CASE q # <<>>
    BY <1>1, <2>1, <2>2, <2>4, PendingTaken
  <2> QED BY <2>3, <2>4
<1>6. PICK more : Listed(more) /\ F[Len(s) + 1] = F[c + 1] \o more
    BY <1>2, <1>3, <1>4, FlatBegins
<1>7. FlattenSeq([i \in 1..Len(s) |-> PartsOf(means, s[i])]) = F[Len(s) + 1]
    BY <1>2, <1>3, <1>4, FlatIs
<1>8. F[Len(s) + 1] = g \o (p \o more) /\ Listed(p \o more)
  <2>1. (g \o p) \o more = g \o (p \o more)
    BY <1>2, <1>5, <1>6, JoinedTwice
  <2>2. Listed(p \o more)
    BY <1>5, <1>6, Joined
  <2> QED BY <1>3, <1>6, <2>1, <2>2
<1>9. IsPrefix(g, g \o (p \o more))
    BY <1>2, <1>8, PrefixJoined
<1>10. [i \in 1..Len(sent) |-> Parts(sent[i])] = [i \in 1..Len(s) |-> PartsOf(means, s[i])]
    BY <1>1, PartsAre
<1> QED BY <1>1, <1>7, <1>8, <1>9, <1>10 DEF MediaInOrder

(***************************************************************************)
(* For every such set of makes and every set of media, what the reader has *)
(* got begins what the other has sent, each part once, in order and with   *)
(* its time: the parts of an aggregate come before the next message, and   *)
(* no media are taken by a call that waits for something else              *)
(* (srs_rtmp_read_packet, srs_rtmp_on_aggregate,                           *)
(* SrsRtmpServer::recv_message).                                           *)
(***************************************************************************)
THEOREM MediaJoinedAlways == Spec => []MediaInOrder
    BY SessionInvariant, MediaJoined, PTL
=============================================================================
