--------------------------- MODULE HandshakeDigest ---------------------------
(***************************************************************************)
(* C1, S1, C2 and S2 of the complex handshake (_srs_internal in            *)
(* srs_rtmp_handshake.cpp): where a key and a digest lie in a block of     *)
(* 1536 bytes, in either schema, and what is signed with what.             *)
(*                                                                         *)
(* Cells stand for the bytes: one for time and version, for a digest of 32 *)
(* bytes and for an offset of four, KeySize for a key of 128.  An offset   *)
(* is the sum of its bytes.  HMAC-SHA256 and Diffie-Hellman are symbolic:  *)
(* equal values were made from equal values.                               *)
(***************************************************************************)
EXTENDS Naturals, Sequences, SequencesExt

CONSTANTS
    BlockSize,         \* cells of the key block and of the digest block, 764 bytes
    KeySize,           \* cells of a key
    Random             \* what random bytes add up to when they are taken for an offset

ASSUME DigestAssumption ==
    /\ BlockSize \in Nat /\ KeySize \in Nat \ {0} /\ BlockSize > KeySize + 2
    /\ Random \in Nat

Number(n) == [sum |-> n]
Repeated(n) == [i \in 1..n |-> Number(Random)]
Hmac(key, data) == [key |-> key, data |-> data]

\* SrsDH: what the server makes of the key of a client.
SharedKey(key) == [i \in 1..KeySize |-> [shared |-> key[i]]]

\* calc_valid_offset: an offset, or the cell that is taken for it, within the
\* room that width cells leave in a block.
Sum(cell) == IF "sum" \in DOMAIN cell THEN cell.sum ELSE Random
KeyPlace(offset) == Sum(offset) % (BlockSize - KeySize - 1)
DigestPlace(offset) == Sum(offset) % (BlockSize - 1 - 1)

(***************************************************************************)
(* c1s1: the two blocks apart.  The key block ends with its offset, the    *)
(* digest block begins with it.                                            *)
(***************************************************************************)
KeyBlock(key, offset) ==
    [random0 |-> Repeated(KeyPlace(offset)), key |-> key,
     random1 |-> Repeated(BlockSize - KeyPlace(offset) - KeySize - 1), offset |-> offset]

DigestBlock(digest, offset) ==
    [offset |-> offset, random0 |-> Repeated(DigestPlace(offset)), digest |-> digest,
     random1 |-> Repeated(BlockSize - 1 - DigestPlace(offset) - 1)]

KeyParsed(b) ==
    LET offset == b[BlockSize]
        n == KeyPlace(offset)
    IN  [random0 |-> SubSeq(b, 1, n), key |-> SubSeq(b, n + 1, n + KeySize),
         random1 |-> SubSeq(b, n + KeySize + 1, BlockSize - 1), offset |-> offset]

DigestParsed(b) ==
    LET n == DigestPlace(b[1])
    IN  [offset |-> b[1], random0 |-> SubSeq(b, 2, n + 1), digest |-> b[n + 2],
         random1 |-> SubSeq(b, n + 3, BlockSize)]

\* copy_key and copy_digest.
KeyBytes(k) == k.random0 \o k.key \o k.random1 \o << k.offset >>
DigestBytes(d, digest) == << d.offset >> \o d.random0 \o digest \o d.random1

\* copy_to of the two schemas: schema0 has the key in front, schema1 the digest.
\* Mutant: schema1 is written like schema0.
CopiedInOneOrder(c, digest) ==
    << c.head >> \o KeyBytes(c.key) \o DigestBytes(c.digest, digest)
Copied(c, digest) ==
    << c.head >> \o (IF c.schema = "schema0"
                     THEN KeyBytes(c.key) \o DigestBytes(c.digest, digest)
                     ELSE DigestBytes(c.digest, digest) \o KeyBytes(c.key))
Dump(c) == Copied(c, << c.digest.digest >>)

ParsedSchema0(bytes) ==
    [head |-> bytes[1], schema |-> "schema0",
     key |-> KeyParsed(SubSeq(bytes, 2, BlockSize + 1)),
     digest |-> DigestParsed(SubSeq(bytes, BlockSize + 2, 2 * BlockSize + 1))]
ParsedSchema1(bytes) ==
    [head |-> bytes[1], schema |-> "schema1",
     digest |-> DigestParsed(SubSeq(bytes, 2, BlockSize + 1)),
     key |-> KeyParsed(SubSeq(bytes, BlockSize + 2, 2 * BlockSize + 1))]
Parse(bytes, schema) ==
    IF schema = "schema0" THEN ParsedSchema0(bytes) ELSE ParsedSchema1(bytes)

\* calc_c1_digest and calc_s1_digest sign all but the digest.
C1Digest(c) == Hmac("FP30", Copied(c, <<>>))
S1Digest(c) == Hmac("FMS36", Copied(c, <<>>))
C1Valid(c) == c.digest.digest = C1Digest(c)
S1Valid(c) == c.digest.digest = S1Digest(c)

Signed(c, digest) == [c EXCEPT !.digest.digest = digest]

\* c1_create, with random offsets and a random key.
C1Created(schema, key, offsets) ==
    LET c == [head |-> "c1", schema |-> schema, key |-> KeyBlock(key, Number(offsets[1])),
              digest |-> DigestBlock(Number(Random), Number(offsets[2]))]
    IN  Signed(c, C1Digest(c))

\* s1_create, in the schema of C1 and with a key shared with it.
S1Created(c1, offsets) ==
    LET c == [head |-> "s1", schema |-> c1.schema,
              key |-> KeyBlock(SharedKey(c1.key.key), Number(offsets[1])),
              digest |-> DigestBlock(Number(Random), Number(offsets[2]))]
    IN  Signed(c, S1Digest(c))

\* handshake_with_client looks for a digest in schema 0, then in schema 1.
DecodedC1(bytes) == IF C1Valid(Parse(bytes, "schema0")) THEN Parse(bytes, "schema0")
                    ELSE Parse(bytes, "schema1")
C1HasDigest(bytes) == C1Valid(DecodedC1(bytes))

\* c2s2: random bytes, and a digest under a key made of the digest they answer.
Answer2(key, c) ==
    LET random == << "srs" >> IN random \o << Hmac(Hmac(key, c.digest.digest), random) >>
S2Created(c1) == Answer2("FMS68", c1)
C2Created(s1) == Answer2("FP62", s1)
S2Valid(bytes, c1) == Last(bytes) = Hmac(Hmac("FMS68", c1.digest.digest), Front(bytes))
C2Valid(bytes, s1) == Last(bytes) = Hmac(Hmac("FP62", s1.digest.digest), Front(bytes))
=============================================================================
