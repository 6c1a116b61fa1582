--------------------------- MODULE WireCodec_proofs ---------------------------
(* What librabbitmq's encoding of integers and strings promises.           *)
EXTENDS WireCodec, SequenceTheorems, WellFoundedInduction, TLAPS

-----------------------------------------------------------------------------
(* Induction over the natural numbers, for sets of them.                   *)

LEMMA SmallestMember ==
  ASSUME NEW T \in SUBSET Nat, T # {}
  PROVE  \E n \in T : \A m \in T : n <= m
<1> DEFINE R == OpToRel(<, Nat)
<1>1. \A m, n \in Nat : m < n => <<m, n>> \in R
  BY DEF OpToRel
<1>2. IsWellFoundedOn(R, Nat)
  BY NatLessThanWellFounded
<1> HIDE DEF R
<1>3. PICK n \in T : \A m \in T : ~(<<m, n>> \in R)
  BY <1>2, WFMin
<1>4. ASSUME NEW m \in T PROVE n <= m
  <2>1. m \in Nat /\ n \in Nat /\ ~(<<m, n>> \in R)
    BY <1>3
  <2>2. ~(m < n)
    BY <1>1, <2>1
  <2> QED
    BY <2>1, <2>2
<1> QED
  BY <1>4

\* A set of natural numbers that has 0, and with a number the next one, has them all.
LEMMA Induction ==
  ASSUME NEW T \in SUBSET Nat, 0 \in T, \A n \in T : n + 1 \in T
  PROVE  T = Nat
<1> SUFFICES ASSUME Nat \ T # {} PROVE FALSE
  OBVIOUS
<1>1. PICK n \in Nat \ T : \A m \in Nat \ T : n <= m
  BY SmallestMember
<1>2. n # 0 /\ n - 1 \in Nat /\ n - 1 \notin Nat \ T
  BY <1>1
<1> QED
  BY <1>1, <1>2

-----------------------------------------------------------------------------
(* Sequences and buffers.                                                  *)

\* Reversing a sequence twice gives it back.
LEMMA ReverseFacts ==
  ASSUME NEW S, NEW s \in Seq(S)
  PROVE  /\ Reverse(s) \in Seq(S) /\ Len(Reverse(s)) = Len(s)
         /\ \A i \in 1 .. Len(s) : Reverse(s)[i] = s[Len(s) - i + 1]
         /\ Reverse(Reverse(s)) = s
<1>1. Reverse(s) = [i \in 1 .. Len(s) |-> s[(Len(s) - i) + 1]]
  BY DEF Reverse
<1>2. /\ Reverse(s) \in Seq(S) /\ Len(Reverse(s)) = Len(s)
      /\ \A i \in 1 .. Len(s) : Reverse(s)[i] = s[Len(s) - i + 1]
  BY <1>1
<1>3. Reverse(Reverse(s)) = [i \in 1 .. Len(s) |-> Reverse(s)[(Len(s) - i) + 1]]
  BY <1>2 DEF Reverse
<1>4. \A i \in 1 .. Len(s) : Reverse(s)[(Len(s) - i) + 1] = s[i]
  BY <1>2
<1>5. Reverse(Reverse(s)) = [i \in 1 .. Len(s) |-> s[i]]
  BY <1>3, <1>4
<1> QED
  BY <1>2, <1>5

\* An integer written to the memory of a machine and read back is the same.
LEMMA MemoryFacts ==
  ASSUME NEW S, NEW s \in Seq(S), NEW host \in Hosts
  PROVE  /\ Memory(s, host) \in Seq(S) /\ Len(Memory(s, host)) = Len(s)
         /\ Memory(Memory(s, host), host) = s
         /\ hton(s, host) = Memory(s, host)
BY ReverseFacts DEF Memory, hton

\* The halves of a sequence of eight make it up.
LEMMA Halves ==
  ASSUME NEW S, NEW s \in Seq(S), Len(s) = 8
  PROVE  /\ SubSeq(s, 1, 4) \in Seq(S) /\ SubSeq(s, 5, 8) \in Seq(S)
         /\ SubSeq(s, 1, 4) \o SubSeq(s, 5, 8) = s
<1>1. SubSeq(s, 1, 4) \in Seq(S) /\ SubSeq(s, 5, 8) \in Seq(S)
  <2>1. \A i \in 1 .. 8 : s[i] \in S
    BY LenProperties
  <2>2. (\A i \in 1 .. 4 : s[i] \in S) /\ (\A i \in 5 .. 8 : s[i] \in S)
    BY <2>1
  <2> QED
    BY <2>2, SubSeqProperties
<1>2. SubSeq(s, 1, 4) \o SubSeq(s, 4 + 1, 8) = SubSeq(s, 1, 8)
  <2>1. \A i \in 1 .. 8 : s[i] \in S
    BY LenProperties
  <2> QED
    BY <2>1, ConcatAdjacentSubSeq
<1>3. SubSeq(s, 1, 8) = s
  BY SubSeqFull
<1> QED
  BY <1>1, <1>2, <1>3

\* The reverse of two sequences put together.
LEMMA ReverseConcat ==
  ASSUME NEW S, NEW a \in Seq(S), NEW b \in Seq(S)
  PROVE  Reverse(b) \o Reverse(a) = Reverse(a \o b)
<1> DEFINE l == Reverse(b) \o Reverse(a)
           c == a \o b
           r == Reverse(c)
           n == Len(a) + Len(b)
<1>1. /\ Reverse(a) \in Seq(S) /\ Len(Reverse(a)) = Len(a)
      /\ \A i \in 1 .. Len(a) : Reverse(a)[i] = a[Len(a) - i + 1]
  BY ReverseFacts
<1>2. /\ Reverse(b) \in Seq(S) /\ Len(Reverse(b)) = Len(b)
      /\ \A i \in 1 .. Len(b) : Reverse(b)[i] = b[Len(b) - i + 1]
  BY ReverseFacts
<1>3. /\ c \in Seq(S) /\ Len(c) = n
      /\ \A i \in 1 .. n : c[i] = IF i <= Len(a) THEN a[i] ELSE b[i - Len(a)]
  BY ConcatProperties
<1>4. /\ l \in Seq(S) /\ Len(l) = n
      /\ \A i \in 1 .. n : l[i] = IF i <= Len(b) THEN Reverse(b)[i] ELSE Reverse(a)[i - Len(b)]
  <2> DEFINE x == Reverse(a)
             y == Reverse(b)
  <2>1. /\ y \o x \in Seq(S) /\ Len(y \o x) = Len(y) + Len(x)
        /\ \A i \in 1 .. Len(y) + Len(x) :
             (y \o x)[i] = IF i <= Len(y) THEN y[i] ELSE x[i - Len(y)]
    <3>1. x \in Seq(S) /\ y \in Seq(S)
      BY <1>1, <1>2
    <3> HIDE DEF x, y
    <3> QED
      BY <3>1, ConcatProperties
  <2>2. Len(y) = Len(b) /\ Len(y) + Len(x) = n
    BY <1>1, <1>2
  <2> HIDE DEF x, y
  <2> QED
    BY <2>1, <2>2 DEF x, y
<1>5. r \in Seq(S) /\ Len(r) = n /\ \A i \in 1 .. n : r[i] = c[n - i + 1]
  <2> HIDE DEF c
  <2>1. /\ r \in Seq(S) /\ Len(r) = Len(c)
        /\ \A i \in 1 .. Len(c) : r[i] = c[Len(c) - i + 1]
    BY <1>3, ReverseFacts, Zenon
  <2> HIDE DEF r
  <2> QED
    BY <1>3, <2>1
<1>6. Len(a) \in Nat /\ Len(b) \in Nat
  OBVIOUS
<1> HIDE DEF l, c, r
<1>7. ASSUME NEW i \in 1 .. n PROVE l[i] = r[i]
  <2>1. r[i] = c[n - i + 1] /\ n - i + 1 \in 1 .. n
    BY <1>5, <1>6
  <2>2. CASE i <= Len(b)
    <3>1. l[i] = b[Len(b) - i + 1]
      BY <1>2, <1>4, <1>6, <2>2
    <3>2. c[n - i + 1] = b[(n - i + 1) - Len(a)]
      BY <1>3, <1>6, <2>1, <2>2
    <3> QED
      BY <1>6, <2>1, <3>1, <3>2
  <2>3. CASE i > Len(b)
    <3>1. l[i] = Reverse(a)[i - Len(b)] /\ i - Len(b) \in 1 .. Len(a)
      BY <1>4, <1>6, <2>3
    <3>2. Reverse(a)[i - Len(b)] = a[Len(a) - (i - Len(b)) + 1]
      BY <1>1, <3>1
    <3>3. c[n - i + 1] = a[n - i + 1]
      BY <1>3, <1>6, <2>1, <2>3, SMTT(30)
    <3> QED
      BY <1>6, <2>1, <3>1, <3>2, <3>3
  <2> QED
    BY <1>6, <2>2, <2>3
<1>8. l = r
  BY <1>4, <1>5, <1>7, SeqEqual
<1> QED
  BY <1>8 DEF l, r, c

\* The exchange of halves that DECLARE_XTOXLL makes is what htons and htonl are for
\* the smaller sizes: all of a uint64_t reversed on a little endian machine, nothing
\* on a big endian one (amqp_private.h:277-309).
THEOREM HalvesAreReversed ==
  ASSUME NEW S, NEW v \in Seq(S), Len(v) = 8, NEW host \in Hosts
  PROVE  htonll(v, host) = hton(v, host)
<1>1. CASE host = "little"
  <2> DEFINE w == Reverse(v)
             a == SubSeq(w, 1, 4)
             b == SubSeq(w, 5, 8)
  <2>1. w \in Seq(S) /\ Len(w) = 8 /\ Reverse(w) = v
    BY ReverseFacts
  <2>2. /\ a \in Seq(S) /\ b \in Seq(S)
        /\ Reverse(b) \o Reverse(a) = Reverse(w)
    <3> HIDE DEF w
    <3>1. a \in Seq(S) /\ b \in Seq(S) /\ a \o b = w
      BY <2>1, Halves
    <3> HIDE DEF a, b
    <3> QED
      BY <3>1, ReverseConcat
  <2>3. Reverse(Reverse(a)) = a /\ Reverse(Reverse(b)) = b
    BY <2>2, ReverseFacts
  <2>4. htonll(v, host) =
          Reverse(Reverse(Reverse(Reverse(b))) \o Reverse(Reverse(Reverse(a))))
    BY <1>1 DEF htonll, Memory, hton
  <2>5. htonll(v, host) = Reverse(Reverse(b) \o Reverse(a))
    BY <2>3, <2>4
  <2> QED
    BY <1>1, <2>1, <2>2, <2>5 DEF hton
<1>2. CASE host = "big"
  <2>1. htonll(v, host) = SubSeq(v, 1, 4) \o SubSeq(v, 5, 8)
    BY <1>2 DEF htonll, Memory, hton
  <2> QED
    BY <1>2, <2>1, Halves DEF hton
<1> QED
  BY <1>1, <1>2 DEF Hosts

\* For every size and either byte order, the conversion gives the integer whose
\* bytes in memory are those of its argument, most significant first.
LEMMA HtonxIsMemory ==
  ASSUME NEW S, NEW v \in Seq(S), NEW host \in Hosts
  PROVE  htonx(v, host) = Memory(v, host)
BY HalvesAreReversed, MemoryFacts DEF htonx

LEMMA PutFacts ==
  ASSUME NEW S, NEW data \in Seq(S), NEW bytes \in Seq(S), NEW offset \in Nat,
         offset + Len(bytes) <= Len(data)
  PROVE  /\ Put(data, offset, bytes) \in Seq(S)
         /\ Len(Put(data, offset, bytes)) = Len(data)
         /\ \A i \in 1 .. Len(bytes) : Put(data, offset, bytes)[offset + i] = bytes[i]
         /\ \A i \in 1 .. Len(data) : i \notin offset + 1 .. offset + Len(bytes) =>
              Put(data, offset, bytes)[i] = data[i]
         /\ SubSeq(Put(data, offset, bytes), offset + 1, offset + Len(bytes)) = bytes
<1> DEFINE p == Put(data, offset, bytes)
<1>1. p = [i \in 1 .. Len(data) |->
            IF i \in offset + 1 .. offset + Len(bytes) THEN bytes[i - offset] ELSE data[i]]
  BY DEF Put
<1>2. /\ p \in Seq(S) /\ Len(p) = Len(data)
      /\ \A i \in 1 .. Len(bytes) : p[offset + i] = bytes[i]
      /\ \A i \in 1 .. Len(data) : i \notin offset + 1 .. offset + Len(bytes) => p[i] = data[i]
  <2>1. \A i \in 1 .. Len(data) :
          (IF i \in offset + 1 .. offset + Len(bytes) THEN bytes[i - offset] ELSE data[i]) \in S
    OBVIOUS
  <2> QED
    BY <1>1, <2>1
<1> HIDE DEF p
<1>3. SubSeq(p, offset + 1, offset + Len(bytes)) = bytes
  <2> DEFINE q == SubSeq(p, offset + 1, offset + Len(bytes))
  <2>1. \A i \in offset + 1 .. offset + Len(bytes) : p[i] \in S
    BY <1>2
  <2>2. offset + 1 \in Int /\ offset + Len(bytes) \in Int
    OBVIOUS
  <2>3. /\ q \in Seq(S)
        /\ Len(q) = IF offset + 1 <= offset + Len(bytes)
                    THEN offset + Len(bytes) - (offset + 1) + 1 ELSE 0
        /\ \A i \in 1 .. offset + Len(bytes) - (offset + 1) + 1 : q[i] = p[offset + 1 + i - 1]
    BY <2>1, <2>2, SubSeqProperties
  <2> HIDE DEF q
  <2>4. Len(q) = Len(bytes)
    BY <2>3
  <2>5. ASSUME NEW i \in 1 .. Len(bytes) PROVE q[i] = bytes[i]
    <3>1. i \in 1 .. offset + Len(bytes) - (offset + 1) + 1 /\ offset + 1 + i - 1 = offset + i
      OBVIOUS
    <3> QED
      BY <1>2, <2>3, <3>1
  <2> QED
    BY <2>3, <2>4, <2>5, SeqEqual DEF q
<1> QED
  BY <1>2, <1>3 DEF p

\* What the two calls for integers return, field by field.
LEMMA EncodeFields ==
  ASSUME NEW encoded, NEW offset, NEW v, NEW host
  PROVE  LET e == amqp_encode(encoded, offset, v, host)
         IN /\ e.ok <=> offset + Len(v) <= Len(encoded)
            /\ e.offset = offset + Len(v)
            /\ e.bytes = IF offset + Len(v) <= Len(encoded)
                         THEN amqp_e(encoded, offset, v, host) ELSE encoded
BY Zenon DEF amqp_encode

LEMMA DecodeFields ==
  ASSUME NEW encoded, NEW offset, NEW size, NEW host
  PROVE  LET d == amqp_decode(encoded, offset, size, host)
         IN /\ d.ok <=> offset + size <= Len(encoded)
            /\ d.offset = offset + size
BY Zenon DEF amqp_decode

LEMMA BytesFields ==
  ASSUME NEW encoded, NEW offset, NEW input, NEW len
  PROVE  /\ amqp_encode_bytes(encoded, offset, input).ok <=> offset + Len(input) <= Len(encoded)
         /\ amqp_decode_bytes(encoded, offset, len).ok <=> offset + len <= Len(encoded)
BY Zenon DEF amqp_encode_bytes, amqp_decode_bytes

\* What amqp_encode_n puts into a buffer with room for it does not depend on the
\* machine: the bytes of the integer at the offset, most significant first, and no
\* other byte of the buffer changes (amqp_private.h:195-228).
THEOREM WireIsPortable ==
  ASSUME NEW S, NEW encoded \in Seq(S), NEW v \in Seq(S), NEW offset \in Nat, NEW host \in Hosts
  PROVE  amqp_encode(encoded, offset, v, host) = amqp_encode_bytes(encoded, offset, v)
<1>1. Memory(htonx(v, host), host) = v
  BY HtonxIsMemory, MemoryFacts
<1> QED
  BY <1>1 DEF amqp_encode, amqp_encode_bytes, amqp_e

\* An integer that one machine encoded, another decodes, whatever their byte
\* orders (amqp_private.h:195-243).
THEOREM RoundTrip ==
  ASSUME NEW S, NEW encoded \in Seq(S), NEW v \in Seq(S), NEW offset \in Nat,
         NEW writer \in Hosts, NEW reader \in Hosts,
         amqp_encode(encoded, offset, v, writer).ok
  PROVE  LET bytes == amqp_encode(encoded, offset, v, writer).bytes
         IN amqp_decode(bytes, offset, Len(v), reader) =
              [ok |-> TRUE, offset |-> offset + Len(v), output |-> v]
<1> DEFINE p == Put(encoded, offset, v)
<1>1. offset + Len(v) <= Len(encoded)
  BY EncodeFields
<1>2. amqp_encode(encoded, offset, v, writer).bytes = p
  BY <1>1, EncodeFields, HtonxIsMemory, MemoryFacts DEF amqp_e
<1>3. Len(p) = Len(encoded) /\ SubSeq(p, offset + 1, offset + Len(v)) = v
  BY <1>1, PutFacts
<1>4. Memory(v, reader) \in Seq(S)
  BY MemoryFacts
<1>5. amqp_d(p, offset, Len(v), reader) = v
  <2>1. htonx(Memory(v, reader), reader) = Memory(Memory(v, reader), reader)
    BY <1>4, HtonxIsMemory
  <2>2. Memory(Memory(v, reader), reader) = v
    BY MemoryFacts
  <2> HIDE DEF p
  <2> QED
    BY <1>3, <2>1, <2>2 DEF amqp_d
<1> HIDE DEF p
<1> QED
  BY <1>1, <1>2, <1>3, <1>5 DEF amqp_decode

\* A call that is made at the offset the one before left changes none of what that
\* one wrote, nor anything before it: fields encoded one after the other are all
\* there (amqp_private.h:216-228, 323-334).
THEOREM LaterFieldsSpareEarlier ==
  ASSUME NEW S, NEW encoded \in Seq(S), NEW v \in Seq(S), NEW offset \in Nat, NEW host \in Hosts
  PROVE  LET after == amqp_encode(encoded, offset, v, host)
         IN /\ after.bytes \in Seq(S) /\ Len(after.bytes) = Len(encoded)
            /\ \A i \in 1 .. Len(encoded) : i <= offset => after.bytes[i] = encoded[i]
            /\ \A i \in 1 .. Len(encoded) : i > after.offset => after.bytes[i] = encoded[i]
<1> DEFINE e == amqp_encode(encoded, offset, v, host)
<1>0. e.offset = offset + Len(v)
  BY EncodeFields
<1>1. CASE offset + Len(v) <= Len(encoded)
  <2> DEFINE p == Put(encoded, offset, v)
  <2>1. e.bytes = p
    BY <1>1, EncodeFields, HtonxIsMemory, MemoryFacts DEF amqp_e
  <2>2. /\ p \in Seq(S) /\ Len(p) = Len(encoded)
        /\ \A i \in 1 .. Len(encoded) : i \notin offset + 1 .. offset + Len(v) => p[i] = encoded[i]
    BY <1>1, PutFacts
  <2> HIDE DEF e, p
  <2> QED
    BY <1>0, <2>1, <2>2 DEF e
<1>2. CASE ~(offset + Len(v) <= Len(encoded))
  <2>1. e.bytes = encoded
    BY <1>2, EncodeFields
  <2> QED
    BY <2>1
<1> QED
  BY <1>1, <1>2

\* Because the offset advances in any case, no call succeeds after one that failed: a
\* small field never takes the place of one that did not fit, and nothing is read
\* beyond the end (amqp_private.h:221-227, 234-242, 327-333, 340-347).
THEOREM FailureSticks ==
  ASSUME NEW S, NEW encoded \in Seq(S), NEW v \in Seq(S), NEW w \in Seq(S),
         NEW offset \in Nat, NEW host \in Hosts
  PROVE  LET failed == amqp_encode(encoded, offset, v, host)
             unread == amqp_decode(encoded, offset, Len(v), host)
         IN /\ ~failed.ok =>
                 /\ failed.bytes = encoded
                 /\ ~amqp_encode(failed.bytes, failed.offset, w, host).ok
                 /\ ~amqp_encode_bytes(failed.bytes, failed.offset, w).ok
            /\ ~unread.ok =>
                 /\ ~amqp_decode(encoded, unread.offset, Len(w), host).ok
                 /\ ~amqp_decode_bytes(encoded, unread.offset, Len(w)).ok
<1> DEFINE failed == amqp_encode(encoded, offset, v, host)
           unread == amqp_decode(encoded, offset, Len(v), host)
<1>1. /\ failed.ok <=> offset + Len(v) <= Len(encoded)
      /\ failed.offset = offset + Len(v)
      /\ ~failed.ok => failed.bytes = encoded
  BY EncodeFields
<1>2. /\ unread.ok <=> offset + Len(v) <= Len(encoded)
      /\ unread.offset = offset + Len(v)
  BY DecodeFields
<1> HIDE DEF failed, unread
<1>3. ~(offset + Len(v) <= Len(encoded)) =>
        ~((offset + Len(v)) + Len(w) <= Len(encoded))
  OBVIOUS
<1>4. ~failed.ok => ~amqp_encode(failed.bytes, failed.offset, w, host).ok
  BY <1>1, <1>3, EncodeFields
<1>5. ~failed.ok => ~amqp_encode_bytes(failed.bytes, failed.offset, w).ok
  BY <1>1, <1>3, BytesFields
<1>6. ~unread.ok => ~amqp_decode(encoded, unread.offset, Len(w), host).ok
  BY <1>2, <1>3, DecodeFields
<1>7. ~unread.ok => ~amqp_decode_bytes(encoded, unread.offset, Len(w)).ok
  BY <1>2, <1>3, BytesFields
<1> QED
  BY <1>1, <1>4, <1>5, <1>6, <1>7 DEF failed, unread
-----------------------------------------------------------------------------
(* Frames: calls of amqp_encode_n made one after the other, each with the  *)
(* buffer and the offset that the one before left.                         *)

\* bytes[k] and offset[k] are what the k-th call leaves.
Frame(S, n, fields, bytes, offset, host) ==
  /\ n \in Nat /\ host \in Hosts /\ fields \in [1 .. n -> Seq(S)]
  /\ bytes \in [0 .. n -> Seq(S)] /\ offset \in [0 .. n -> Nat]
  /\ \A k \in 1 .. n :
       LET e == amqp_encode(bytes[k - 1], offset[k - 1], fields[k], host)
       IN bytes[k] = e.bytes /\ offset[k] = e.offset

\* One call of a frame.
LEMMA FrameStep ==
  ASSUME NEW S, NEW n, NEW fields, NEW host, NEW bytes, NEW offset,
         Frame(S, n, fields, bytes, offset, host)
  PROVE  \A k \in 1 .. n :
           /\ offset[k] = offset[k - 1] + Len(fields[k])
           /\ Len(bytes[k]) = Len(bytes[k - 1])
           /\ \A i \in 1 .. Len(bytes[k - 1]) :
                i <= offset[k - 1] => bytes[k][i] = bytes[k - 1][i]
<1> TAKE k \in 1 .. n
<1> USE DEF Frame
<1> DEFINE b == bytes[k - 1]
           o == offset[k - 1]
           v == fields[k]
<1>1. b \in Seq(S) /\ o \in Nat /\ v \in Seq(S) /\ host \in Hosts
  OBVIOUS
<1>2. /\ bytes[k] = amqp_encode(b, o, v, host).bytes
      /\ offset[k] = amqp_encode(b, o, v, host).offset
  BY DEF Frame
<1> HIDE DEF Frame, b, o, v
<1>3. amqp_encode(b, o, v, host).offset = o + Len(v)
  BY EncodeFields
<1>4. /\ Len(amqp_encode(b, o, v, host).bytes) = Len(b)
      /\ \A i \in 1 .. Len(b) : i <= o => amqp_encode(b, o, v, host).bytes[i] = b[i]
  BY <1>1, LaterFieldsSpareEarlier
<1>5. /\ offset[k] = o + Len(v) /\ Len(bytes[k]) = Len(b)
      /\ \A i \in 1 .. Len(b) : i <= o => bytes[k][i] = b[i]
  BY <1>2, <1>3, <1>4
<1> QED
  BY <1>5 DEF b, o, v

\* Offsets only grow, the buffer keeps its length, and what lies before the offset of
\* a call is left alone by all that follow.
LEMMA FrameGrows ==
  ASSUME NEW S, NEW n, NEW fields, NEW host, NEW bytes, NEW offset,
         Frame(S, n, fields, bytes, offset, host)
  PROVE  \A first \in 0 .. n : \A last \in first .. n :
           /\ offset[first] <= offset[last] /\ Len(bytes[last]) = Len(bytes[first])
           /\ \A i \in 1 .. Len(bytes[first]) :
                i <= offset[first] => bytes[last][i] = bytes[first][i]
<1> TAKE first \in 0 .. n
<1> TAKE last \in first .. n
<1>0. /\ n \in Nat /\ host \in Hosts /\ fields \in [1 .. n -> Seq(S)]
      /\ bytes \in [0 .. n -> Seq(S)] /\ offset \in [0 .. n -> Nat]
  BY DEF Frame
<1> DEFINE Spared(k) == /\ offset[first] <= offset[k] /\ Len(bytes[k]) = Len(bytes[first])
                        /\ \A i \in 1 .. Len(bytes[first]) :
                             i <= offset[first] => bytes[k][i] = bytes[first][i]
           T == {m \in Nat : first + m <= n => Spared(first + m)}
<1>1. 0 \in T
  BY <1>0
<1>2. ASSUME NEW m \in T PROVE m + 1 \in T
  <2> SUFFICES ASSUME first + m + 1 <= n PROVE Spared(first + m + 1)
    OBVIOUS
  <2> DEFINE k == first + m + 1
  <2>1. k \in 1 .. n /\ k - 1 = first + m /\ Spared(k - 1)
    BY <1>0
  <2> HIDE DEF k
  <2>2. /\ offset[k] = offset[k - 1] + Len(fields[k])
        /\ Len(bytes[k]) = Len(bytes[k - 1])
        /\ \A i \in 1 .. Len(bytes[k - 1]) :
             i <= offset[k - 1] => bytes[k][i] = bytes[k - 1][i]
    BY <2>1, FrameStep
  <2>3. /\ Len(fields[k]) \in Nat /\ Len(bytes[first]) \in Nat
        /\ offset[first] \in Nat /\ offset[k - 1] \in Nat
    BY <1>0, <2>1
  <2>4. offset[first] <= offset[k] /\ Len(bytes[k]) = Len(bytes[first])
    BY <2>1, <2>2, <2>3
  <2>5. ASSUME NEW i \in 1 .. Len(bytes[first]), i <= offset[first]
        PROVE  bytes[k][i] = bytes[first][i]
    <3>1. i \in 1 .. Len(bytes[k - 1]) /\ i <= offset[k - 1] /\ bytes[k - 1][i] = bytes[first][i]
      BY <2>1, <2>3, <2>5
    <3> QED
      BY <2>2, <3>1
  <2> QED
    BY <2>4, <2>5 DEF k
<1>3. T = Nat
  <2> HIDE DEF T
  <2>1. T \in SUBSET Nat
    BY DEF T
  <2> QED
    BY <1>1, <1>2, <2>1, Induction
<1>4. last - first \in Nat /\ first + (last - first) = last /\ last <= n
  BY <1>0
<1>5. last - first \in T
  <2> HIDE DEF T
  <2> QED
    BY <1>3, <1>4
<1> QED
  BY <1>4, <1>5

\* However many fields a frame has, what has room is all there when it is complete:
\* every field whose encoding succeeded is read back at its offset from the final
\* buffer, on a machine of either byte order (amqp_private.h:216-243).
THEOREM FramesAreReadBack ==
  ASSUME NEW S, NEW n, NEW fields, NEW bytes, NEW offset, NEW writer, NEW reader \in Hosts,
         Frame(S, n, fields, bytes, offset, writer), NEW k \in 1 .. n,
         amqp_encode(bytes[k - 1], offset[k - 1], fields[k], writer).ok
  PROVE  amqp_decode(bytes[n], offset[k - 1], Len(fields[k]), reader) =
           [ok |-> TRUE, offset |-> offset[k], output |-> fields[k]]
<1> DEFINE b == bytes[k - 1]
           o == offset[k - 1]
           v == fields[k]
           now == bytes[k]
           final == bytes[n]
<1>1. /\ b \in Seq(S) /\ o \in Nat /\ v \in Seq(S) /\ now \in Seq(S) /\ final \in Seq(S)
      /\ k \in 0 .. n /\ n \in k .. n /\ writer \in Hosts
  BY DEF Frame
<1>2. now = amqp_encode(b, o, v, writer).bytes
  BY DEF Frame
<1>3. amqp_encode(b, o, v, writer).ok
  OBVIOUS
<1>4. offset[k] = o + Len(v) /\ Len(now) = Len(b)
  BY FrameStep
<1>5. /\ Len(final) = Len(now)
      /\ \A i \in 1 .. Len(now) : i <= offset[k] => final[i] = now[i]
  BY <1>1, FrameGrows
<1> HIDE DEF b, o, v, now, final
<1>6. o + Len(v) <= Len(b)
  BY <1>3, EncodeFields
<1>7. amqp_decode(now, o, Len(v), reader) = [ok |-> TRUE, offset |-> o + Len(v), output |-> v]
  BY <1>1, <1>2, <1>3, RoundTrip
<1>8. SubSeq(final, o + 1, o + Len(v)) = SubSeq(now, o + 1, o + Len(v))
  <2>1. \A i \in o + 1 .. o + Len(v) : i \in 1 .. Len(now) /\ i <= offset[k]
    BY <1>1, <1>4, <1>6
  <2>2. \A i \in o + 1 .. o + Len(v) : final[i] = now[i]
    BY <1>5, <2>1
  <2> QED
    BY <1>1, <2>2
<1>9. amqp_decode(final, o, Len(v), reader) = amqp_decode(now, o, Len(v), reader)
  BY <1>5, <1>8, Zenon DEF amqp_decode, amqp_d
<1>10. amqp_decode(final, o, Len(v), reader) =
         [ok |-> TRUE, offset |-> offset[k], output |-> v]
  BY <1>4, <1>7, <1>9
<1> QED
  BY <1>10 DEF o, v, final

\* And the fields that are there are the first ones: one that has no room ends the
\* frame, whatever the sizes of those after it (amqp_private.h:221-227).
THEOREM FramesAreCutShort ==
  ASSUME NEW S, NEW n, NEW fields, NEW bytes, NEW offset, NEW host,
         Frame(S, n, fields, bytes, offset, host), NEW k \in 1 .. n, NEW j \in 1 .. k,
         amqp_encode(bytes[k - 1], offset[k - 1], fields[k], host).ok
  PROVE  amqp_encode(bytes[j - 1], offset[j - 1], fields[j], host).ok
<1>0. /\ n \in Nat /\ fields \in [1 .. n -> Seq(S)]
      /\ bytes \in [0 .. n -> Seq(S)] /\ offset \in [0 .. n -> Nat]
  BY DEF Frame
<1>1. /\ j \in 0 .. n /\ k \in 0 .. n /\ k \in j .. n /\ j - 1 \in 0 .. n
      /\ k - 1 \in 0 .. n /\ k - 1 \in j - 1 .. n
      /\ j \in 1 .. n
  BY <1>0, SMTT(30)
<1>2. offset[j] <= offset[k]
  BY <1>1, FrameGrows
<1>3. Len(bytes[k - 1]) = Len(bytes[j - 1])
  BY <1>1, FrameGrows
<1>4. offset[j] = offset[j - 1] + Len(fields[j]) /\ offset[k] = offset[k - 1] + Len(fields[k])
  BY <1>1, FrameStep
<1>5. offset[k - 1] + Len(fields[k]) <= Len(bytes[k - 1])
  BY EncodeFields
<1>6. offset[j - 1] + Len(fields[j]) <= Len(bytes[j - 1])
  <2>1. /\ offset[j] \in Nat /\ offset[k] \in Nat
        /\ Len(bytes[k - 1]) \in Nat /\ offset[k - 1] \in Nat /\ Len(fields[k]) \in Nat
    BY <1>0, <1>1
  <2> QED
    BY <1>2, <1>3, <1>4, <1>5, <2>1
<1> QED
  BY <1>6, EncodeFields
=============================================================================
