------------------------------ MODULE WireCodec ------------------------------
(***************************************************************************)
(* How librabbitmq puts integers and strings into a frame and takes them   *)
(* out again: the inline functions of amqp_private.h.                      *)
(*                                                                         *)
(* An unsigned integer is the sequence of its bytes, most significant      *)
(* first.  A buffer (amqp_bytes_t) is the sequence of its bytes.  Sums of  *)
(* offsets and lengths stay below the limit of size_t, as those of a       *)
(* frame of at most 131072 bytes do.                                       *)
(***************************************************************************)
EXTENDS Integers, Sequences, SequencesExt

\* The bytes of a uint8_t, uint16_t, uint32_t and uint64_t.
Sizes == {1, 2, 4, 8}

\* The byte order of a machine, determined by the preprocessor.
Hosts == {"little", "big"}

\* The bytes of integer v in the memory of host; and the integer that bytes v
\* in its memory are.
Memory(v, host) == IF host = "little" THEN Reverse(v) ELSE v

\* htons, htonl: the integer whose memory is v in network order.
hton(v, host) == IF host = "little" THEN Reverse(v) ELSE v

\* DECLARE_XTOXLL: from the two halves of the memory of a uint64_t, exchanged
\* on a little endian machine.
htonll(v, host) ==
  LET whole == Memory(v, host)
      half0 == hton(Memory(SubSeq(whole, 1, 4), host), host)
      half1 == hton(Memory(SubSeq(whole, 5, 8), host), host)
  IN IF host = "little"
     THEN Memory(Memory(half1, host) \o Memory(half0, host), host)
     ELSE Memory(Memory(half0, host) \o Memory(half1, host), host)

\* The function DECLARE_CODEC_BASE_TYPE is given for an integer of this size,
\* in both directions.
htonx(v, host) == IF Len(v) = 8 THEN htonll(v, host) ELSE hton(v, host)

\* memcpy to an offset of a buffer.
Put(data, offset, bytes) ==
  [i \in DOMAIN data |->
    IF i \in offset + 1 .. offset + Len(bytes) THEN bytes[i - offset] ELSE data[i]]

amqp_e(data, offset, v, host) == Put(data, offset, Memory(htonx(v, host), host))

amqp_d(data, offset, size, host) ==
  htonx(Memory(SubSeq(data, offset + 1, offset + size), host), host)

\* *offset advances, whether or not there is room.
amqp_encode(encoded, offset, v, host) ==
  LET fits == offset + Len(v) <= Len(encoded) IN
  [ok |-> fits, offset |-> offset + Len(v),
   bytes |-> IF fits THEN amqp_e(encoded, offset, v, host) ELSE encoded]

\* What *output is after a call that fails says nothing.
amqp_decode(encoded, offset, size, host) ==
  LET fits == offset + size <= Len(encoded) IN
  [ok |-> fits, offset |-> offset + size,
   output |-> IF fits THEN amqp_d(encoded, offset, size, host) ELSE <<>>]

amqp_encode_bytes(encoded, offset, input) ==
  LET fits == offset + Len(input) <= Len(encoded) IN
  [ok |-> fits, offset |-> offset + Len(input),
   bytes |-> IF fits THEN Put(encoded, offset, input) ELSE encoded]

\* *output points into the buffer: it is what the buffer holds there.
amqp_decode_bytes(encoded, offset, len) ==
  LET fits == offset + len <= Len(encoded) IN
  [ok |-> fits, offset |-> offset + len,
   output |-> IF fits THEN SubSeq(encoded, offset + 1, offset + len) ELSE <<>>]
=============================================================================
