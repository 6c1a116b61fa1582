----------------------------- MODULE MCWireCodec -----------------------------
(* WireCodec on small inputs: fields put into a buffer one after the other.*)
EXTENDS WireCodec

\* An integer of each size, of bytes that tell their places apart.
Integer(size, first) == [i \in 1 .. size |-> first + i]
Fields == {Integer(size, 10 * size) : size \in Sizes}
Frames == UNION {[1 .. n -> Fields] : n \in 0 .. 3}

Blank(length) == [i \in 1 .. length |-> 0]

\* The fields of a frame, encoded one after the other whether or not they fit.
Encoded(fields, length, host) ==
  FoldLeft(LAMBDA r, v : amqp_encode(r.bytes, r.offset, v, host),
           [ok |-> TRUE, offset |-> 0, bytes |-> Blank(length)], fields)

\* As many fields from the first as a buffer has room for.
Fitting(fields, length) ==
  SubSeq(fields, 1,
    Max({k \in 0 .. Len(fields) : Len(FlattenSeq(SubSeq(fields, 1, k))) <= length}))

\* A frame holds the bytes of the fields it has room for, in order and most
\* significant first, and nothing after them, whichever machine wrote it.
FrameIsFields ==
  \A fields \in Frames, length \in 0 .. 14, host \in Hosts :
    LET wire == FlattenSeq(Fitting(fields, length))
    IN Encoded(fields, length, host).bytes = wire \o Blank(length - Len(wire))

\* Every field of the frame is read back, on any machine, and none when less than
\* the field has arrived.
FieldsAreReadBack ==
  \A fields \in Frames, writer, reader \in Hosts, cut \in 0 .. 14 :
    \A k \in DOMAIN fields :
      LET arrived == SubSeq(Encoded(fields, 24, writer).bytes, 1, cut)
          start == Len(FlattenSeq(SubSeq(fields, 1, k - 1)))
          d == amqp_decode(arrived, start, Len(fields[k]), reader)
      IN IF start + Len(fields[k]) <= cut THEN d.ok /\ d.output = fields[k] ELSE ~d.ok

ASSUME CodecAgrees == FrameIsFields /\ FieldsAreReadBack
=============================================================================
