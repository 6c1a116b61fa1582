--------------------------- MODULE MCAdapterCalls ---------------------------
(* AdapterCalls with one queue and two exchanges, over the codec of its     *)
(* library.                                                                 *)
EXTENDS AdapterCalls, MCWireCodec

CONSTANTS q1, x1, cfdefault

OneQueue == {q1}
TwoExchanges == {x1, cfdefault}
=============================================================================
