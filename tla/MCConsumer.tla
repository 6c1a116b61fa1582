----------------------------- MODULE MCConsumer -----------------------------
(* ConsumerWorker with one or two workers of a queue.                      *)
EXTENDS ConsumerWorker

CONSTANTS w1, w2

OneWorker == {w1}
TwoWorkers == {w1, w2}
=============================================================================
