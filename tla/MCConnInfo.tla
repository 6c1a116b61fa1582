----------------------------- MODULE MCConnInfo -----------------------------
(* ConnInfo with one thread, which threads do not share: two calls of init *)
(* that bring a callback and one that takes it away.                       *)
EXTENDS ConnInfo

CONSTANT w1

OneWorker == {w1}
FirstTwo == {1, 2}
=============================================================================
