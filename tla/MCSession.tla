----------------------------- MODULE MCSession -----------------------------
(* AdapterSession on a few connections; it needs no definitions of its own. *)
EXTENDS AdapterSession
=============================================================================
