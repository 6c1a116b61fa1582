------------------------------ MODULE MCSystem ------------------------------
(* MessagingSystem with two programs.                                      *)
EXTENDS MessagingSystem

CONSTANTS p1, p2

TwoPrograms == {p1, p2}
=============================================================================
