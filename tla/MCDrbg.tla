------------------------------- MODULE MCDrbg -------------------------------
(* Bounds for Drbg: every kind of source and mechanism, seeds of four bytes *)
(* that a source may deliver in pieces, and a few calls one after another.  *)
EXTENDS Drbg
=============================================================================
