-------------------------------- MODULE MCRsa --------------------------------
(***************************************************************************)
(* An RSA session for TLC: keys of 16 and of 8 bytes, a byte of 16 values, *)
(* a digest of two bytes with a DigestInfo and one of three without.  The  *)
(* texts begin with bytes that look like padding, or have as many bytes as *)
(* half the values of a byte, and one more.                                *)
(***************************************************************************)
EXTENDS Rsa

Letters(n) == [i \in 1 .. n |-> <<"text", i>>]

MCKeySize == [a |-> 16, b |-> 16, s |-> 8]
MCHashLen == [sha |-> 2, odd |-> 3]
MCInfoOf == [sha |-> "sha", odd |-> "same"]
MCTexts == {<<>>, <<One, Zero>>, Letters(8), Letters(9)}
MCSalts == {<<>>, <<Zero, One>>}
=============================================================================
