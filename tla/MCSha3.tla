------------------------------- MODULE MCSha3 -------------------------------
(***************************************************************************)
(* Two sessions with blocks of three bytes: messages that leave a byte over, *)
(* or none, and output taken within a block, up to its end and beyond.     *)
(* The code never looks at a byte, so pieces of distinct ones are enough.  *)
(***************************************************************************)
EXTENDS Sha3

MCData == {<<>>, <<1>>, <<0, 2, 3, 4>>}

MCSizes == {0, 1, 4}
=============================================================================
