------------------------------- MODULE MCAead -------------------------------
(***************************************************************************)
(* Small handles for TLC: blocks of four bytes for AES, ChaCha20 and       *)
(* Poly1305 alike, two keys and two IVs of which one leaves CCM's length   *)
(* field room for three bytes only; additional data and texts that do and  *)
(* do not fill a block; a tag length of each kind.                         *)
(***************************************************************************)
EXTENDS Aead, TLC

CONSTANTS k1, k2, v1, v2

MCKeys == {k1, k2}
MCIvs == {v1, v2}
MCRoom == [v \in MCIvs |-> IF v = v1 THEN 100 ELSE 3]
MCTagLens == 4 .. 12
MCTagSizes == [k \in Kinds |-> IF k = "ccm" THEN {3, 4, 5, 12} ELSE {3, 4}]
MCAads == {<<1>>, <<2, 2, 2>>}
MCTexts == {<<5>>, <<6, 7, 8, 9>>}
MCTurns == [k \in Kinds |-> IF k = "poly1305" THEN 4 ELSE 3]

MCSymmetry == Permutations(MCKeys)
=============================================================================
