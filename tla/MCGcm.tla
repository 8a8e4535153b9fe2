-------------------------------- MODULE MCGcm -------------------------------
(***************************************************************************)
(* A small GCM session for TLC: two keys and two IVs, so that a refused    *)
(* call can leave one of each; blocks of two bytes and texts of up to five *)
(* in every split; a tag length of each kind (valid, settable but never    *)
(* delivered, invalid); and two calls out of order before the next init,   *)
(* enough to use a session that became ready without being initialised.    *)
(***************************************************************************)
EXTENDS Gcm, TLC

CONSTANTS k1, k2, short, v1, v2, long

MCKeys == {k1, k2}
MCBadKeys == {short}
MCIvs == {v1, v2}
MCBadIvs == {long}
MCTagSizes == {3, 5, 16}

MCSymmetry == Permutations(MCKeys) \cup Permutations(MCIvs)
=============================================================================
