------------------------------- MODULE MCHmac -------------------------------
(***************************************************************************)
(* Small HMACs for TLC: two handles, or a multi-buffer object.             *)
(*                                                                         *)
(* The handles have a short and a long key, one digest of each kind the    *)
(* code tells apart, and messages of up to two bytes.  Batches have up to  *)
(* three messages, two of which take the vector path, of up to two blocks  *)
(* and a byte; the longest are too long for that path.                     *)
(*                                                                         *)
(* The two share nothing: `batch', chosen at the start, says which of them *)
(* the caller has, and the other never moves.                              *)
(***************************************************************************)
EXTENDS Hmac, HmacMB, TLC

CONSTANTS h1, h2, shortKey, longKey, sha256, sha512, md5sha1, a, b, x, y, k1, k2

MCHandles == {h1, h2}
MCKeys == {shortKey, longKey}
MCLongKeys == {longKey}
MCModes == {sha256, sha512, md5sha1}
MCClonable == {sha256, sha512}
MCEager == {sha512}
MCByte == {a, b}
MCBatches == {x, y}
MCKeyTexts == {k1, k2}
MCSymmetry ==
  UNION {Permutations(S) : S \in {MCHandles, MCByte, MCBatches, MCKeyTexts}}

VARIABLE batch

MCInit ==
  /\ batch \in BOOLEAN
  /\ Init
  /\ BatchInit

MCNext ==
  \/ ~batch /\ Next /\ UNCHANGED <<batch, batchVars>>
  \/ batch /\ BatchNext /\ UNCHANGED <<batch, vars>>

MCSpec == MCInit /\ [][MCNext]_<<batch, vars, batchVars>>
=============================================================================
