------------------------------- MODULE MCSha2 -------------------------------
(***************************************************************************)
(* Small SHA-2 digests for TLC: a session, or a multi-buffer object.       *)
(*                                                                         *)
(* Sessions have chunks of three bytes, the last of which holds the        *)
(* length, so that both final layouts occur, and messages of up to seven   *)
(* bytes, so that one call can complete the buffered chunk, compress a     *)
(* chunk of its own data and leave a byte behind.  Batches have up to      *)
(* three messages, two of which start the vector kernel, of up to two      *)
(* blocks and a byte; a length of six bytes is refused.                    *)
(*                                                                         *)
(* The two share nothing: `batch', chosen at the start, says which of them *)
(* the caller has, and the other never moves.                              *)
(***************************************************************************)
EXTENDS Sha2, Sha2MB, TLC

CONSTANTS x, y

MCByte == {0, 128}
MCBatches == {x, y}
MCSymmetry == Permutations(MCBatches)

VARIABLE batch

MCInit ==
  /\ batch \in BOOLEAN
  /\ Init
  /\ BatchInit
  /\ batch => ~wide

MCNext ==
  \/ ~batch /\ Next /\ UNCHANGED <<batch, batchVars>>
  \/ batch /\ BatchNext /\ UNCHANGED <<batch, vars>>

MCSpec == MCInit /\ [][MCNext]_<<batch, vars, batchVars>>
=============================================================================
