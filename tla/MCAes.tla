-------------------------------- MODULE MCAes --------------------------------
(***************************************************************************)
(* Small users of AES for TLC, with blocks of two bytes: a CMAC session,   *)
(* or a handle on a block mode.                                            *)
(*                                                                         *)
(* The session takes messages of up to seven bytes, so that one call can   *)
(* fill the buffer, encrypt two blocks of its own data and still hold a    *)
(* full or a partial block back.  The handle takes texts of less than a    *)
(* block, of one and a half and of two; batches of one to three buffers of *)
(* equal and of different lengths, with and without remainders.            *)
(*                                                                         *)
(* The two share nothing: `mac', chosen at the start, says which of them   *)
(* the caller has, and the other never moves.                              *)
(***************************************************************************)
EXTENDS Cmac, CipherSession, TLC

CONSTANTS k1, k2, v1, v2, shortKey

MCKeys == {k1, k2}
MCIvs == {v1, v2}
MCBadKeys == {shortKey}
MCByte == {0, 128}
MCKinds == {"xts", "segment", "cbc", "cfb", "ctr", "ofb"}
\* Segments of the default build, and the ends of OFB's texts, have runs of their own.
MCBuilds == [k \in Kinds |-> IF k = "segment" THEN {TRUE} ELSE BOOLEAN]
MCDefaultBuilds == [k \in Kinds |-> {FALSE}]
MCSegmentKinds == {"segment"}
MCOfbKinds == {"ofb"}
MCTexts == {<<1>>, <<2, 3, 4>>, <<5, 6, 7, 8>>}
MCBatches ==
  {<<<<1, 2>>>>,
   <<<<1, 2, 3>>, <<4, 5, 6, 7, 8>>, <<1, 3>>>>,
   <<<<1, 2, 3, 4>>, <<5, 6>>, <<7, 8, 9, 9>>>>}

MCTurns == [k \in Kinds |-> IF k \in {"cbc", "cfb"} THEN 3 ELSE 5]

MCSymmetry == Permutations(MCKeys) \cup Permutations(MCIvs)

VARIABLE mac

\* Beside a CMAC session the handle is any one that was requested.
MCInit ==
  /\ mac \in BOOLEAN
  /\ Init
  /\ CipherInit
  /\ mac => /\ kind = CHOOSE k \in Kinds : TRUE
            /\ obj.multi = CHOOSE b \in Builds[kind] : TRUE
            /\ arch = "zen"

MCNext ==
  \/ mac /\ Next /\ UNCHANGED <<mac, cipherVars>>
  \/ ~mac /\ CipherNext /\ UNCHANGED <<mac, vars>>

MCSpec == MCInit /\ [][MCNext]_<<mac, vars, cipherVars>>
=============================================================================
