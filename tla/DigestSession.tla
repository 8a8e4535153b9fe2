---------------------------- MODULE DigestSession ----------------------------
(***************************************************************************)
(* What a digest session promises its caller, whatever the algorithm: the  *)
(* bytes handed over since the last init form one message, however they    *)
(* were cut into calls, and the digest delivered is the hash of that       *)
(* message.  Once it is delivered the session takes nothing more until     *)
(* init.  This is the contract of alcp_digest_init / update / finalize.    *)
(***************************************************************************)
EXTENDS Sequences

CONSTANTS
  Data,           (* what one update call may hand over                    *)
  NoDigest,       (* nothing delivered for the current message             *)
  HashOf(_)       (* the algorithm, a function of the whole message        *)

VARIABLES
  msg,            (* the message absorbed so far                           *)
  done,           (* TRUE from finalize to the next init                   *)
  digest          (* the digest delivered for the current message          *)

vars == <<msg, done, digest>>

Init ==
  /\ msg = <<>>
  /\ done = FALSE
  /\ digest = NoDigest

Start ==
  /\ msg' = <<>>
  /\ done' = FALSE
  /\ digest' = NoDigest

Absorb(d) ==
  /\ ~done
  /\ msg' = msg \o d
  /\ UNCHANGED <<done, digest>>

Finish ==
  /\ ~done
  /\ digest' = HashOf(msg)
  /\ done' = TRUE
  /\ UNCHANGED msg

Next == Start \/ (\E d \in Data : Absorb(d)) \/ Finish

Spec == Init /\ [][Next]_vars
=============================================================================
