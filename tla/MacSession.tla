----------------------------- MODULE MacSession -----------------------------
(***************************************************************************)
(* What a MAC session promises its caller, whatever the algorithm behind   *)
(* it: the bytes handed over since the last init or reset form one         *)
(* message, however they were cut into calls, and the MAC delivered for it *)
(* is the algorithm's function of the installed key and of that message    *)
(* only.  This is the contract of alcp_mac_init / update / finalize /      *)
(* reset; Cmac and Hmac are shown to implement it.                         *)
(***************************************************************************)
EXTENDS Sequences

CONSTANTS
  Keys,           (* keys the algorithm accepts                            *)
  NoKey,          (* the session has no key yet                            *)
  Data,           (* what one update call may hand over                    *)
  NoTag,          (* no MAC has been delivered for the current message     *)
  MacOf(_, _)     (* the algorithm: MacOf(key, message)                    *)

VARIABLES
  key,            (* the installed key, or NoKey                           *)
  msg,            (* the message absorbed so far                           *)
  done,           (* TRUE from finalize to the next init or reset          *)
  tag             (* the MAC delivered for the current message             *)

vars == <<key, msg, done, tag>>

Init ==
  /\ key = NoKey
  /\ msg = <<>>
  /\ done = FALSE
  /\ tag = NoTag

\* The three ways a fresh message starts all forget the previous one.
Fresh ==
  /\ msg' = <<>>
  /\ done' = FALSE
  /\ tag' = NoTag

SetKey(k) ==
  /\ key' = k
  /\ Fresh

Reset ==
  /\ Fresh
  /\ UNCHANGED key

Absorb(d) ==
  /\ key \in Keys
  /\ ~done
  /\ msg' = msg \o d
  /\ UNCHANGED <<key, done, tag>>

Finish ==
  /\ key \in Keys
  /\ ~done
  /\ tag' = MacOf(key, msg)
  /\ done' = TRUE
  /\ UNCHANGED <<key, msg>>

Next ==
  \/ \E k \in Keys : SetKey(k)
  \/ Reset
  \/ \E d \in Data : Absorb(d)
  \/ Finish

Spec == Init /\ [][Next]_vars
=============================================================================
