----------------------------- MODULE CipherBytes -----------------------------
(***************************************************************************)
(* The bytes the cipher classes read and write, and the arguments of their *)
(* init calls that are not a key or an IV.  A byte is [b, ks]: the value   *)
(* b, masked with the keystream bytes named in ks.  Masking it twice with  *)
(* the same keystream byte gives it back, and two names stand for two      *)
(* bytes, but for a collision of the block cipher.                         *)
(***************************************************************************)
EXTENDS Integers, Sequences

CONSTANTS
  NoKey,          (* a null key, and the zeros of an object without one    *)
  BadKey,         (* a key of a length the class refuses                   *)
  NoIv,           (* a null IV, and the zeros of an object without one     *)
  BadIv           (* an IV of a length the class refuses                   *)

ASSUME ArgumentAssumption == NoKey # BadKey /\ NoIv # BadIv

Raw(m) == [i \in 1 .. Len(m) |-> [b |-> m[i], ks |-> {}]]

Zeros(n) == Raw([i \in 1 .. n |-> 0])

\* d xored with a keystream whose i-th byte is called name[i].
Xored(d, name) ==
  [i \in DOMAIN d |->
    [d[i] EXCEPT !.ks = (@ \ {name[i]}) \cup ({name[i]} \ @)]]

\* What a call leaves in the object, returns, and writes.
Done(o, err) == [obj |-> o, err |-> err, out |-> <<>>]

Wrote(o, err, out) == [obj |-> o, err |-> err, out |-> out]
=============================================================================
