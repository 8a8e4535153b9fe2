--------------------------------- MODULE Siv ---------------------------------
(***************************************************************************)
(* SivT: AES-CMAC-SIV.  A key has two halves, one for the CMAC object of   *)
(* S2V and one for the CTR cipher.  The CMAC of each additional data is    *)
(* taken when it is set.  For decryption the IV of init is the tag of the  *)
(* encryption.                                                             *)
(***************************************************************************)
EXTENDS CipherBytes

CONSTANT
  SivTagLen       (* the only length of a tag: 16                          *)

\* m_cmacTemp and m_syntheticIv when they are zeroed.
SivZero == [zero |-> TRUE]

SivNew ==
  [mac |-> NoKey, ctr |-> NoKey, iv |-> SivZero, aads |-> <<>>,
   temp |-> SivZero]

SivSetIv(o, v) == IF v = NoIv THEN o ELSE [o EXCEPT !.iv = v]

\* A key of a length that is none of the three, but fits the buffers, is
\* refused when both halves have been copied: the CTR cipher uses the new one.
SivInit(o, k, v) ==
  LET c == SivSetIv(o, v)
  IN CASE v = BadIv -> Done(o, "INVALID_SIZE")
       [] v # BadIv /\ k = NoKey -> Done(c, "NONE")
       [] v # BadIv /\ k = BadKey -> Done([c EXCEPT !.ctr = k], "INVALID_SIZE")
       [] OTHER -> Done([c EXCEPT !.mac = k, !.ctr = k], "NONE")

SivSetAad(o, a) ==
  IF o.mac = NoKey THEN Done(o, "BAD_STATE")
  ELSE Done([o EXCEPT !.aads = Append(@, <<o.mac, a>>)], "NONE")

\* The synthetic IV of a plaintext.
S2V(o, m) == [mac |-> o.mac, aads |-> o.aads, text |-> m]

SivStream(o, q, i) == <<o.ctr, q, i>>

SivEncrypt(o, d) ==
  LET q == S2V(o, d)
  IN IF o.mac = NoKey THEN Done(o, "BAD_STATE")
     ELSE Wrote([o EXCEPT !.temp = q], "NONE",
                Xored(d, [i \in DOMAIN d |-> SivStream(o, q, i)]))

\* Variant of SivDecrypt: the tag is compared with the one before.
SivDecryptStale(o, d) ==
  LET m == Xored(d, [i \in DOMAIN d |-> SivStream(o, o.iv, i)])
  IN IF o.mac = NoKey THEN Wrote(o, "BAD_STATE", m)
     ELSE Wrote([o EXCEPT !.temp = S2V(o, m)],
                IF o.temp = o.iv THEN "NONE" ELSE "TAG_MISMATCH", m)

\* The text is written whether or not its tag is the IV.
SivDecrypt(o, d) ==
  LET m == Xored(d, [i \in DOMAIN d |-> SivStream(o, o.iv, i)])
  IN IF o.mac = NoKey THEN Wrote(o, "BAD_STATE", m)
     ELSE Wrote([o EXCEPT !.temp = S2V(o, m)],
                IF S2V(o, m) = o.iv THEN "NONE" ELSE "TAG_MISMATCH", m)

SivCrypt(o, d, dir) ==
  IF dir = "encrypt" THEN SivEncrypt(o, d) ELSE SivDecrypt(o, d)

\* Variant of SivGetTag: the additional data stay for the next message.
SivGetTagKeeps(o, n) ==
  IF n # SivTagLen THEN Done(o, "INVALID_SIZE")
  ELSE Wrote([o EXCEPT !.temp = SivZero], "NONE", o.temp)

\* The only call that forgets the additional data.
SivGetTag(o, n) ==
  IF n # SivTagLen THEN Done(o, "INVALID_SIZE")
  ELSE Wrote([o EXCEPT !.temp = SivZero, !.aads = <<>>], "NONE", o.temp)

SivTag(k, as, m) ==
  [mac |-> k, aads |-> [i \in DOMAIN as |-> <<k, as[i]>>], text |-> m]
=============================================================================
