--------------------------------- MODULE Ccm ---------------------------------
(***************************************************************************)
(* CcmT in the default build, where each encrypt or decrypt is a whole     *)
(* message.  What setAad stores is the caller's pointer and length.  The   *)
(* nonce block is its flags: 0 while it is zeroed, else the tag length     *)
(* they encode, with the IV setIv stored.                                  *)
(***************************************************************************)
EXTENDS CipherBytes

CONSTANTS
  CcmRoom,        (* for each IV, the longest text whose length fits       *)
                  (* beside it: 2^(8 (15 - length)) - 1 bytes              *)
  CcmTagLens      (* tag lengths setTagLength takes: 4 to 16               *)

ASSUME CcmAssumption == CcmTagLens \subseteq Nat \ {0}

\* The register m_ccm_data.cmac when it is zeroed.
CcmZero == [zero |-> TRUE]

CcmNew ==
  [st |-> "none", key |-> NoKey, iv |-> NoIv, tagLen |-> 12, flags |-> 0,
   aad |-> <<>>, tag |-> CcmZero]

CcmReady(o) == o.st = "ready"

OnKeySet(st) == IF st \in {"iv", "ready"} THEN "ready" ELSE "key"

OnIvSet(st) == IF st \in {"key", "ready"} THEN "ready" ELSE "iv"

\* Three bits hold half the tag length: an odd one is rounded down.
CcmFlags(t) == 2 * (t \div 2)

CcmSetKey(o, k) == [o EXCEPT !.key = k, !.st = OnKeySet(@)]

CcmSetIv(o, v) ==
  [o EXCEPT !.iv = v, !.st = OnIvSet(@), !.flags = CcmFlags(o.tagLen),
            !.tag = CcmZero]

\* The key first: it is in force even if the IV is then refused.
CcmInit(o, k, v) ==
  LET c == IF k = NoKey THEN o ELSE CcmSetKey(o, k)
  IN CASE k = BadKey -> Done(o, "INVALID_SIZE")
       [] k # BadKey /\ v = BadIv -> Done(c, "INVALID_SIZE")
       [] k # BadKey /\ v = NoIv -> Done(c, "NONE")
       [] OTHER -> Done(CcmSetIv(c, v), "NONE")

CcmSetTagLength(o, t) ==
  IF t \in CcmTagLens THEN Done([o EXCEPT !.tagLen = t], "NONE")
                      ELSE Done(o, "INVALID_ARG")

CcmSetAad(o, a) == Done([o EXCEPT !.aad = a], "NONE")

\* The first counter block masks the tag, the next ones the text.
CcmStream(o, i) == <<o.key, o.iv, i>>

\* The CBC-MAC of flags, length, additional data and plaintext, masked.
CcmTag(k, v, t, a, m) == [key |-> k, iv |-> v, len |-> t, aad |-> a, text |-> m]

\* Variant of CcmBurnt: the nonce block survives.
CcmBurntTag(o) == [o EXCEPT !.tag = CcmZero]

CcmBurnt(o) == [o EXCEPT !.flags = 0, !.tag = CcmZero]

\* Variant of CcmCrypt: what a decryption authenticates is its input.
CcmCryptIn(o, d, dir) ==
  LET out == Xored(d, [i \in DOMAIN d |-> CcmStream(o, i)])
  IN IF ~CcmReady(o) THEN Done(o, "BAD_STATE")
     ELSE IF o.flags = 0 \/ Len(d) > CcmRoom[o.iv]
       THEN Wrote(CcmBurnt(o), "INVALID_DATA", Zeros(Len(d)))
     ELSE Wrote([o EXCEPT !.tag = CcmTag(o.key, o.iv, o.flags, o.aad, d)],
                "NONE", out)

\* One message: the tag of the plaintext is left in the register.  A zeroed
\* nonce block, or a text too long for the length field, burns nonce, tag and
\* output; only another IV brings the nonce block back.
CcmCrypt(o, d, dir) ==
  LET out == Xored(d, [i \in DOMAIN d |-> CcmStream(o, i)])
      plain == IF dir = "encrypt" THEN d ELSE out
  IN IF ~CcmReady(o) THEN Done(o, "BAD_STATE")
     ELSE IF o.flags = 0 \/ Len(d) > CcmRoom[o.iv]
       THEN Wrote(CcmBurnt(o), "INVALID_DATA", Zeros(Len(d)))
     ELSE Wrote([o EXCEPT !.tag = CcmTag(o.key, o.iv, o.flags, o.aad, plain)],
                "NONE", out)

\* Variant of CcmGetTag: any settable length is delivered.
CcmGetTagAny(o, n) ==
  IF n \notin CcmTagLens THEN Done(o, "INVALID_ARG")
  ELSE Wrote([o EXCEPT !.tag = CcmZero], "NONE", o.tag)

\* Only at the length in the flags; the register is zeroed behind it.
CcmGetTag(o, n) ==
  IF n \notin CcmTagLens \/ n # o.flags THEN Done(o, "INVALID_ARG")
  ELSE Wrote([o EXCEPT !.tag = CcmZero], "NONE", o.tag)
=============================================================================
