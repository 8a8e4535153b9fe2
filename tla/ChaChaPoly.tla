------------------------------ MODULE ChaChaPoly ------------------------------
(***************************************************************************)
(* ChaChPolyT: ChaCha20 keyed by the session, and the Poly1305 object it   *)
(* inherits, keyed by the first block of the session's keystream.  The     *)
(* counter lives in the first word of the stored IV; the kernels read it   *)
(* and do not write it back, each call of encrypt or decrypt adds one.     *)
(***************************************************************************)
EXTENDS Poly1305

CONSTANT
  ChaBlock        (* bytes of a ChaCha20 block: 64                         *)

ASSUME ChaAssumption == ChaBlock \in Nat \ {0}

ChaNew ==
  [key |-> NoKey, iv |-> NoIv, ctr |-> 0, aadLen |-> 0, inLen |-> 0,
   poly |-> PolyNew]

ChaStream(o, i) ==
  <<o.key, o.iv, o.ctr + (i - 1) \div ChaBlock, (i - 1) % ChaBlock>>

\* The Poly1305 key: keystream of the counter as it stands, which is 0.
ChaPolyKey(o) == <<o.key, o.iv, o.ctr>>

ChaSetIv(o, v) == [o EXCEPT !.iv = v, !.ctr = 0]

\* Variant of ChaSetKey: the lengths of the message before are kept.
ChaSetKeyKeeps(arch, o, k) ==
  LET c == [o EXCEPT !.key = k]
  IN [c EXCEPT !.poly = PolyInit(arch, @, ChaPolyKey(c))]

ChaSetKey(arch, o, k) ==
  LET c == [o EXCEPT !.key = k, !.aadLen = 0, !.inLen = 0]
  IN [c EXCEPT !.poly = PolyInit(arch, @, ChaPolyKey(c))]

\* The IV first, which stays even if the key is then refused.
ChaInit(arch, o, k, v) ==
  IF v = NoIv THEN Done(o, "INVALID_ARG")
  ELSE IF v = BadIv THEN Done(o, "INVALID_SIZE")
  ELSE IF k \in {NoKey, BadKey} THEN Done(ChaSetIv(o, v), "INVALID_ARG")
  ELSE Done(ChaSetKey(arch, ChaSetIv(o, v), k), "NONE")

\* Variant of ChaPad: a whole block where nothing is missing.
ChaPadAlways(n) == Zeros(Block - (n % Block))

ChaPad(n) == Zeros((Block - (n % Block)) % Block)

ChaLengths(o) == Raw(<<o.aadLen>>) \o Zeros(Block \div 2 - 1)
                 \o Raw(<<o.inLen>>) \o Zeros(Block - Block \div 2 - 1)

\* Variant of ChaCrypt: decryption authenticates what it wrote.
ChaCryptOut(o, d, dir) ==
  LET c == [o EXCEPT !.ctr = @ + 1, !.inLen = @ + Len(d)]
      out == Xored(d, [i \in DOMAIN d |-> ChaStream(c, i)])
      sum == ChaPad(c.aadLen) \o out \o ChaPad(c.inLen) \o ChaLengths(c)
  IN IF o.poly.fin
     THEN Wrote(c, "BAD_STATE", out)
     ELSE Wrote([c EXCEPT !.poly = PolyUpdate(@, sum)], "NONE", out)

\* Text in or out, then the padding of the additional data, the ciphertext,
\* its padding and both lengths are authenticated, at every call.  When the
\* tag has been taken the text is still processed before the call fails.
ChaCrypt(o, d, dir) ==
  LET c == [o EXCEPT !.ctr = @ + 1, !.inLen = @ + Len(d)]
      out == Xored(d, [i \in DOMAIN d |-> ChaStream(c, i)])
      sum == ChaPad(c.aadLen) \o (IF dir = "encrypt" THEN out ELSE d)
             \o ChaPad(c.inLen) \o ChaLengths(c)
  IN IF o.poly.fin
     THEN Wrote(c, "BAD_STATE", out)
     ELSE Wrote([c EXCEPT !.poly = PolyUpdate(@, sum)], "NONE", out)

ChaSetAad(o, a) ==
  IF o.poly.fin THEN Done(o, "BAD_STATE")
  ELSE Done([o EXCEPT !.poly = PolyUpdate(@, Raw(a)), !.aadLen = @ + Len(a)],
            "NONE")

\* The Zen4 kernel does not look at the length asked for.
ChaGetTag(arch, o, n) ==
  IF o.poly.fin THEN Done(o, "BAD_STATE")
  ELSE IF arch = "ref" /\ n # Block THEN Done(o, "INVALID_SIZE")
  ELSE Wrote([o EXCEPT !.poly = PolyFinalized(arch, @)], "NONE", PolyTag(o.poly))

\* The tag of RFC 8439 for key, nonce, additional data and ciphertext.
ChaTag(k, v, a, c) ==
  PolyMac(<<k, v, 0>>,
          Raw(a) \o ChaPad(Len(a)) \o c \o ChaPad(Len(c))
          \o ChaLengths([aadLen |-> Len(a), inLen |-> Len(c)]))
=============================================================================
