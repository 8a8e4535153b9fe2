----------------------------- MODULE RsaPadding -----------------------------
(***************************************************************************)
(* The encodings of rsa.cc: the block that is put through the RSA          *)
(* operation, for OAEP, PSS and PKCS #1 v1.5, and what is read back from   *)
(* one.  A hash is a sequence of bytes that name what was hashed.  A block *)
(* that is masked is opened by the same mask generation only: any other    *)
(* gives Noise, a block in which no padding and no hash is ever found.     *)
(***************************************************************************)
EXTENDS Integers, Sequences, FiniteSetsExt

CONSTANTS
  HashLen,        (* of a digest, the bytes of its hash                    *)
  Half,           (* half the values of a byte: 128                        *)
  PsMin           (* the least padding of PKCS #1 v1.5 encryption: 8       *)

ASSUME RsaPaddingAssumption ==
  /\ \A d \in DOMAIN HashLen : HashLen[d] \in Nat \ {0}
  /\ Half \in Nat \ {0}
  /\ PsMin \in Nat \ {0}

Byte(b) == <<"byte", b>>
Bytes == {Byte(b) : b \in 0 .. 2 * Half - 1}
Zero == Byte(0)
One == Byte(1)
Two == Byte(2)
Times(b, n) == [i \in 1 .. n |-> b]

\* A position of the caller's buffer that the call leaves as it was.
Unwritten == <<"unwritten">>

Hash(d, x) == [i \in 1 .. HashLen[d] |-> <<"hash", d, x, i>>]

\* IsLess of two bytes: the sign of their difference, kept in a byte.
IsLess(a, b) == (a - b) % (2 * Half) >= Half

-----------------------------------------------------------------------------
(* Blocks. "cut" is where the masked parts meet, the length of the seed.   *)

Plain(body) == [form |-> "plain", mgf |-> "none", cut |-> 0, body |-> body]

Masked(form, mgf, cut, body) ==
  [form |-> form, mgf |-> mgf, cut |-> cut, body |-> body]

Noise(n) == [form |-> "noise", mgf |-> "none", cut |-> 0,
             body |-> Times(<<"noise">>, n)]

Unmasked(em, form, mgf, cut, n) ==
  IF em.form = form /\ em.mgf = mgf /\ em.cut = cut /\ Len(em.body) = n
  THEN em.body
  ELSE Noise(n).body

FirstAt(s, from, b) ==
  LET hits == {i \in from .. Len(s) : s[i] = b}
  IN IF hits = {} THEN 0 ELSE Min(hits)

-----------------------------------------------------------------------------
(* OAEP: 00 || masked seed || masked (lHash || PS || 01 || M).             *)

OaepFits(n, size, d) ==
  /\ size >= 2 * HashLen[d] + 2
  /\ n <= size - 2 * HashLen[d] - 2

OaepEncoded(size, d, mgf, label, text) ==
  Masked("oaep", mgf, HashLen[d],
         Hash(d, label)
           \o Times(Zero, size - 2 - 2 * HashLen[d] - Len(text))
           \o <<One>> \o text)

\* Variant of OaepOne: the last 01 ends the padding.
OaepLastOne(db, d) ==
  LET hits == {i \in HashLen[d] + 1 .. Len(db) : db[i] = One}
  IN IF hits = {} THEN 0 ELSE Max(hits)

OaepOne(db, d) == FirstAt(db, HashLen[d] + 1, One)

OaepValid(db, d, label) ==
  /\ SubSeq(db, 1, HashLen[d]) = Hash(d, label)
  /\ OaepOne(db, d) # 0
  /\ \A i \in HashLen[d] + 1 .. OaepOne(db, d) - 1 : db[i] = Zero

\* The buffer the text is copied to, of the length of the longest message;
\* behind the data block are as many bytes of zero as it has.
OaepText(db, d, ok) ==
  LET one == OaepOne(db, d)
      wide == db \o Times(Zero, Len(db))
  IN [i \in 1 .. Len(db) - HashLen[d] - 1 |->
       IF ok /\ IsLess(i - 1, Len(db) - one) THEN wide[one + i] ELSE Unwritten]

OaepDecoded(em, size, d, mgf, label) ==
  LET db == Unmasked(em, "oaep", mgf, HashLen[d], size - 1 - HashLen[d])
      ok == OaepValid(db, d, label)
  IN [ok |-> ok,
      len |-> IF ok THEN Len(db) - OaepOne(db, d) ELSE 2 * Half - 1,
      text |-> OaepText(db, d, ok)]

-----------------------------------------------------------------------------
(* PSS: masked (PS || 01 || salt) || H || bc.                              *)

PssEncoded(size, d, mgf, mhash, salt) ==
  Masked("pss", mgf, HashLen[d],
         Times(Zero, size - Len(salt) - HashLen[d] - 2) \o <<One>> \o salt
           \o Hash(d, <<mhash, salt>>))

\* Variant of PssVerified: the salt is taken to be as long as the hash.
PssVerifiedWithSaltOfHash(em, size, d, mgf, mhash) ==
  LET body == Unmasked(em, "pss", mgf, HashLen[d], size - 1)
      end == size - 1 - HashLen[d]
      one == end - HashLen[d]
  IN /\ body[one] = One
     /\ SubSeq(body, end + 1, size - 1)
          = Hash(d, <<mhash, SubSeq(body, one + 1, end)>>)

\* The salt is what follows the first byte that is not zero, which is 01.
PssVerified(em, size, d, mgf, mhash) ==
  LET body == Unmasked(em, "pss", mgf, HashLen[d], size - 1)
      db == SubSeq(body, 1, size - 1 - HashLen[d])
      nonzero == {i \in 1 .. Len(db) : db[i] # Zero \/ i = Len(db)}
      one == Min(nonzero)
  IN /\ db[one] = One
     /\ SubSeq(body, Len(db) + 1, size - 1)
          = Hash(d, <<mhash, SubSeq(db, one + 1, Len(db))>>)

-----------------------------------------------------------------------------
(* PKCS #1 v1.5: 00 || type || PS || 00 || payload.                        *)

\* The longest message of an encryption, and of a hash the caller has made.
Pkcs1Fits(n, size) == n <= size - 3 - PsMin

Pkcs1Encoded(size, type, pad, payload) ==
  Plain(<<Zero, type>> \o Times(pad, size - 3 - Len(payload))
          \o <<Zero>> \o payload)

\* A caller's padding, a byte that is not zero.
Random == <<"random">>

\* The text and its length are written whether or not the padding is good.
Pkcs1Decoded(em) ==
  LET m == em.body
      size == Len(m)
      found == FirstAt(m, 3, Zero)
      end == IF found = 0 THEN size + 1 ELSE found
  IN [ok |-> /\ m[1] = Zero
             /\ m[2] = Two
             /\ end - 3 >= PsMin
             /\ end <= size,
      len |-> IF end <= size THEN size - end ELSE 0,
      text |-> SubSeq(m, end + 1, size)]

\* DigestInfo, when there is one, and the hash.
Pkcs1Payload(info, hash) == (IF info = "none" THEN <<>> ELSE <<<<"info", info>>>>) \o hash
=============================================================================
