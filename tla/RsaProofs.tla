------------------------------ MODULE RsaProofs ------------------------------
(***************************************************************************)
(* Proofs about the RSA session, for any keys, digests, labels, texts,     *)
(* salts and messages: the pointers to the digests are to the objects the  *)
(* context owns, a signature is accepted exactly for what was signed, and  *)
(* a ciphertext is opened exactly to what was sealed.                      *)
(***************************************************************************)
EXTENDS Rsa, SequenceTheorems, TLAPS

-----------------------------------------------------------------------------
(* The type invariant.                                                     *)

LEMMA TypeInit == Init => TypeOK
BY RsaAssumption DEF Init, TypeOK, Keys, Digests

LEMMA TypeNext == TypeOK /\ [Next]_vars => TypeOK'
<1> SUFFICES ASSUME TypeOK, [Next]_vars PROVE TypeOK'
  OBVIOUS
<1> USE RsaAssumption DEF TypeOK, Keys, Digests
<1>1. ASSUME NEW k \in Keys, SetPublicKey(k) PROVE TypeOK'
  BY <1>1 DEF SetPublicKey
<1>2. ASSUME NEW k \in Keys, SetPrivateKey(k) PROVE TypeOK'
  BY <1>2 DEF SetPrivateKey
<1>3. ASSUME UNCHANGED session PROVE TypeOK'
  BY <1>3 DEF session
<1>4. ASSUME NEW d \in Digests, AddDigest(d) PROVE TypeOK'
  <2>1. d \notin {"none", "gone"}
    OBVIOUS
  <2>2. info' \in {InfoOf[e] : e \in Digests} \cup {"unknown"} /\ info' # "same"
    BY <1>4 DEF AddDigest, InfoAfter
  <2>3. CASE digest.own = "none" \/ ~mgf.shared
    BY <1>4, <2>1, <2>2, <2>3 DEF AddDigest, MgfLosesDigest
  <2>4. CASE digest.own # "none" /\ mgf.shared
    BY <1>4, <2>1, <2>2, <2>4 DEF AddDigest, MgfLosesDigest
  <2>5. QED
    BY <2>3, <2>4
<1>5. CASE AddDigestUnsupported
  BY <1>5 DEF AddDigestUnsupported, MgfLosesDigest
<1>6. ASSUME NEW d \in Digests, AddMgf(d) PROVE TypeOK'
  BY <1>6 DEF AddMgf
<1>7. CASE AddMgfUnsupported
  BY <1>7 DEF AddMgfUnsupported
<1>8. CASE Copy
  <2>1. info' \in {InfoOf[e] : e \in Digests} \cup {"unknown"} /\ info' # "same"
    BY <1>8 DEF Copy, InfoAfter
  <2>2. /\ digest' = [own |-> digest.own, at |-> digest.own]
        /\ mgf' = [own |-> mgf.own, at |-> mgf.own, shared |-> FALSE]
    BY <1>8 DEF Copy, CopiedMgf
  <2>3. QED
    BY <1>8, <2>1, <2>2 DEF Copy
<1>9. ASSUME NEW label \in Labels, NEW text \in Texts, EncryptOaep(label, text)
      PROVE  TypeOK'
  BY <1>9 DEF EncryptOaep, InfoAfter
<1>10. ASSUME UNCHANGED <<pub, priv, size, digest, info>>,
              \/ mgf' = mgf
              \/ Usable(digest.at) /\ mgf' = WithMgf
       PROVE  TypeOK'
  <2>1. CASE mgf' = mgf
    BY <1>10, <2>1
  <2>2. CASE Usable(digest.at) /\ mgf' = WithMgf /\ mgf' # mgf
    <3>1. mgf.at = "none" /\ digest.at \in Digests
      BY <2>2 DEF WithMgf, Usable
    <3>2. mgf.own = "none" /\ digest.own = digest.at
      BY <3>1
    <3>3. mgf' = [own |-> "none", at |-> digest.at, shared |-> TRUE]
      BY <2>2, <3>1, <3>2 DEF WithMgf
    <3>4. QED
      BY <1>10, <3>1, <3>2, <3>3
  <2>3. QED
    BY <1>10, <2>1, <2>2
<1>11. QED
  BY <1>1, <1>2, <1>3, <1>4, <1>5, <1>6, <1>7, <1>8, <1>9, <1>10 DEF Next, vars, session,
     SetKeyRefused, EncryptPublic, DecryptPrivate, DecryptOaep, EncryptPkcsv15, DecryptPkcsv15,
     SignPss, SignHashPss, PssSigned, VerifyPss, SignPkcsv15, VerifyPkcsv15,
     SignHashPkcsv15, VerifyHashPkcsv15

\* The pointers to the digests are null, dangle, or are to the objects that
\* the context owns: of the mask's digest, to its own or to the digest's.
THEOREM TypeCorrect == Spec => []TypeOK
<1>1. Init => TypeOK
  BY TypeInit
<1>2. TypeOK /\ [Next]_vars => TypeOK'
  BY TypeNext
<1>3. QED
  BY <1>1, <1>2, PTL DEF Spec

-----------------------------------------------------------------------------
(* What a block is made of.                                                *)

LEMMA TimesIsSeq ==
  ASSUME NEW S, NEW b \in S, NEW n \in Nat
  PROVE  /\ Times(b, n) \in Seq(S)
         /\ Len(Times(b, n)) = n
         /\ \A i \in 1 .. n : Times(b, n)[i] = b
BY DEF Times

HashBytes(d, x) == {<<"hash", d, x, i>> : i \in 1 .. HashLen[d]}

LEMMA HashIsSeq ==
  ASSUME NEW d \in Digests, NEW x
  PROVE  /\ HashLen[d] \in Nat \ {0}
         /\ Hash(d, x) \in Seq(HashBytes(d, x))
         /\ Len(Hash(d, x)) = HashLen[d]
         /\ \A i \in 1 .. HashLen[d] : Hash(d, x)[i] = <<"hash", d, x, i>>
<1>1. HashLen[d] \in Nat \ {0}
  BY RsaPaddingAssumption DEF Digests
<1>2. QED
  BY <1>1 DEF Hash, HashBytes

\* A byte of a hash tells the digest and what was hashed.
LEMMA HashEqual ==
  ASSUME NEW d \in Digests, NEW e \in Digests, NEW x, NEW y, Hash(d, x) = Hash(e, y)
  PROVE  d = e /\ x = y
<1>1. 1 \in 1 .. HashLen[d] /\ 1 \in 1 .. HashLen[e]
  BY HashIsSeq
<1>2. Hash(d, x)[1] = <<"hash", d, x, 1>> /\ Hash(e, y)[1] = <<"hash", e, y, 1>>
  BY <1>1, HashIsSeq
<1>3. <<"hash", d, x, 1>> = <<"hash", e, y, 1>>
  BY <1>2
<1>4. QED
  BY ONLY <1>3

LEMMA BytesDiffer ==
  /\ Zero # One
  /\ <<"noise">> # Zero
  /\ <<"noise">> # One
  /\ \A i : <<"info", i>> # Zero
BY DEF Zero, One, Byte

LEMMA MinIs ==
  ASSUME NEW S \in SUBSET Int, NEW p \in S, \A y \in S : p <= y
  PROVE  Min(S) = p
<1> DEFINE Least(x) == x \in S /\ \A y \in S : x <= y
<1>1. Least(p)
  OBVIOUS
<1>2. \A x : Least(x) => x = p
  BY <1>1
<1>3. Min(S) = CHOOSE x : Least(x)
  BY Zenon DEF Min
<1> HIDE DEF Least
<1>4. QED
  BY <1>1, <1>2, <1>3

-----------------------------------------------------------------------------
(* PSS.                                                                    *)

\* A sequence of three parts of which the middle one is one byte, at p.
InParts(S, f, z, o, s, p) ==
  /\ f \in Seq(S)
  /\ Len(f) = p + Len(s)
  /\ p \in 1 .. Len(f)
  /\ f[p] = o
  /\ \A i \in 1 .. p - 1 : f[i] = z[i]
  /\ SubSeq(f, p + 1, Len(f)) = s

LEMMA ThreeParts ==
  ASSUME NEW S, NEW z \in Seq(S), NEW o \in S, NEW s \in Seq(S),
         NEW p \in Nat \ {0}, Len(z) = p - 1,
         NEW f, f = z \o <<o>> \o s
  PROVE  InParts(S, f, z, o, s, p)
<1> DEFINE one == <<o>>
           n == Len(s)
           zo == z \o one
<1>1. one \in Seq(S) /\ Len(one) = 1 /\ one[1] = o
  OBVIOUS
<1> HIDE DEF one
<1>2. n \in Nat
  BY LenProperties
<1>3. /\ zo \in Seq(S)
      /\ Len(zo) = Len(z) + Len(one)
      /\ \A i \in 1 .. Len(z) + Len(one) : zo[i] = IF i <= Len(z) THEN z[i] ELSE one[i - Len(z)]
  BY <1>1, ConcatProperties
<1>4. f = zo \o s
  BY DEF one
<1> HIDE DEF zo
<1>5. /\ f \in Seq(S)
      /\ Len(f) = Len(zo) + Len(s)
      /\ \A i \in 1 .. Len(zo) + Len(s) : f[i] = IF i <= Len(zo) THEN zo[i] ELSE s[i - Len(zo)]
  <2>1. zo \in Seq(S)
    BY <1>3
  <2>2. /\ zo \o s \in Seq(S)
        /\ Len(zo \o s) = Len(zo) + Len(s)
        /\ \A i \in 1 .. Len(zo) + Len(s) :
             (zo \o s)[i] = IF i <= Len(zo) THEN zo[i] ELSE s[i - Len(zo)]
    BY <2>1, ConcatProperties
  <2>3. QED
    BY <1>4, <2>2
<1>6. Len(zo) = p
  BY <1>1, <1>3
<1>7. /\ Len(f) = p + n
      /\ \A i \in 1 .. p + n : f[i] = IF i <= p THEN zo[i] ELSE s[i - p]
  BY <1>5, <1>6
<1> HIDE DEF n
<1>8. p \in 1 .. Len(f)
  BY <1>2, <1>7
<1>9. f[p] = o
  <2>1. p \in 1 .. p + n /\ p \in 1 .. Len(z) + Len(one) /\ ~(p <= Len(z)) /\ p - Len(z) = 1
    BY <1>1, <1>2
  <2>2. f[p] = zo[p]
    BY <1>7, <2>1
  <2>3. zo[p] = one[1]
    BY <1>3, <2>1
  <2>4. QED
    BY <1>1, <2>2, <2>3
<1>10. ASSUME NEW i \in 1 .. p - 1 PROVE f[i] = z[i]
  <2>1. i \in 1 .. p + n /\ i <= p /\ i \in 1 .. Len(z) + Len(one) /\ i <= Len(z)
    BY <1>1, <1>2
  <2>2. f[i] = zo[i]
    BY <1>7, <2>1
  <2>3. zo[i] = z[i]
    BY <1>3, <2>1
  <2>4. QED
    BY <2>2, <2>3
<1>11. SubSeq(f, p + 1, Len(f)) = s
  <2> DEFINE sub == SubSeq(f, p + 1, p + n)
  <2>1. \A i \in p + 1 .. p + n : f[i] \in S
    <3>1. \A i \in 1 .. Len(f) : f[i] \in S
      BY <1>5, ElementOfSeq
    <3>2. QED
      BY <1>2, <1>7, <3>1
  <2>2. p + 1 \in Int /\ p + n \in Int
    BY <1>2
  <2>3. /\ sub \in Seq(S)
        /\ Len(sub) = IF p + 1 <= p + n THEN (p + n) - (p + 1) + 1 ELSE 0
        /\ \A i \in 1 .. (p + n) - (p + 1) + 1 : sub[i] = f[p + 1 + i - 1]
    BY ONLY <2>1, <2>2, SubSeqProperties
  <2> HIDE DEF sub
  <2>4. Len(sub) = n
    BY <1>2, <2>3
  <2>5. ASSUME NEW i \in 1 .. n PROVE sub[i] = s[i]
    <3>1. /\ i \in 1 .. (p + n) - (p + 1) + 1 /\ p + 1 + i - 1 = p + i
          /\ p + i \in 1 .. p + n /\ ~(p + i <= p) /\ (p + i) - p = i
      BY <1>2
    <3>2. sub[i] = f[p + i]
      BY <2>3, <3>1
    <3>3. f[p + i] = s[i]
      BY <1>7, <3>1
    <3>4. QED
      BY <3>2, <3>3
  <2>6. Len(sub) = Len(s) /\ \A i \in 1 .. Len(sub) : sub[i] = s[i]
    BY <2>4, <2>5 DEF n
  <2>7. sub = s
    BY <2>3, <2>6, SeqEqual
  <2>8. QED
    BY <1>7, <2>7 DEF sub
<1>12. QED
  BY <1>5, <1>7, <1>8, <1>9, <1>10, <1>11 DEF n, InParts

\* The part of a PSS block before the hash: zeros, 01 and the salt.
PssFront(n, d, salt) ==
  Times(Zero, n - Len(salt) - HashLen[d] - 2) \o <<One>> \o salt

LEMMA PssFrontLayout ==
  ASSUME NEW d \in Digests, NEW salt \in Seq(Bytes),
         NEW n \in Nat, n >= HashLen[d] + Len(salt) + 2,
         NEW p, p = n - Len(salt) - HashLen[d] - 1,
         NEW f, f = PssFront(n, d, salt)
  PROVE  /\ f \in Seq(Bytes)
         /\ Len(f) = n - 1 - HashLen[d]
         /\ p \in 1 .. Len(f)
         /\ f[p] = One
         /\ \A i \in 1 .. p - 1 : f[i] = Zero
         /\ SubSeq(f, p + 1, Len(f)) = salt
<1> DEFINE zeros == Times(Zero, p - 1)
<1>1. HashLen[d] \in Nat \ {0}
  BY HashIsSeq
<1>2. Len(salt) \in Nat
  BY LenProperties
<1>3. p \in Nat \ {0} /\ p - 1 \in Nat /\ p - 1 = n - Len(salt) - HashLen[d] - 2
  BY <1>1, <1>2
<1>4. Zero \in Bytes /\ One \in Bytes
  <2>1. 0 \in 0 .. 2 * Half - 1 /\ 1 \in 0 .. 2 * Half - 1
    BY RsaPaddingAssumption
  <2>2. QED
    BY <2>1 DEF Bytes, Zero, One
<1>5. /\ zeros \in Seq(Bytes)
      /\ Len(zeros) = p - 1
      /\ \A i \in 1 .. p - 1 : zeros[i] = Zero
  BY <1>3, <1>4, TimesIsSeq
<1>6. f = zeros \o <<One>> \o salt
  BY <1>3 DEF PssFront
<1> HIDE DEF zeros
<1>7. /\ f \in Seq(Bytes)
      /\ Len(f) = p + Len(salt)
      /\ p \in 1 .. Len(f)
      /\ f[p] = One
      /\ \A i \in 1 .. p - 1 : f[i] = zeros[i]
      /\ SubSeq(f, p + 1, Len(f)) = salt
  <2>1. /\ zeros \in Seq(Bytes) /\ One \in Bytes /\ salt \in Seq(Bytes)
        /\ p \in Nat \ {0} /\ Len(zeros) = p - 1
    BY <1>3, <1>4, <1>5
  <2>2. InParts(Bytes, f, zeros, One, salt, p)
    BY ONLY <2>1, <1>6, ThreeParts
  <2>3. QED
    BY ONLY <2>2 DEF InParts
<1>8. Len(f) = n - 1 - HashLen[d]
  <2>1. Len(f) = p + Len(salt)
    BY <1>7
  <2>2. QED
    BY ONLY <1>1, <1>2, <2>1, n \in Nat, p = n - Len(salt) - HashLen[d] - 1
<1>9. QED
  BY <1>5, <1>7, <1>8

LEMMA JoinIsCut ==
  ASSUME NEW S, NEW f \in Seq(S), NEW h \in Seq(S), f # <<>>, h # <<>>
  PROVE  /\ Len(f \o h) = Len(f) + Len(h)
         /\ SubSeq(f \o h, 1, Len(f)) = f
         /\ SubSeq(f \o h, Len(f) + 1, Len(f) + Len(h)) = h
<1>1. Len(f) \in Nat \ {0} /\ Len(h) \in Nat \ {0}
  BY EmptySeq
<1>2. Len(f \o h) = Len(f) + Len(h)
  BY ConcatProperties
<1>3. SubSeq(f \o h, 1, Len(f)) = SubSeq(f, 1, Len(f))
  BY <1>1, SubSeqOfConcat1
<1>4. SubSeq(f \o h, Len(f) + 1, Len(f) + Len(h))
        = SubSeq(h, (Len(f) + 1) - Len(f), (Len(f) + Len(h)) - Len(f))
  <2>1. /\ Len(f) + 1 \in Len(f) + 1 .. Len(f) + Len(h)
        /\ Len(f) + Len(h) \in Len(f) + 1 .. Len(f) + Len(h)
    BY <1>1
  <2>2. QED
    BY <2>1, SubSeqOfConcat2
<1>5. (Len(f) + 1) - Len(f) = 1 /\ (Len(f) + Len(h)) - Len(f) = Len(h)
  BY <1>1
<1>6. SubSeq(f, 1, Len(f)) = f /\ SubSeq(h, 1, Len(h)) = h
  BY SubSeqFull
<1>7. QED
  BY <1>2, <1>3, <1>4, <1>5, <1>6

LEMMA FirstNonzero ==
  ASSUME NEW db, NEW n \in Nat, NEW p \in 1 .. n, db[p] # Zero \/ p = n,
         \A i \in 1 .. p - 1 : db[i] = Zero
  PROVE  Min({i \in 1 .. n : db[i] # Zero \/ i = n}) = p
<1> DEFINE nonzero == {i \in 1 .. n : db[i] # Zero \/ i = n}
<1>1. nonzero \in SUBSET Int /\ p \in nonzero
  OBVIOUS
<1>2. ASSUME NEW i \in nonzero, i < p PROVE FALSE
  <2>1. i \in 1 .. p - 1 /\ i # n
    BY <1>2
  <2>2. QED
    BY <1>2, <2>1
<1>3. \A i \in nonzero : p <= i
  BY <1>1, <1>2
<1>4. QED
  BY ONLY <1>1, <1>3, MinIs

PssFinds(n, e, y, body, db, p) ==
  /\ db[p] = One
  /\ SubSeq(body, Len(db) + 1, n - 1) = Hash(e, <<y, SubSeq(db, p + 1, Len(db))>>)

\* What a verification finds in a block whose first byte that is not zero, or
\* last byte, is at p.
LEMMA PssReads ==
  ASSUME NEW em, NEW n, NEW e, NEW h, NEW y,
         NEW body, body = Unmasked(em, "pss", h, HashLen[e], n - 1),
         NEW db, db = SubSeq(body, 1, n - 1 - HashLen[e]),
         Len(db) \in Nat,
         NEW p \in 1 .. Len(db), db[p] # Zero \/ p = Len(db),
         \A i \in 1 .. p - 1 : db[i] = Zero
  PROVE  PssVerified(em, n, e, h, y) <=> PssFinds(n, e, y, body, db, p)
<1>1. Min({i \in 1 .. Len(db) : db[i] # Zero \/ i = Len(db)}) = p
  BY ONLY Len(db) \in Nat, p \in 1 .. Len(db), db[p] # Zero \/ p = Len(db),
          \A i \in 1 .. p - 1 : db[i] = Zero, FirstNonzero
<1>2. QED
  BY <1>1, Zenon DEF PssVerified, PssFinds

\* Nothing verifies that is not a PSS block of these digests.
LEMMA PssNoise ==
  ASSUME NEW em, NEW n \in Nat, NEW e \in Digests, n >= HashLen[e] + 2, NEW h, NEW y,
         Unmasked(em, "pss", h, HashLen[e], n - 1) = Noise(n - 1).body
  PROVE  ~PssVerified(em, n, e, h, y)
<1> DEFINE body == Unmasked(em, "pss", h, HashLen[e], n - 1)
           size1 == n - 1 - HashLen[e]
           db == SubSeq(body, 1, size1)
           noise == <<"noise">>
<1>1. HashLen[e] \in Nat \ {0} /\ n - 1 \in Nat /\ size1 \in Nat \ {0} /\ size1 <= n - 1
  BY HashIsSeq
<1>2. body = Times(noise, n - 1)
  BY DEF Noise
<1> HIDE DEF body
<1>3. \A i \in 1 .. n - 1 : body[i] = noise
  BY <1>2 DEF Times
<1> HIDE DEF size1
<1>4. \A i \in 1 .. size1 : body[i] \in {noise}
  <2>1. 1 .. size1 \subseteq 1 .. n - 1
    BY <1>1
  <2>2. QED
    BY <1>3, <2>1
<1>5. /\ Len(db) = IF 1 <= size1 THEN size1 - 1 + 1 ELSE 0
      /\ \A i \in 1 .. size1 - 1 + 1 : db[i] = body[1 + i - 1]
  <2>1. 1 \in Int /\ size1 \in Int
    BY <1>1
  <2>2. QED
    BY ONLY <2>1, <1>4, SubSeqProperties
<1> HIDE DEF db
<1>6. Len(db) = size1 /\ db[1] = noise
  <2>1. 1 <= size1 /\ 1 \in 1 .. size1 - 1 + 1 /\ 1 + 1 - 1 = 1 /\ 1 \in 1 .. size1
    BY <1>1
  <2>2. db[1] = body[1] /\ body[1] = noise
    BY ONLY <1>4, <1>5, <2>1
  <2>3. Len(db) = size1
    BY ONLY <1>1, <1>5, <2>1
  <2>4. QED
    BY <2>2, <2>3
<1>7. Len(db) \in Nat /\ 1 \in 1 .. Len(db) /\ db[1] # Zero /\ db[1] # One
  BY <1>1, <1>6, BytesDiffer
<1>8. \A i \in 1 .. 1 - 1 : db[i] = Zero
  OBVIOUS
<1>9. PssVerified(em, n, e, h, y) => db[1] = One
  <2>1. db = SubSeq(body, 1, n - 1 - HashLen[e])
    BY DEF db, size1
  <2>2. body = Unmasked(em, "pss", h, HashLen[e], n - 1)
    BY DEF body
  <2>3. Len(db) \in Nat /\ 1 \in 1 .. Len(db) /\ (db[1] # Zero \/ 1 = Len(db))
    BY <1>7
  <2>4. PssVerified(em, n, e, h, y) <=> PssFinds(n, e, y, body, db, 1)
    BY ONLY <2>1, <2>2, <2>3, <1>8, PssReads
  <2>5. QED
    BY <2>4 DEF PssFinds
<1>10. QED
  BY <1>7, <1>9

\* A PSS block verifies for the digest, mask and message it was made for.
LEMMA PssExact ==
  ASSUME NEW d \in Digests, NEW e \in Digests, NEW g, NEW h, NEW m, NEW k,
         NEW salt \in Seq(Bytes), NEW n \in Nat, n >= HashLen[d] + Len(salt) + 2,
         n >= HashLen[e] + 2
  PROVE  PssVerified(PssEncoded(n, d, g, Hash(d, m), salt), n, e, h, Hash(e, k))
           <=> d = e /\ g = h /\ m = k
<1> DEFINE em == PssEncoded(n, d, g, Hash(d, m), salt)
           front == PssFront(n, d, salt)
           tail == Hash(d, <<Hash(d, m), salt>>)
           p == n - Len(salt) - HashLen[d] - 1
           body == Unmasked(em, "pss", h, HashLen[e], n - 1)
           db == SubSeq(body, 1, n - 1 - HashLen[e])
<1>1. em.form = "pss" /\ em.mgf = g /\ em.cut = HashLen[d] /\ em.body = front \o tail
  BY DEF PssEncoded, Masked, PssFront
<1> HIDE DEF em
<1>2. /\ HashLen[d] \in Nat \ {0} /\ HashLen[e] \in Nat \ {0} /\ Len(salt) \in Nat
  BY HashIsSeq, LenProperties
<1>3. /\ front \in Seq(Bytes)
      /\ Len(front) = n - 1 - HashLen[d]
      /\ p \in 1 .. Len(front)
      /\ front[p] = One
      /\ \A i \in 1 .. p - 1 : front[i] = Zero
      /\ SubSeq(front, p + 1, Len(front)) = salt
  BY PssFrontLayout
<1> HIDE DEF front, p
<1>4. /\ Len(front \o tail) = n - 1
      /\ SubSeq(front \o tail, 1, Len(front)) = front
      /\ SubSeq(front \o tail, Len(front) + 1, n - 1) = tail
  <2> DEFINE S == Bytes \cup HashBytes(d, <<Hash(d, m), salt>>)
  <2>1. front \in Seq(S)
    BY <1>3, SeqMonotonic
  <2>2. tail \in Seq(S) /\ Len(tail) = HashLen[d]
    <3>1. tail \in Seq(HashBytes(d, <<Hash(d, m), salt>>)) /\ Len(tail) = HashLen[d]
      BY HashIsSeq
    <3> HIDE DEF tail
    <3>2. QED
      BY <3>1, SeqMonotonic
  <2> HIDE DEF S, tail
  <2>3. Len(front) + Len(tail) = n - 1
    BY <1>2, <1>3, <2>2
  <2>4. front # <<>> /\ tail # <<>>
    BY <1>2, <1>3, <2>1, <2>2
  <2>5. /\ Len(front \o tail) = Len(front) + Len(tail)
        /\ SubSeq(front \o tail, 1, Len(front)) = front
        /\ SubSeq(front \o tail, Len(front) + 1, Len(front) + Len(tail)) = tail
    BY ONLY <2>1, <2>2, <2>4, JoinIsCut
  <2>6. QED
    BY <2>3, <2>5
<1> HIDE DEF tail
<1>5. CASE g = h /\ HashLen[d] = HashLen[e]
  <2>1. body = front \o tail
    BY <1>1, <1>4, <1>5 DEF Unmasked
  <2>2. db = front
    BY <1>3, <1>4, <1>5, <2>1
  <2> HIDE DEF body, db
  <2>3. Len(db) \in Nat /\ db[p] # Zero
    BY <1>3, <2>2, LenProperties, BytesDiffer
  <2>4. PssVerified(em, n, e, h, Hash(e, k)) <=> PssFinds(n, e, Hash(e, k), body, db, p)
    <3>1. /\ body = Unmasked(em, "pss", h, HashLen[e], n - 1)
          /\ db = SubSeq(body, 1, n - 1 - HashLen[e])
      BY DEF body, db
    <3>2. /\ Len(db) \in Nat /\ p \in 1 .. Len(db) /\ (db[p] # Zero \/ p = Len(db))
          /\ \A i \in 1 .. p - 1 : db[i] = Zero
      BY <1>3, <2>2, <2>3
    <3>3. QED
      BY ONLY <3>1, <3>2, PssReads
  <2>5. PssVerified(em, n, e, h, Hash(e, k)) <=> tail = Hash(e, <<Hash(e, k), salt>>)
    BY <1>3, <1>4, <2>1, <2>2, <2>4 DEF PssFinds
  <2>6. tail = Hash(e, <<Hash(e, k), salt>>) <=> d = e /\ m = k
    <3>1. ASSUME tail = Hash(e, <<Hash(e, k), salt>>) PROVE d = e /\ m = k
      <4>1. d = e /\ <<Hash(d, m), salt>> = <<Hash(e, k), salt>>
        BY <3>1, HashEqual DEF tail
      <4>2. Hash(d, m) = Hash(e, k)
        BY <4>1
      <4>3. QED
        BY <4>1, <4>2, HashEqual
    <3>2. QED
      BY <3>1 DEF tail
  <2>7. QED
    BY <1>5, <2>5, <2>6 DEF em
<1>6. CASE ~(g = h /\ HashLen[d] = HashLen[e])
  <2>1. body = Noise(n - 1).body
    BY <1>1, <1>6 DEF Unmasked
  <2>2. ~PssVerified(em, n, e, h, Hash(e, k))
    BY <2>1, PssNoise
  <2>3. QED
    BY <1>6, <2>2 DEF em
<1>7. QED
  BY <1>5, <1>6

-----------------------------------------------------------------------------
(* PKCS #1 v1.5 signatures.                                                *)

\* The last byte of a signature's block is one of its hash, and the byte
\* before the hash tells the DigestInfo, or that there is none.
Pkcs1Ends(body, n, d, i, x) ==
  /\ body[n] = <<"hash", d, x, HashLen[d]>>
  /\ body[n - HashLen[d]] = IF i = "none" THEN Zero ELSE <<"info", i>>

LEMMA Pkcs1Layout ==
  ASSUME NEW d \in Digests, NEW i, NEW x, NEW n \in Nat, n >= HashLen[d] + 4,
         NEW body, body = Pkcs1Encoded(n, One, Byte(255), Pkcs1Payload(i, Hash(d, x))).body
  PROVE  Pkcs1Ends(body, n, d, i, x)
<1> DEFINE len == HashLen[d]
           hash == Hash(d, x)
           note == IF i = "none" THEN <<>> ELSE <<<<"info", i>>>>
           payload == note \o hash
           pad == Times(Byte(255), n - 3 - Len(payload))
           head == <<Zero, One>>
           zero == <<Zero>>
           S == {Zero, One, Byte(255), <<"info", i>>} \cup HashBytes(d, x)
<1>1. body = head \o pad \o zero \o payload
  BY DEF Pkcs1Encoded, Pkcs1Payload, Plain
<1>2. len \in Nat \ {0} /\ n >= len + 4
  BY HashIsSeq
<1>3. /\ hash \in Seq(S) /\ Len(hash) = len
      /\ hash[len] = <<"hash", d, x, len>>
  <2>1. /\ hash \in Seq(HashBytes(d, x)) /\ Len(hash) = len
        /\ \A j \in 1 .. len : hash[j] = <<"hash", d, x, j>>
    BY HashIsSeq
  <2> HIDE DEF hash, len
  <2>2. hash \in Seq(S)
    BY <2>1, SeqMonotonic
  <2>3. QED
    BY <1>2, <2>1, <2>2
<1>4. note \in Seq(S) /\ Len(note) \in {0, 1} /\ (Len(note) = 0 <=> i = "none")
      /\ (i # "none" => note[1] = <<"info", i>>)
  BY DEF S
<1>5. head \in Seq(S) /\ Len(head) = 2 /\ zero \in Seq(S) /\ Len(zero) = 1 /\ zero[1] = Zero
  BY DEF S
<1>6. Byte(255) \in S
  BY DEF S
<1> HIDE DEF S, head, zero, note, hash, len
<1>7. /\ payload \in Seq(S) /\ Len(payload) = Len(note) + len
      /\ \A j \in 1 .. Len(note) + len :
           payload[j] = IF j <= Len(note) THEN note[j] ELSE hash[j - Len(note)]
  BY <1>3, <1>4, ConcatProperties
<1> HIDE DEF payload
<1>8. /\ pad \in Seq(S) /\ Len(pad) = n - 3 - Len(payload)
  <2>1. n - 3 - Len(payload) \in Nat
    BY <1>2, <1>4, <1>7
  <2> DEFINE q == n - 3 - Len(payload)
             ff == Byte(255)
             ffs == Times(ff, q)
  <2>2. q \in Nat /\ ff \in S
    BY <1>6, <2>1
  <2> HIDE DEF q, ff
  <2>3. ffs \in Seq(S) /\ Len(ffs) = q
    BY ONLY <2>2, TimesIsSeq
  <2>4. QED
    BY <2>3 DEF pad, q, ff
<1> HIDE DEF pad
<1>9. head \o pad \in Seq(S) /\ Len(head \o pad) = n - 1 - Len(payload)
  <2>1. head \o pad \in Seq(S) /\ Len(head \o pad) = Len(head) + Len(pad)
    BY <1>5, <1>8, ConcatProperties
  <2>2. QED
    BY <1>2, <1>4, <1>5, <1>7, <1>8, <2>1
<1> DEFINE front == head \o pad \o zero
           p == n - Len(payload)
<1>10. p \in Nat \ {0} /\ p = (n - len) - Len(note)
  <2>1. Len(note) \in Nat /\ Len(note) <= 1 /\ Len(payload) = Len(note) + len
    BY ONLY <1>4, <1>7
  <2>2. QED
    BY ONLY <1>2, <2>1, n \in Nat
<1>11. front \in Seq(S) /\ Len(front) = p /\ front[p] = Zero
  <2> DEFINE hp == head \o pad
  <2> HIDE DEF hp
  <2>1. hp \in Seq(S) /\ Len(hp) = p - 1
    BY <1>9, <1>10 DEF hp
  <2> HIDE DEF p
  <2>2. /\ hp \o zero \in Seq(S) /\ Len(hp \o zero) = Len(hp) + Len(zero)
        /\ \A j \in 1 .. Len(hp) + Len(zero) :
             (hp \o zero)[j] = IF j <= Len(hp) THEN hp[j] ELSE zero[j - Len(hp)]
    BY <1>5, <2>1, ConcatProperties
  <2>3. p \in 1 .. Len(hp) + Len(zero) /\ ~(p <= Len(hp)) /\ p - Len(hp) = 1
    BY <1>5, <1>10, <2>1
  <2>4. (hp \o zero)[p] = Zero
    <3>1. (hp \o zero)[p] = zero[1]
      BY <2>2, <2>3
    <3>2. QED
      BY <1>5, <3>1
  <2>5. Len(hp \o zero) = p
    BY ONLY <1>5, <1>10, <2>1, <2>2
  <2>6. QED
    BY <2>2, <2>4, <2>5 DEF hp
<1>12. body = front \o payload
  BY <1>1
<1> HIDE DEF front, p
<1>13. \A j \in 1 .. p + Len(payload) :
         body[j] = IF j <= p THEN front[j] ELSE payload[j - p]
  <2>1. \A j \in 1 .. Len(front) + Len(payload) :
          (front \o payload)[j] = IF j <= Len(front) THEN front[j] ELSE payload[j - Len(front)]
    BY ONLY <1>7, <1>11, ConcatProperties
  <2>2. QED
    BY ONLY <2>1, <1>11, <1>12
<1>14. body[n] = hash[len]
  <2>1. n \in 1 .. p + Len(payload) /\ ~(n <= p) /\ n - p = Len(note) + len
    BY <1>2, <1>4, <1>7, <1>10
  <2>2. body[n] = payload[Len(note) + len]
    BY <1>13, <2>1
  <2>3. /\ Len(note) + len \in 1 .. Len(note) + len
        /\ ~(Len(note) + len <= Len(note)) /\ (Len(note) + len) - Len(note) = len
    BY <1>2, <1>4
  <2>4. payload[Len(note) + len] = hash[len]
    BY <1>7, <2>3
  <2>5. QED
    BY <2>2, <2>4
<1>15. CASE i = "none"
  <2>1. Len(note) = 0 /\ p = n - len
    BY <1>2, <1>4, <1>10, <1>15
  <2>2. p \in 1 .. p + Len(payload) /\ p <= p
    BY <1>4, <1>2, <1>7, <1>10
  <2>3. body[p] = Zero
    BY <1>11, <1>13, <2>2
  <2>4. QED
    BY <1>3, <1>14, <1>15, <2>1, <2>3 DEF len, Pkcs1Ends
<1>16. CASE i # "none"
  <2>1. Len(note) = 1 /\ n - len = p + 1
    <3>1. Len(note) = 1
      BY <1>4, <1>16
    <3>2. QED
      BY ONLY <1>2, <1>10, <3>1, n \in Nat
  <2>2. p + 1 \in 1 .. p + Len(payload) /\ ~(p + 1 <= p) /\ (p + 1) - p = 1
    BY <1>2, <1>7, <1>10, <2>1
  <2>3. body[p + 1] = payload[1]
    BY <1>13, <2>2
  <2>4. payload[1] = note[1]
    BY <1>2, <1>7, <2>1
  <2>5. QED
    BY <1>3, <1>4, <1>14, <1>16, <2>1, <2>3, <2>4 DEF len, Pkcs1Ends
<1>17. QED
  BY <1>15, <1>16

\* A signature block tells the digest, its DigestInfo and the message.
LEMMA Pkcs1Exact ==
  ASSUME NEW d \in Digests, NEW e \in Digests, NEW i, NEW j, NEW x, NEW y,
         NEW n \in Nat, n >= HashLen[d] + 4, n >= HashLen[e] + 4,
         Pkcs1Encoded(n, One, Byte(255), Pkcs1Payload(i, Hash(d, x)))
           = Pkcs1Encoded(n, One, Byte(255), Pkcs1Payload(j, Hash(e, y)))
  PROVE  d = e /\ i = j /\ x = y
<1> DEFINE body == Pkcs1Encoded(n, One, Byte(255), Pkcs1Payload(i, Hash(d, x))).body
<1>1. Pkcs1Ends(body, n, d, i, x)
  BY Pkcs1Layout
<1>2. body = Pkcs1Encoded(n, One, Byte(255), Pkcs1Payload(j, Hash(e, y))).body
  OBVIOUS
<1> HIDE DEF body
<1>3. Pkcs1Ends(body, n, e, j, y)
  <2>1. e \in Digests /\ n \in Nat /\ n >= HashLen[e] + 4
    OBVIOUS
  <2>2. QED
    BY ONLY <1>2, <2>1, Pkcs1Layout
<1>4. <<"hash", d, x, HashLen[d]>> = <<"hash", e, y, HashLen[e]>>
  BY <1>1, <1>3 DEF Pkcs1Ends
<1>5. d = e /\ x = y
  BY ONLY <1>4
<1>6. (IF i = "none" THEN Zero ELSE <<"info", i>>) = (IF j = "none" THEN Zero ELSE <<"info", j>>)
  BY <1>1, <1>3, <1>5 DEF Pkcs1Ends
<1>7. i = j
  BY <1>6, BytesDiffer
<1>8. QED
  BY <1>5, <1>7

-----------------------------------------------------------------------------
(* The invariant: what a held signature was made of.                       *)

PssMade(k, about, em) ==
  \E d \in Digests, g \in Digests, m \in Messages, salt \in Salts :
    /\ about = [digest |-> d, mgf |-> g, message |-> m]
    /\ KeySize[k] >= HashLen[d] + Len(salt) + 2
    /\ em = PssEncoded(KeySize[k], d, g, Hash(d, m), salt)

Infos == {InfoOf[d] : d \in Digests} \cup {"none"}

Pkcs1Made(k, about, em) ==
  \E d \in Digests, m \in Messages, i \in Infos :
    /\ about = [digest |-> d, info |-> i, message |-> m]
    /\ em = Pkcs1Encoded(KeySize[k], One, Byte(255), Pkcs1Payload(i, Hash(d, m)))

SignatureMade ==
  /\ held.scheme = "pss" => held.key \in Keys /\ PssMade(held.key, held.about, held.em)
  /\ held.scheme = "pkcs1_sign" =>
       held.key \in Keys /\ Pkcs1Made(held.key, held.about, held.em)

LEMMA KeyHasRoom ==
  ASSUME NEW k \in Keys, NEW d \in Digests
  PROVE  /\ KeySize[k] \in Nat /\ HashLen[d] \in Nat \ {0}
         /\ KeySize[k] >= HashLen[d] + 4
<1>1. KeySize[k] \in Nat /\ HashLen[d] \in Nat \ {0} /\ PsMin \in Nat \ {0}
  BY RsaAssumption, RsaPaddingAssumption DEF Digests
<1>2. Pkcs1Fits(HashLen[d] + (IF InfoOf[d] = "same" THEN 0 ELSE 1), KeySize[k])
  BY RsaAssumption
<1>3. CASE InfoOf[d] = "same"
  BY <1>1, <1>2, <1>3 DEF Pkcs1Fits
<1>4. CASE InfoOf[d] # "same"
  BY <1>1, <1>2, <1>4 DEF Pkcs1Fits
<1>5. QED
  BY <1>3, <1>4

\* A key of the session's size has been set.
LEMMA KeyIsSet ==
  ASSUME TypeOK, NEW k \in Keys \cup {"none"}, size = SizeOfKey(k), NEW d \in Digests
  PROVE  k \in Keys /\ size = KeySize[k]
<1>1. size # 0
  <2>1. CASE size = DefaultSize
    BY <2>1, RsaAssumption
  <2>2. CASE size \in {KeySize[j] : j \in Keys}
    BY <2>2, KeyHasRoom
  <2>3. QED
    BY <2>1, <2>2 DEF TypeOK
<1>2. QED
  BY <1>1 DEF SizeOfKey

LEMMA PssSignedMade ==
  ASSUME TypeOK, SignatureMade, Defined, NEW op, NEW check \in BOOLEAN,
         NEW m \in Messages, NEW salt \in Salts, PssSigned(op, check, m, salt)
  PROVE  SignatureMade'
<1> DEFINE d == digest.at
<1>1. CASE held' = held
  BY <1>1 DEF SignatureMade
<1>2. CASE held' # held
  <2>1. /\ d \in Digests /\ size = SizeOfKey(priv) /\ size >= HashLen[d] + Len(salt) + 2
        /\ held' = Made("pss", priv, PssEncoded(size, d, MgfUsed, Hash(d, m), salt),
                        [digest |-> d, mgf |-> MgfUsed, message |-> m])
    BY <1>2 DEF PssSigned, SignedWell, PrivateAgrees, Usable
  <2>2. priv \in Keys /\ size = KeySize[priv]
    BY <2>1, KeyIsSet DEF TypeOK
  <2>3. MgfUsed \in Digests
    BY <2>1 DEF MgfUsed, Defined, TypeOK
  <2>4. /\ held'.scheme = "pss" /\ held'.key = priv
        /\ held'.about = [digest |-> d, mgf |-> MgfUsed, message |-> m]
        /\ held'.em = PssEncoded(KeySize[priv], d, MgfUsed, Hash(d, m), salt)
    BY <2>1, <2>2 DEF Made
  <2>5. PssMade(held'.key, held'.about, held'.em)
    BY <2>1, <2>2, <2>3, <2>4 DEF PssMade
  <2>6. QED
    BY <2>2, <2>4, <2>5 DEF SignatureMade
<1>3. QED
  BY <1>1, <1>2

LEMMA Pkcs1SignedMade ==
  ASSUME TypeOK, NEW d \in Digests, NEW i \in Infos, NEW m \in Messages,
         size = SizeOfKey(priv),
         held' = Made("pkcs1_sign", priv,
                      Pkcs1Encoded(size, One, Byte(255), Pkcs1Payload(i, Hash(d, m))),
                      [digest |-> d, info |-> i, message |-> m])
  PROVE  SignatureMade'
<1>1. priv \in Keys /\ size = KeySize[priv]
  BY KeyIsSet DEF TypeOK
<1>2. /\ held'.scheme = "pkcs1_sign" /\ held'.key = priv
      /\ held'.about = [digest |-> d, info |-> i, message |-> m]
      /\ held'.em = Pkcs1Encoded(KeySize[priv], One, Byte(255), Pkcs1Payload(i, Hash(d, m)))
  BY <1>1 DEF Made
<1>3. Pkcs1Made(held'.key, held'.about, held'.em)
  BY <1>2 DEF Pkcs1Made
<1>4. QED
  BY <1>1, <1>2, <1>3 DEF SignatureMade

LEMMA SignatureMadeNext ==
  TypeOK /\ SignatureMade /\ [Next]_vars => SignatureMade'
<1> SUFFICES ASSUME TypeOK, SignatureMade, [Next]_vars PROVE SignatureMade'
  OBVIOUS
<1>1. ASSUME UNCHANGED held PROVE SignatureMade'
  BY <1>1 DEF SignatureMade
<1>2. ASSUME held'.scheme \in Ciphertexts PROVE SignatureMade'
  BY <1>2 DEF SignatureMade, Ciphertexts
<1>3. ASSUME NEW fits \in BOOLEAN, EncryptPublic(fits) PROVE SignatureMade'
  <2>1. UNCHANGED held \/ held'.scheme = "raw"
    <3>1. CASE pub # "none" /\ fits
      BY <1>3, <3>1 DEF EncryptPublic, Made
    <3>2. CASE ~(pub # "none" /\ fits)
      BY <1>3, <3>2 DEF EncryptPublic
    <3>3. QED
      BY <3>1, <3>2
  <2>2. QED
    BY <1>1, <1>2, <2>1 DEF Ciphertexts
<1>4. ASSUME NEW label \in Labels, NEW text \in Texts, EncryptOaep(label, text)
      PROVE  SignatureMade'
  <2>1. UNCHANGED held \/ held'.scheme = "oaep"
    BY <1>4 DEF EncryptOaep, Made
  <2>2. QED
    BY <1>1, <1>2, <2>1 DEF Ciphertexts
<1>5. ASSUME NEW text \in Texts, EncryptPkcsv15(text) PROVE SignatureMade'
  <2>1. UNCHANGED held \/ held'.scheme = "pkcs1"
    BY <1>5 DEF EncryptPkcsv15, Made
  <2>2. QED
    BY <1>1, <1>2, <2>1 DEF Ciphertexts
<1>6. ASSUME NEW check \in BOOLEAN, NEW m \in Messages, NEW salt \in Salts,
             SignPss(check, m, salt)
      PROVE  SignatureMade'
  BY <1>6, PssSignedMade DEF SignPss
<1>7. ASSUME NEW m \in Messages, NEW salt \in Salts, SignHashPss(m, salt)
      PROVE  SignatureMade'
  BY <1>7, PssSignedMade DEF SignHashPss
<1>8. ASSUME NEW check \in BOOLEAN, NEW m \in Messages, SignPkcsv15(check, m)
      PROVE  SignatureMade'
  <2>1. CASE UNCHANGED held
    BY <1>1, <2>1
  <2>2. CASE ~UNCHANGED held
    <3>1. /\ digest.at \in Digests /\ info # "unknown" /\ size = SizeOfKey(priv)
          /\ held' = Made("pkcs1_sign", priv,
                          Pkcs1Encoded(size, One, Byte(255),
                                       Pkcs1Payload(info, Hash(digest.at, m))),
                          [digest |-> digest.at, info |-> info, message |-> m])
      BY <1>8, <2>2 DEF SignPkcsv15, SignedWell, PrivateAgrees, Usable
    <3>2. info \in Infos
      BY <3>1 DEF TypeOK, Infos
    <3>3. QED
      BY <3>1, <3>2, Pkcs1SignedMade
  <2>3. QED
    BY <2>1, <2>2
<1>9. ASSUME NEW d \in Digests, NEW m \in Messages, SignHashPkcsv15(d, m)
      PROVE  SignatureMade'
  <2>1. CASE UNCHANGED held
    BY <1>1, <2>1
  <2>2. CASE ~UNCHANGED held
    <3>1. /\ size = SizeOfKey(priv)
          /\ held' = Made("pkcs1_sign", priv,
                          Pkcs1Encoded(size, One, Byte(255),
                                       Pkcs1Payload(CallersInfo(d), Hash(d, m))),
                          [digest |-> d, info |-> CallersInfo(d), message |-> m])
      BY <1>9, <2>2 DEF SignHashPkcsv15, PrivateAgrees, CallersPayload
    <3>2. CallersInfo(d) \in Infos
      BY DEF CallersInfo, Infos
    <3>3. QED
      BY <3>1, <3>2, Pkcs1SignedMade
  <2>3. QED
    BY <2>1, <2>2
<1>10. QED
  BY <1>1, <1>3, <1>4, <1>5, <1>6, <1>7, <1>8, <1>9
  DEF Next, vars, SetPublicKey, SetPrivateKey, SetKeyRefused, AddDigest,
      AddDigestUnsupported, AddMgf, AddMgfUnsupported, Copy, DecryptPrivate,
      DecryptOaep, DecryptPkcsv15, VerifyPss, VerifyPkcsv15, VerifyHashPkcsv15

-----------------------------------------------------------------------------
(* Verification.                                                           *)

LEMMA Forms ==
  /\ \A n : Noise(n).form = "noise"
  /\ \A n, d, g, x, salt : PssEncoded(n, d, g, x, salt).form = "pss"
  /\ \A n, t, pad, payload : Pkcs1Encoded(n, t, pad, payload).form = "plain"
BY DEF Noise, PssEncoded, Masked, Pkcs1Encoded, Plain

LEMMA HeldForm ==
  ASSUME SignatureMade
  PROVE  /\ held.scheme = "pss" => held.em.form = "pss"
         /\ held.scheme = "pkcs1_sign" => held.em.form = "plain"
<1>1. ASSUME held.scheme = "pss" PROVE held.em.form = "pss"
  <2>1. \E n, d, g, x, salt : held.em = PssEncoded(n, d, g, x, salt)
    BY <1>1 DEF SignatureMade, PssMade
  <2>2. QED
    BY <2>1, Forms
<1>2. ASSUME held.scheme = "pkcs1_sign" PROVE held.em.form = "plain"
  <2>1. PICK d \in Digests, m \in Messages, i \in Infos :
          held.em = Pkcs1Encoded(KeySize[held.key], One, Byte(255), Pkcs1Payload(i, Hash(d, m)))
    BY <1>2 DEF SignatureMade, Pkcs1Made
  <2>2. QED
    BY <2>1, Forms
<1>3. QED
  BY <1>1, <1>2

\* A PSS verification that comes to the padding says what the property asks.
LEMMA PssVerdict ==
  ASSUME TypeOK, SignatureMade, held.scheme \in Signatures, held.key \in Keys,
         NEW e \in Digests, NEW h, NEW k, PublicAgrees
  PROVE  PssVerified(Opened(held, pub), size, e, h, Hash(e, k))
           <=> /\ held.scheme = "pss"
               /\ OfPublicKey
               /\ held.about = [digest |-> e, mgf |-> h, message |-> k]
<1>1. pub \in Keys /\ size = KeySize[pub]
  BY KeyIsSet DEF PublicAgrees, TypeOK
<1>2. size \in Nat /\ size >= HashLen[e] + 2
  BY <1>1, KeyHasRoom
<1>3. CASE pub = held.key /\ held.scheme = "pss"
  <2>1. PICK d \in Digests, g \in Digests, m \in Messages, salt \in Salts :
          /\ held.about = [digest |-> d, mgf |-> g, message |-> m]
          /\ KeySize[held.key] >= HashLen[d] + Len(salt) + 2
          /\ held.em = PssEncoded(KeySize[held.key], d, g, Hash(d, m), salt)
    BY <1>3 DEF SignatureMade, PssMade
  <2>2. salt \in Seq(Bytes)
    BY RsaAssumption
  <2>3. Opened(held, pub) = PssEncoded(size, d, g, Hash(d, m), salt)
    BY <1>1, <1>3, <2>1 DEF Opened
  <2>4. size >= HashLen[d] + Len(salt) + 2
    BY <1>1, <1>3, <2>1
  <2>5. PssVerified(PssEncoded(size, d, g, Hash(d, m), salt), size, e, h, Hash(e, k))
          <=> d = e /\ g = h /\ m = k
    BY ONLY <1>2, <2>2, <2>4, d \in Digests, e \in Digests, PssExact
  <2>6. d = e /\ g = h /\ m = k
          <=> held.about = [digest |-> e, mgf |-> h, message |-> k]
    BY <2>1
  <2>7. QED
    BY <1>3, <2>3, <2>5, <2>6 DEF OfPublicKey
<1>4. CASE ~(pub = held.key /\ held.scheme = "pss")
  <2>1. Opened(held, pub).form # "pss"
    <3>1. CASE pub # held.key
      BY <3>1, Forms DEF Opened
    <3>2. CASE held.scheme = "pkcs1_sign"
      BY <3>2, Forms, HeldForm DEF Opened
    <3>3. QED
      BY <1>4, <3>1, <3>2 DEF Signatures
  <2>2. Unmasked(Opened(held, pub), "pss", h, HashLen[e], size - 1) = Noise(size - 1).body
    BY <2>1 DEF Unmasked
  <2>3. QED
    BY <1>2, <1>4, <2>2, PssNoise DEF OfPublicKey
<1>5. QED
  BY <1>3, <1>4

LEMMA Pkcs1Verdict ==
  ASSUME TypeOK, SignatureMade, held.scheme \in Signatures, held.key \in Keys,
         NEW e \in Digests, NEW j, NEW k
  PROVE  Pkcs1Verified(e, j, k)
           <=> /\ held.scheme = "pkcs1_sign"
               /\ OfPublicKey
               /\ held.about = [digest |-> e, info |-> j, message |-> k]
<1>1. CASE ~PublicAgrees
  BY <1>1 DEF Pkcs1Verified, OfPublicKey
<1>2. CASE PublicAgrees /\ pub = held.key /\ held.scheme = "pkcs1_sign"
  <2>1. pub \in Keys /\ size = KeySize[pub]
    BY <1>2, KeyIsSet DEF PublicAgrees, TypeOK
  <2>2. PICK d \in Digests, m \in Messages, i \in Infos :
          /\ held.about = [digest |-> d, info |-> i, message |-> m]
          /\ held.em = Pkcs1Encoded(KeySize[held.key], One, Byte(255),
                                    Pkcs1Payload(i, Hash(d, m)))
    BY <1>2 DEF SignatureMade, Pkcs1Made
  <2>3. Opened(held, pub) = Pkcs1Encoded(size, One, Byte(255), Pkcs1Payload(i, Hash(d, m)))
    BY <1>2, <2>1, <2>2 DEF Opened
  <2>4. Pkcs1Verified(e, j, k) => d = e /\ i = j /\ m = k
    <3>1. size \in Nat /\ size >= HashLen[d] + 4 /\ size >= HashLen[e] + 4
      BY <2>1, KeyHasRoom
    <3>2. ASSUME Pkcs1Verified(e, j, k)
          PROVE  Pkcs1Encoded(size, One, Byte(255), Pkcs1Payload(i, Hash(d, m)))
                   = Pkcs1Encoded(size, One, Byte(255), Pkcs1Payload(j, Hash(e, k)))
      BY <2>3, <3>2 DEF Pkcs1Verified
    <3>3. QED
      BY <3>1, <3>2, Pkcs1Exact
  <2>5. d = e /\ i = j /\ m = k => Pkcs1Verified(e, j, k)
    BY <1>2, <2>3 DEF Pkcs1Verified
  <2>6. d = e /\ i = j /\ m = k
          <=> held.about = [digest |-> e, info |-> j, message |-> k]
    BY <2>2
  <2>7. QED
    BY <1>2, <2>4, <2>5, <2>6 DEF OfPublicKey
<1>3. CASE ~(pub = held.key /\ held.scheme = "pkcs1_sign")
  <2>1. Opened(held, pub).form # "plain"
    <3>1. CASE pub # held.key
      BY <3>1, Forms DEF Opened
    <3>2. CASE held.scheme = "pss"
      BY <3>2, Forms, HeldForm DEF Opened
    <3>3. QED
      BY <1>3, <3>1, <3>2 DEF Signatures
  <2>2. Pkcs1Encoded(size, One, Byte(255), Pkcs1Payload(j, Hash(e, k))).form = "plain"
    BY Forms
  <2>3. ~Pkcs1Verified(e, j, k)
    BY <2>1, <2>2 DEF Pkcs1Verified
  <2>4. QED
    BY <1>3, <2>3 DEF OfPublicKey
<1>4. QED
  BY <1>1, <1>2, <1>3

-----------------------------------------------------------------------------
(* The theorem about signatures.                                           *)

IInv ==
  /\ TypeOK
  /\ SignatureMade
  /\ VerifiesWhatWasSigned

LEMMA IInvInit == Init => IInv
<1>1. Init => SignatureMade
  BY DEF Init, SignatureMade, Nothing
<1>2. Init => VerifiesWhatWasSigned
  BY DEF Init, VerifiesWhatWasSigned, Result
<1>3. QED
  BY <1>1, <1>2, TypeInit DEF IInv

\* What was signed names a digest of the session.
LEMMA AboutDigest ==
  ASSUME SignatureMade, held.scheme \in Signatures, NEW e, NEW x, NEW y,
         \/ held.about = [digest |-> e, mgf |-> x, message |-> y]
         \/ held.about = [digest |-> e, info |-> x, message |-> y]
  PROVE  e \in Digests
<1>1. held.about.digest \in Digests
  <2>1. CASE held.scheme = "pss"
    <3>1. PICK d \in Digests, g \in Digests, m \in Messages :
            held.about = [digest |-> d, mgf |-> g, message |-> m]
      BY <2>1 DEF SignatureMade, PssMade
    <3>2. QED
      BY ONLY <3>1
  <2>2. CASE held.scheme = "pkcs1_sign"
    <3>1. PICK d \in Digests, m \in Messages, i \in Infos :
            held.about = [digest |-> d, info |-> i, message |-> m]
      BY <2>2 DEF SignatureMade, Pkcs1Made
    <3>2. QED
      BY ONLY <3>1
  <2>3. QED
    BY <2>1, <2>2 DEF Signatures
<1>2. held.about.digest = e
  OBVIOUS
<1>3. QED
  BY <1>1, <1>2

LEMMA AboutInfo ==
  ASSUME SignatureMade, held.scheme = "pkcs1_sign", NEW e, NEW j, NEW y,
         held.about = [digest |-> e, info |-> j, message |-> y]
  PROVE  e \in Digests /\ j # "unknown"
<1>1. PICK d \in Digests, m \in Messages, i \in Infos :
        held.about = [digest |-> d, info |-> i, message |-> m]
  BY DEF SignatureMade, Pkcs1Made
<1>2. d = e /\ i = j
  BY ONLY <1>1, held.about = [digest |-> e, info |-> j, message |-> y]
<1>3. i # "unknown"
  BY <1>1, RsaAssumption DEF Infos
<1>4. QED
  BY <1>1, <1>2, <1>3

LEMMA PayloadLen ==
  ASSUME NEW d \in Digests, NEW m
  PROVE  Len(CallersPayload(d, m)) = HashLen[d] + (IF InfoOf[d] = "same" THEN 0 ELSE 1)
<1> DEFINE info1 == <<"info", InfoOf[d]>>
           hash == Hash(d, m)
           S == {info1} \cup HashBytes(d, m)
           note == IF InfoOf[d] = "same" THEN <<>> ELSE <<info1>>
<1>1. CallersPayload(d, m) = note \o hash
  BY RsaAssumption DEF CallersPayload, CallersInfo, Pkcs1Payload
<1>2. hash \in Seq(S) /\ Len(hash) = HashLen[d]
  <2>1. hash \in Seq(HashBytes(d, m)) /\ Len(hash) = HashLen[d]
    BY HashIsSeq
  <2> HIDE DEF hash
  <2>2. QED
    BY <2>1, SeqMonotonic
<1>3. note \in Seq(S) /\ Len(note) = IF InfoOf[d] = "same" THEN 0 ELSE 1
  <2>1. info1 \in S
    OBVIOUS
  <2> HIDE DEF S, info1
  <2>2. <<info1>> \in Seq(S) /\ Len(<<info1>>) = 1
    BY <2>1
  <2>3. <<>> \in Seq(S) /\ Len(<<>>) = 0
    BY EmptySeq
  <2>4. QED
    BY <2>2, <2>3
<1> HIDE DEF note, hash, S
<1>4. Len(note \o hash) = Len(note) + Len(hash)
  BY <1>2, <1>3, ConcatProperties
<1>5. HashLen[d] \in Nat
  BY HashIsSeq
<1>6. QED
  BY <1>1, <1>2, <1>3, <1>4, <1>5

LEMMA VerifyPssVerdict ==
  ASSUME IInv, NEW m \in Messages, VerifyPss(m)
  PROVE  VerifiesWhatWasSigned'
<1> DEFINE e == digest.at
           arg == [digest |-> e, mgf |-> MgfUsed, message |-> m]
<1>1. /\ held.scheme \in Signatures
      /\ out'.op = "verify_pss" /\ out'.arg = arg
      /\ out'.ok <=> /\ Usable(e)
                     /\ PublicAgrees
                     /\ PssVerified(Opened(held, pub), size, e, MgfUsed, Hash(e, m))
      /\ held' = held /\ pub' = pub /\ size' = size
  BY DEF VerifyPss, Result
<1>2. held.key \in Keys
  BY <1>1 DEF IInv, SignatureMade, Signatures
<1>3. out'.ok <=> held.scheme = "pss" /\ OfPublicKey /\ held.about = arg
  <2>1. CASE Usable(e) /\ PublicAgrees
    BY <1>1, <1>2, <2>1, PssVerdict DEF IInv, Usable
  <2>2. CASE ~Usable(e)
    BY <1>1, <2>2, AboutDigest DEF IInv, Usable
  <2>3. CASE ~PublicAgrees
    BY <1>1, <2>3 DEF OfPublicKey
  <2>4. QED
    BY <2>1, <2>2, <2>3
<1>4. OfPublicKey' <=> OfPublicKey
  BY <1>1 DEF OfPublicKey, PublicAgrees, SizeOfKey
<1>5. QED
  BY <1>1, <1>3, <1>4 DEF VerifiesWhatWasSigned

\* What the two verifications of PKCS #1 v1.5 leave behind.
LEMMA VerifyPkcs1Verdict ==
  ASSUME IInv, NEW ok \in BOOLEAN, NEW e, NEW j, NEW m, held.scheme \in Signatures,
         out' = Result("verify_pkcs1", ok, [digest |-> e, info |-> j, message |-> m], None),
         held' = held, pub' = pub, size' = size,
         ok <=> /\ held.scheme = "pkcs1_sign"
                /\ OfPublicKey
                /\ held.about = [digest |-> e, info |-> j, message |-> m]
  PROVE  VerifiesWhatWasSigned'
<1>1. OfPublicKey' <=> OfPublicKey
  BY DEF OfPublicKey, PublicAgrees, SizeOfKey
<1>2. /\ out'.op = "verify_pkcs1" /\ out'.ok = ok
      /\ out'.arg = [digest |-> e, info |-> j, message |-> m]
  BY DEF Result
<1>3. QED
  BY <1>1, <1>2 DEF VerifiesWhatWasSigned

LEMMA VerdictNext ==
  ASSUME IInv, [Next]_vars
  PROVE  VerifiesWhatWasSigned'
<1>1. ASSUME out'.op \notin {"verify_pss", "verify_pkcs1"} PROVE VerifiesWhatWasSigned'
  BY <1>1 DEF VerifiesWhatWasSigned
<1>2. ASSUME NEW op, NEW ok, Called(op, ok), op \notin {"verify_pss", "verify_pkcs1"}
      PROVE  VerifiesWhatWasSigned'
  BY <1>1, <1>2 DEF Called, Result
<1>3. ASSUME NEW fits \in BOOLEAN, EncryptPublic(fits) PROVE VerifiesWhatWasSigned'
  <2>1. \E ok \in BOOLEAN : Called("encrypt", ok)
    BY <1>3 DEF EncryptPublic
  <2>2. QED
    BY <1>2, <2>1
<1>4. ASSUME NEW below \in BOOLEAN, DecryptPrivate(below) PROVE VerifiesWhatWasSigned'
  BY <1>1, <1>4 DEF DecryptPrivate, Result
<1>5. ASSUME NEW label \in Labels, DecryptOaep(label) PROVE VerifiesWhatWasSigned'
  BY <1>1, <1>5 DEF DecryptOaep, Result
<1>6. ASSUME NEW below \in BOOLEAN, DecryptPkcsv15(below) PROVE VerifiesWhatWasSigned'
  BY <1>1, <1>6 DEF DecryptPkcsv15, Result
<1>7. ASSUME NEW m \in Messages, VerifyPkcsv15(m) PROVE VerifiesWhatWasSigned'
  <2> DEFINE ready == Usable(digest.at) /\ info # "unknown"
             ok == ready /\ Pkcs1Verified(digest.at, info, m)
             arg == [digest |-> digest.at, info |-> info, message |-> m]
  <2>1. /\ held.scheme \in Signatures
        /\ out' = Result("verify_pkcs1", ok, arg, None)
        /\ held' = held /\ pub' = pub /\ size' = size
    BY <1>7 DEF VerifyPkcsv15
  <2>2. held.key \in Keys
    BY <2>1 DEF IInv, SignatureMade, Signatures
  <2>3. ok <=> held.scheme = "pkcs1_sign" /\ OfPublicKey /\ held.about = arg
    <3>1. CASE ready
      BY <2>1, <2>2, <3>1, Pkcs1Verdict DEF IInv, Usable
    <3>2. CASE ~ready
      <4>1. ASSUME held.scheme = "pkcs1_sign", held.about = arg PROVE ready
        BY <2>1, <4>1, AboutInfo DEF IInv, Usable
      <4>2. QED
        BY <3>2, <4>1
    <3>3. QED
      BY <3>1, <3>2
  <2>4. ok \in BOOLEAN
    BY DEF Usable, Pkcs1Verified
  <2> HIDE DEF ok
  <2>5. QED
    BY <2>1, <2>3, <2>4, VerifyPkcs1Verdict
<1>8. ASSUME NEW d \in Digests, NEW m \in Messages, VerifyHashPkcsv15(d, m)
      PROVE  VerifiesWhatWasSigned'
  <2> DEFINE fits == Pkcs1Fits(Len(CallersPayload(d, m)), size)
             ok == fits /\ Pkcs1Verified(d, CallersInfo(d), m)
             arg == [digest |-> d, info |-> CallersInfo(d), message |-> m]
  <2>1. /\ held.scheme \in Signatures
        /\ out' = Result("verify_pkcs1", ok, arg, None)
        /\ held' = held /\ pub' = pub /\ size' = size
    BY <1>8 DEF VerifyHashPkcsv15, session
  <2>2. held.key \in Keys
    BY <2>1 DEF IInv, SignatureMade, Signatures
  <2>3. ASSUME PublicAgrees PROVE fits
    <3>1. pub \in Keys /\ size = KeySize[pub]
      BY <2>3, KeyIsSet DEF PublicAgrees, IInv, TypeOK
    <3>2. Len(CallersPayload(d, m)) = HashLen[d] + (IF InfoOf[d] = "same" THEN 0 ELSE 1)
      BY PayloadLen
    <3>3. QED
      BY <3>1, <3>2, RsaAssumption
  <2>4. ok <=> held.scheme = "pkcs1_sign" /\ OfPublicKey /\ held.about = arg
    <3>1. Pkcs1Verified(d, CallersInfo(d), m)
            <=> held.scheme = "pkcs1_sign" /\ OfPublicKey /\ held.about = arg
      BY <2>1, <2>2, Pkcs1Verdict DEF IInv
    <3>2. QED
      BY <2>3, <3>1 DEF OfPublicKey
  <2>5. ok \in BOOLEAN
    BY DEF Pkcs1Fits, Pkcs1Verified
  <2> HIDE DEF ok
  <2>6. QED
    BY <2>1, <2>4, <2>5, VerifyPkcs1Verdict
<1>9. CASE UNCHANGED vars
  BY <1>9 DEF vars, IInv, VerifiesWhatWasSigned, OfPublicKey, PublicAgrees, SizeOfKey
<1>10. ASSUME NEW label \in Labels, NEW text \in Texts, EncryptOaep(label, text)
       PROVE  VerifiesWhatWasSigned'
  BY <1>2, <1>10 DEF EncryptOaep
<1>11. ASSUME NEW text \in Texts, EncryptPkcsv15(text) PROVE VerifiesWhatWasSigned'
  BY <1>2, <1>11 DEF EncryptPkcsv15
<1>12. ASSUME NEW op, NEW check \in BOOLEAN, NEW m \in Messages, NEW salt \in Salts,
              PssSigned(op, check, m, salt), op \notin {"verify_pss", "verify_pkcs1"}
       PROVE  VerifiesWhatWasSigned'
  BY <1>2, <1>12 DEF PssSigned
<1>13. ASSUME NEW check \in BOOLEAN, NEW m \in Messages, SignPkcsv15(check, m)
       PROVE  VerifiesWhatWasSigned'
  BY <1>2, <1>13 DEF SignPkcsv15
<1>14. ASSUME NEW d \in Digests, NEW m \in Messages, SignHashPkcsv15(d, m)
       PROVE  VerifiesWhatWasSigned'
  BY <1>2, <1>14 DEF SignHashPkcsv15
<1>15. ASSUME NEW d \in Digests, AddDigest(d) \/ AddMgf(d) PROVE VerifiesWhatWasSigned'
  BY <1>2, <1>15 DEF AddDigest, AddMgf
<1>16. ASSUME NEW k \in Keys, SetPublicKey(k) \/ SetPrivateKey(k)
       PROVE  VerifiesWhatWasSigned'
  BY <1>2, <1>16 DEF SetPublicKey, SetPrivateKey
<1>17. CASE SetKeyRefused \/ AddDigestUnsupported \/ AddMgfUnsupported \/ Copy
  BY <1>2, <1>17 DEF SetKeyRefused, AddDigestUnsupported, AddMgfUnsupported, Copy
<1>18. QED
  BY <1>3, <1>4, <1>5, <1>6, <1>7, <1>8, <1>9, <1>10, <1>11, <1>12, <1>13, <1>14,
     <1>15, <1>16, <1>17, VerifyPssVerdict DEF Next, SignPss, SignHashPss

\* Whatever the keys, digests and messages, and in any order of calls, a
\* signature verifies exactly for the message it was made for, by the public
\* key of the pair that made it, under the same digests or DigestInfo.
THEOREM SignatureSafety == Spec => []VerifiesWhatWasSigned
<1>1. Init => IInv
  BY IInvInit
<1>2. IInv /\ [Next]_vars => IInv'
  <2> SUFFICES ASSUME IInv, [Next]_vars PROVE IInv'
    OBVIOUS
  <2>1. TypeOK'
    BY TypeNext DEF IInv
  <2>2. SignatureMade'
    BY SignatureMadeNext DEF IInv
  <2>3. VerifiesWhatWasSigned'
    BY VerdictNext
  <2>4. QED
    BY <2>1, <2>2, <2>3 DEF IInv
<1>3. IInv => VerifiesWhatWasSigned
  BY DEF IInv
<1>4. QED
  BY <1>1, <1>2, <1>3, PTL DEF Spec

-----------------------------------------------------------------------------
(* Facts about the bytes of a block.                                       *)


LEMMA ModBelow ==
  ASSUME NEW B \in Nat \ {0}, NEW r \in 0 .. B - 1
  PROVE  (r - B) % B = r
BY SMT

\* The byte that tells the last Half places of a text from those before it.
LEMMA LastAreLess ==
  ASSUME NEW n \in Nat, NEW i \in 1 .. n, n - i < Half
  PROVE  IsLess(i - 1, n)
<1> DEFINE r == 2 * Half + ((i - 1) - n)
           B == 2 * Half
<1>1. Half \in Nat \ {0}
  BY RsaPaddingAssumption
<1>2. B \in Nat \ {0} /\ r \in 0 .. B - 1 /\ (i - 1) - n = r - B /\ r >= Half
  BY <1>1
<1> HIDE DEF r, B
<1>3. (r - B) % B = r
  BY <1>2, ModBelow
<1>4. ((i - 1) - n) % B >= Half
  BY <1>2, <1>3, Zenon
<1>5. QED
  BY <1>4, Zenon DEF B, IsLess

LEMMA FirstAtIs ==
  ASSUME NEW s, Len(s) \in Nat, NEW from \in Nat, NEW p \in from .. Len(s),
         NEW b, s[p] = b, \A i \in from .. p - 1 : s[i] # b
  PROVE  FirstAt(s, from, b) = p
<1> DEFINE hits == {i \in from .. Len(s) : s[i] = b}
<1>1. hits \in SUBSET Int /\ p \in hits
  OBVIOUS
<1>2. ASSUME NEW i \in hits, i < p PROVE FALSE
  <2>1. i \in from .. p - 1
    BY <1>2
  <2>2. QED
    BY <1>2, <2>1
<1>3. \A i \in hits : p <= i
  BY <1>1, <1>2
<1>4. Min(hits) = p
  BY ONLY <1>1, <1>3, MinIs
<1>5. QED
  BY <1>1, <1>4, Zenon DEF FirstAt

\* Two sequences of the same elements are the same, whatever sets they are over.
LEMMA SameElements ==
  ASSUME NEW S, NEW s \in Seq(S), NEW T, NEW t \in Seq(T), Len(s) = Len(t),
         \A i \in 1 .. Len(s) : s[i] = t[i]
  PROVE  s = t
<1> DEFINE n == Len(s)
<1>1. n \in Nat /\ s \in [1 .. n -> S] /\ t \in [1 .. n -> T]
  BY LenProperties
<1>2. s = [i \in 1 .. n |-> s[i]] /\ t = [i \in 1 .. n |-> t[i]]
  BY <1>1
<1> HIDE DEF n
<1>3. [i \in 1 .. n |-> s[i]] = [i \in 1 .. n |-> t[i]]
  BY DEF n
<1>4. QED
  BY <1>2, <1>3, Zenon

-----------------------------------------------------------------------------
(* OAEP.                                                                   *)

\* The data block of an encoding: its 01 is at p, before the text.
OaepBody(n, d, label, text) ==
  Hash(d, label) \o Times(Zero, n - 2 - 2 * HashLen[d] - Len(text)) \o <<One>> \o text

TextBytes(text) == {text[i] : i \in DOMAIN text}

LEMMA TextIsSeq ==
  ASSUME NEW text \in Texts
  PROVE  text \in Seq(TextBytes(text)) /\ Len(text) \in Nat
<1>1. text \in Seq(TextBytes(text))
  BY RsaAssumption DEF TextBytes
<1>2. QED
  BY <1>1, LenProperties

OaepBytes(d, label, text) == Bytes \cup HashBytes(d, label) \cup TextBytes(text)

OaepLaidOut(db, n, d, label, text, p) ==
  /\ db \in Seq(OaepBytes(d, label, text))
  /\ Len(db) = n - 1 - HashLen[d]
  /\ p \in HashLen[d] + 1 .. Len(db)
  /\ db[p] = One
  /\ \A i \in HashLen[d] + 1 .. p - 1 : db[i] = Zero
  /\ SubSeq(db, 1, HashLen[d]) = Hash(d, label)
  /\ SubSeq(db, p + 1, Len(db)) = text

LEMMA OaepLayout ==
  ASSUME NEW d \in Digests, NEW label, NEW text \in Texts, NEW n \in Nat,
         OaepFits(Len(text), n, d),
         NEW p, p = n - 1 - HashLen[d] - Len(text)
  PROVE  OaepLaidOut(OaepBody(n, d, label, text), n, d, label, text, p)
<1> DEFINE S == OaepBytes(d, label, text)
           h == HashLen[d]
           len == Len(text)
           lhash == Hash(d, label)
           z == n - 2 - 2 * h - len
           zeros == Times(Zero, z)
           front == lhash \o zeros
           db == OaepBody(n, d, label, text)
<1>1. h \in Nat \ {0}
  BY HashIsSeq DEF h
<1>2. len \in Nat
  BY TextIsSeq DEF len
<1> HIDE DEF h, len
<1>3. z \in Nat /\ p = h + z + 1
  <2>1. n >= 2 * h + 2 /\ len <= n - 2 * h - 2
    BY Zenon DEF OaepFits, h, len
  <2>2. p = n - 1 - h - len
    BY Zenon DEF h, len
  <2>3. QED
    BY ONLY <1>1, <1>2, <2>1, <2>2, n \in Nat
<1>4. Zero \in S /\ One \in S
  <2>1. 0 \in 0 .. 2 * Half - 1 /\ 1 \in 0 .. 2 * Half - 1
    BY RsaPaddingAssumption
  <2>2. QED
    BY <2>1 DEF Bytes, Zero, One, OaepBytes
<1>5. lhash \in Seq(S) /\ Len(lhash) = h
  <2>1. lhash \in Seq(HashBytes(d, label)) /\ Len(lhash) = h
    BY HashIsSeq DEF h
  <2> HIDE DEF lhash
  <2>2. HashBytes(d, label) \subseteq S
    BY DEF OaepBytes
  <2> HIDE DEF S
  <2>3. QED
    BY <2>1, <2>2, SeqMonotonic
<1>6. text \in Seq(S)
  <2>1. text \in Seq(TextBytes(text))
    BY TextIsSeq
  <2>2. TextBytes(text) \subseteq S
    BY DEF OaepBytes
  <2> HIDE DEF S
  <2>3. QED
    BY <2>1, <2>2, SeqMonotonic
<1> HIDE DEF S
<1> HIDE DEF z
<1>7. zeros \in Seq(S) /\ Len(zeros) = z /\ \A i \in 1 .. z : zeros[i] = Zero
  BY <1>3, <1>4, TimesIsSeq
<1> HIDE DEF lhash, zeros
<1>8. /\ front \in Seq(S) /\ Len(front) = h + z
      /\ \A i \in 1 .. h + z : front[i] = IF i <= h THEN lhash[i] ELSE zeros[i - h]
  <2>1. /\ front \in Seq(S) /\ Len(front) = Len(lhash) + Len(zeros)
        /\ \A i \in 1 .. Len(lhash) + Len(zeros) :
             front[i] = IF i <= Len(lhash) THEN lhash[i] ELSE zeros[i - Len(lhash)]
    BY <1>5, <1>7, ConcatProperties
  <2> HIDE DEF front
  <2>2. QED
    BY <1>5, <1>7, <2>1
<1>9. db = front \o <<One>> \o text
  BY DEF OaepBody, lhash, zeros, z, h, len
<1> HIDE DEF front, db
<1>10. InParts(S, db, front, One, text, p)
  <2>1. p \in Nat \ {0} /\ Len(front) = p - 1
    BY <1>1, <1>3, <1>8
  <2>2. QED
    BY ONLY <1>4, <1>6, <1>8, <1>9, <2>1, ThreeParts
<1>11. /\ db \in Seq(S) /\ Len(db) = p + len
       /\ db[p] = One
       /\ \A i \in 1 .. p - 1 : db[i] = front[i]
       /\ SubSeq(db, p + 1, Len(db)) = text
  BY <1>10, Zenon DEF InParts, len
<1>12. Len(db) = n - 1 - h /\ p \in h + 1 .. Len(db)
  <2>1. p = n - 1 - h - len
    BY Zenon DEF h, len
  <2>2. Len(db) = p + len
    BY <1>11
  <2>3. QED
    BY ONLY <1>1, <1>2, <1>3, <2>1, <2>2, n \in Nat
<1>13. \A i \in h + 1 .. p - 1 : db[i] = Zero
  <2> TAKE i \in h + 1 .. p - 1
  <2>1. i \in 1 .. p - 1 /\ i \in 1 .. h + z /\ ~(i <= h) /\ i - h \in 1 .. z
    BY <1>1, <1>3
  <2>2. QED
    BY <1>7, <1>8, <1>11, <2>1
<1>14. SubSeq(db, 1, h) = lhash
  <2> DEFINE sub == SubSeq(db, 1, h)
  <2>1. \A i \in 1 .. h : db[i] \in S
    <3>1. \A i \in 1 .. Len(db) : db[i] \in S
      BY <1>11, ElementOfSeq
    <3>2. 1 .. h \subseteq 1 .. Len(db)
      BY <1>1, <1>2, <1>3, <1>11
    <3>3. QED
      BY <3>1, <3>2
  <2>2. 1 \in Int /\ h \in Int
    BY <1>1
  <2>3. /\ sub \in Seq(S)
        /\ Len(sub) = IF 1 <= h THEN h - 1 + 1 ELSE 0
        /\ \A i \in 1 .. h - 1 + 1 : sub[i] = db[1 + i - 1]
    BY ONLY <2>1, <2>2, SubSeqProperties
  <2> HIDE DEF sub
  <2>4. Len(sub) = h
    BY <1>1, <2>3
  <2>5. ASSUME NEW i \in 1 .. h PROVE sub[i] = lhash[i]
    <3>1. i \in 1 .. h - 1 + 1 /\ 1 + i - 1 = i /\ i \in 1 .. p - 1 /\ i \in 1 .. h + z
          /\ i <= h
      BY <1>1, <1>3
    <3>2. sub[i] = db[i] /\ db[i] = front[i] /\ front[i] = lhash[i]
      BY <1>8, <1>11, <2>3, <3>1
    <3>3. QED
      BY <3>2
  <2>6. sub = lhash
    BY <1>5, <2>3, <2>4, <2>5, SeqEqual
  <2>7. QED
    BY <2>6 DEF sub
<1>15. QED
  BY <1>11, <1>12, <1>13, <1>14, Zenon DEF S, lhash, db, h, OaepLaidOut

LEMMA OaepFinds ==
  ASSUME NEW db, NEW n \in Nat, NEW d \in Digests, NEW label, NEW text \in Texts, NEW p,
         OaepLaidOut(db, n, d, label, text, p),
         NEW e \in Digests, HashLen[e] = HashLen[d], NEW l
  PROVE  OaepOne(db, e) = p /\ (OaepValid(db, e, l) <=> e = d /\ l = label)
<1>1. /\ HashLen[e] \in Nat \ {0} /\ Len(db) \in Nat
      /\ p \in HashLen[e] + 1 .. Len(db) /\ db[p] = One
      /\ \A i \in HashLen[e] + 1 .. p - 1 : db[i] = Zero
      /\ SubSeq(db, 1, HashLen[e]) = Hash(d, label)
  BY HashIsSeq, LenProperties DEF OaepLaidOut
<1>2. \A i \in HashLen[e] + 1 .. p - 1 : db[i] # One
  BY <1>1, BytesDiffer
<1>3. OaepOne(db, e) = p
  <2>1. HashLen[e] + 1 \in Nat
    BY <1>1
  <2>2. FirstAt(db, HashLen[e] + 1, One) = p
    BY ONLY <1>1, <1>2, <2>1, FirstAtIs
  <2>3. QED
    BY <2>2 DEF OaepOne
<1>4. p # 0
  BY <1>1
<1>5. Hash(d, label) = Hash(e, l) <=> e = d /\ l = label
  BY HashEqual
<1>6. QED
  BY <1>1, <1>3, <1>4, <1>5, Zenon DEF OaepValid

\* The buffer when the data block is accepted and its 01 is at p.
OaepFilled(db, d, p) ==
  [i \in 1 .. Len(db) - HashLen[d] - 1 |->
     IF IsLess(i - 1, Len(db) - p) THEN (db \o Times(Zero, Len(db)))[p + i] ELSE Unwritten]

\* Of the text the caller has the length, and all of it if it is not longer than
\* half the values of a byte.
LEMMA OaepGives ==
  ASSUME NEW db, NEW n \in Nat, NEW d \in Digests, NEW label, NEW text \in Texts, NEW p,
         OaepLaidOut(db, n, d, label, text, p)
  PROVE  /\ Len(db) - p = Len(text)
         /\ Len(text) <= Half => SubSeq(OaepFilled(db, d, p), 1, Len(text)) = text
<1> DEFINE len == Len(text)
           h == HashLen[d]
           B == Len(db) - h - 1
           wide == db \o Times(Zero, Len(db))
           buf == OaepFilled(db, d, p)
           read == SubSeq(buf, 1, len)
           S == OaepBytes(d, label, text)
<1>1. /\ h \in Nat \ {0} /\ len \in Nat /\ Len(db) \in Nat /\ Half \in Nat \ {0}
      /\ db \in Seq(S) /\ p \in h + 1 .. Len(db)
      /\ SubSeq(db, p + 1, Len(db)) = text
  BY HashIsSeq, TextIsSeq, LenProperties, RsaPaddingAssumption DEF OaepLaidOut
<1> HIDE DEF S
<1>2. Len(text) = Len(db) - p /\ \A i \in 1 .. len : text[i] = db[p + i]
  <2> DEFINE sub == SubSeq(db, p + 1, Len(db))
  <2>1. \A i \in p + 1 .. Len(db) : db[i] \in S
    <3>1. \A i \in 1 .. Len(db) : db[i] \in S
      BY <1>1, ElementOfSeq
    <3>2. p + 1 .. Len(db) \subseteq 1 .. Len(db)
      BY <1>1
    <3>3. QED
      BY <3>1, <3>2
  <2>2. p + 1 \in Int /\ Len(db) \in Int
    BY <1>1
  <2>3. /\ Len(sub) = IF p + 1 <= Len(db) THEN Len(db) - (p + 1) + 1 ELSE 0
        /\ \A i \in 1 .. Len(db) - (p + 1) + 1 : sub[i] = db[(p + 1) + i - 1]
    BY ONLY <2>1, <2>2, SubSeqProperties
  <2>4. sub = text
    BY <1>1
  <2> HIDE DEF sub
  <2>5. Len(text) = Len(db) - p
    BY <1>1, <2>3, <2>4
  <2>6. ASSUME NEW i \in 1 .. len PROVE text[i] = db[p + i]
    <3>1. i \in 1 .. Len(db) - (p + 1) + 1 /\ (p + 1) + i - 1 = p + i
      BY <1>1, <2>5
    <3>2. QED
      BY <2>3, <2>4, <3>1
  <2>7. QED
    BY <2>5, <2>6
<1>3. \A i \in 1 .. Len(db) : wide[i] = db[i]
  <2>1. Zero \in S
    <3>1. 0 \in 0 .. 2 * Half - 1
      BY RsaPaddingAssumption
    <3>2. QED
      BY <3>1 DEF Bytes, Zero, S, OaepBytes
  <2>2. Times(Zero, Len(db)) \in Seq(S) /\ Len(Times(Zero, Len(db))) \in Nat
    BY <1>1, <2>1, TimesIsSeq
  <2> DEFINE zeros == Times(Zero, Len(db))
  <2> HIDE DEF zeros
  <2>3. \A i \in 1 .. Len(db) + Len(zeros) :
           (db \o zeros)[i] = IF i <= Len(db) THEN db[i] ELSE zeros[i - Len(db)]
    BY <1>1, <2>2, ConcatProperties DEF zeros
  <2>4. \A i \in 1 .. Len(db) : i \in 1 .. Len(db) + Len(zeros) /\ i <= Len(db)
    BY <1>1, <2>2 DEF zeros
  <2>5. QED
    BY <2>3, <2>4 DEF zeros
<1>4. buf = [i \in 1 .. B |-> IF IsLess(i - 1, Len(db) - p) THEN wide[p + i] ELSE Unwritten]
  BY Zenon DEF OaepFilled
<1> DEFINE T == {buf[i] : i \in 1 .. B}
<1>5. B \in Nat /\ len <= B
  BY <1>1, <1>2
<1>6. buf \in Seq(T) /\ Len(buf) = B
  <2>1. buf \in [1 .. B -> T]
    <3>1. DOMAIN buf = 1 .. B /\ buf = [i \in 1 .. B |-> buf[i]]
      BY <1>4
    <3> HIDE DEF buf, B
    <3>2. QED
      BY <3>1
  <2> HIDE DEF buf, B, T
  <2>2. QED
    BY <1>5, <2>1
<1>7. ASSUME len <= Half, NEW i \in 1 .. len PROVE buf[i] = text[i]
  <2>1. len - i < Half
    BY <1>1, <1>7
  <2>2. IsLess(i - 1, len)
    BY <1>1, <2>1, LastAreLess
  <2> HIDE DEF wide, len, B, buf
  <2>3. i \in 1 .. B /\ p + i \in 1 .. Len(db)
    BY <1>1, <1>2, <1>5 DEF len
  <2>4. buf[i] = wide[p + i]
    BY <1>2, <1>4, <2>2, <2>3 DEF len
  <2>5. QED
    BY <1>2, <1>3, <2>1, <2>3, <2>4
<1> HIDE DEF buf, B
<1>8. /\ read \in Seq(T) /\ Len(read) = len
      /\ \A i \in 1 .. len : read[i] = buf[i]
  <2>1. \A i \in 1 .. len : buf[i] \in T
    <3>1. \A i \in 1 .. Len(buf) : buf[i] \in T
      BY <1>6, ElementOfSeq
    <3>2. 1 .. len \subseteq 1 .. Len(buf)
      BY <1>1, <1>5, <1>6
    <3>3. QED
      BY <3>1, <3>2
  <2>2. 1 \in Int /\ len \in Int
    BY <1>1
  <2> HIDE DEF T, len
  <2>3. /\ read \in Seq(T)
        /\ Len(read) = IF 1 <= len THEN len - 1 + 1 ELSE 0
        /\ \A i \in 1 .. len - 1 + 1 : read[i] = buf[1 + i - 1]
    BY ONLY <2>1, <2>2, SubSeqProperties
  <2> HIDE DEF read
  <2>4. Len(read) = len
    BY <1>1, <2>3
  <2>5. ASSUME NEW i \in 1 .. len PROVE read[i] = buf[i]
    <3>1. i \in 1 .. len - 1 + 1 /\ 1 + i - 1 = i
      BY <1>1
    <3>2. QED
      BY <2>3, <3>1
  <2>6. QED
    BY <2>3, <2>4, <2>5
<1> HIDE DEF T, read
<1>9. ASSUME len <= Half PROVE read = text
  <2>1. text \in Seq(TextBytes(text)) /\ Len(read) = Len(text)
    BY <1>8, TextIsSeq
  <2>2. \A i \in 1 .. Len(read) : read[i] = text[i]
    BY <1>7, <1>8, <1>9
  <2>3. QED
    BY <1>8, <2>1, <2>2, SameElements
<1>10. QED
  BY <1>1, <1>2, <1>9, Zenon DEF read, buf

\* No encoding is found in noise, nor is a byte of it the first of a block.
LEMMA NoiseInvalid ==
  ASSUME NEW n \in Nat, NEW d \in Digests, NEW l, n >= HashLen[d]
  PROVE  ~OaepValid(Noise(n).body, d, l)
<1> DEFINE h == HashLen[d]
           noise == <<"noise">>
           body == Times(noise, n)
<1>1. h \in Nat \ {0} /\ Hash(d, l)[1] = <<"hash", d, l, 1>>
  <2>1. HashLen[d] \in Nat \ {0}
    BY HashIsSeq
  <2>2. 1 \in 1 .. HashLen[d]
    BY <2>1
  <2>3. QED
    BY <2>1, <2>2, HashIsSeq
<1>2. \A i \in 1 .. n : body[i] = noise
  BY DEF Times
<1>3. Noise(n).body = body
  BY DEF Noise
<1>4. noise # <<"hash", d, l, 1>>
  OBVIOUS
<1> DEFINE sub == SubSeq(body, 1, h)
<1> HIDE DEF h, body, noise
<1>5. sub[1] = noise
  <2>1. \A i \in 1 .. h : body[i] \in {noise}
    <3>1. 1 .. h \subseteq 1 .. n
      BY <1>1 DEF h
    <3>2. QED
      BY <1>2, <3>1
  <2>2. 1 \in Int /\ h \in Int
    BY <1>1
  <2>3. \A i \in 1 .. h - 1 + 1 : sub[i] = body[1 + i - 1]
    BY ONLY <2>1, <2>2, SubSeqProperties
  <2>4. 1 \in 1 .. h - 1 + 1 /\ 1 + 1 - 1 = 1 /\ 1 \in 1 .. n
    BY <1>1 DEF h
  <2> HIDE DEF sub
  <2>5. QED
    BY <1>2, <2>3, <2>4
<1>6. sub # Hash(d, l)
  BY <1>1, <1>4, <1>5, Zenon
<1>7. QED
  BY <1>3, <1>6, Zenon DEF OaepValid, sub, h

\* A refused decoding has touched no byte of the caller's buffer.
LEMMA RefusedUnwritten ==
  ASSUME NEW em, NEW n, NEW d, NEW g, NEW l,
         NEW got, got = OaepDecoded(em, n, d, g, l), ~got.ok
  PROVE  \A i \in DOMAIN got.text : got.text[i] = Unwritten
<1> DEFINE db == Unmasked(em, "oaep", g, HashLen[d], n - 1 - HashLen[d])
           ok == OaepValid(db, d, l)
           B == Len(db) - HashLen[d] - 1
<1>1. got.ok = ok /\ got.text = OaepText(db, d, ok)
  BY DEF OaepDecoded
<1> HIDE DEF db, ok
<1>2. ~ok
  BY <1>1
<1> DEFINE one == OaepOne(db, d)
           wide == db \o Times(Zero, Len(db))
           cell(i) == IF ok /\ IsLess(i - 1, Len(db) - one) THEN wide[one + i] ELSE Unwritten
<1>3. OaepText(db, d, ok) = [i \in 1 .. B |-> cell(i)]
  BY Zenon DEF OaepText
<1>4. \A i : cell(i) = Unwritten
  BY <1>2
<1> HIDE DEF cell, B
<1>5. QED
  BY <1>1, <1>3, <1>4

\* An encoding is decoded under its digests and label, and by nothing else.
LEMMA OaepExact ==
  ASSUME NEW d \in Digests, NEW e \in Digests, NEW g, NEW h, NEW label, NEW l,
         NEW text \in Texts, NEW n \in Nat, OaepFits(Len(text), n, d),
         n >= 2 * HashLen[e] + 2,
         NEW got, got = OaepDecoded(OaepEncoded(n, d, g, label, text), n, e, h, l)
  PROVE  /\ got.ok <=> d = e /\ g = h /\ label = l
         /\ got.ok => /\ got.len = Len(text)
                      /\ Len(text) <= Half => SubSeq(got.text, 1, got.len) = text
<1> DEFINE em == OaepEncoded(n, d, g, label, text)
           body == OaepBody(n, d, label, text)
           db == Unmasked(em, "oaep", h, HashLen[e], n - 1 - HashLen[e])
           ok == OaepValid(db, e, l)
           p == n - 1 - HashLen[d] - Len(text)
<1>1. em.form = "oaep" /\ em.mgf = g /\ em.cut = HashLen[d] /\ em.body = body
  BY DEF OaepEncoded, Masked, OaepBody
<1>2. /\ got.ok = ok
      /\ got.text = OaepText(db, e, ok)
      /\ got.len = IF ok THEN Len(db) - OaepOne(db, e) ELSE 2 * Half - 1
  BY DEF OaepDecoded
<1>3. OaepLaidOut(body, n, d, label, text, p)
  BY OaepLayout
<1> HIDE DEF em, body, p
<1>4. Len(body) = n - 1 - HashLen[d]
  BY <1>3 DEF OaepLaidOut
<1>5. CASE g = h /\ HashLen[d] = HashLen[e]
  <2>1. db = body
    BY <1>1, <1>4, <1>5, Zenon DEF Unmasked
  <2> HIDE DEF db
  <2>2. OaepOne(db, e) = p /\ (ok <=> e = d /\ l = label)
    <3>1. HashLen[e] = HashLen[d]
      BY <1>5
    <3>2. OaepOne(body, e) = p /\ (OaepValid(body, e, l) <=> e = d /\ l = label)
      BY ONLY <1>3, <3>1, n \in Nat, d \in Digests, e \in Digests, text \in Texts, OaepFinds
    <3>3. QED
      BY <2>1, <3>2, Zenon
  <2>3. ASSUME ok
        PROVE  /\ got.len = Len(text)
               /\ Len(text) <= Half => SubSeq(got.text, 1, got.len) = text
    <3>1. e = d /\ OaepOne(body, d) = p /\ OaepOne(db, e) = p
      BY <2>1, <2>2, <2>3
    <3>2. /\ Len(body) - p = Len(text)
          /\ Len(text) <= Half => SubSeq(OaepFilled(body, d, p), 1, Len(text)) = text
      BY ONLY <1>3, n \in Nat, d \in Digests, text \in Texts, OaepGives
    <3>3. got.len = Len(text)
      BY <1>2, <2>1, <2>3, <3>1, <3>2, Zenon
    <3>4. got.text = OaepFilled(body, d, p)
      <4>1. got.text = OaepText(body, d, ok)
        BY <1>2, <2>1, <3>1, Zenon
      <4>2. OaepText(body, d, ok) = OaepFilled(body, d, p)
        <5> HIDE DEF ok
        <5>1. OaepOne(body, d) = p
          BY <3>1
        <5>2. QED
          BY <2>3, <5>1 DEF OaepText, OaepFilled
      <4>3. QED
        BY <4>1, <4>2, Zenon
    <3>5. QED
      BY <3>2, <3>3, <3>4, Zenon
  <2>4. QED
    BY <1>2, <1>5, <2>2, <2>3
<1>6. CASE ~(g = h /\ HashLen[d] = HashLen[e])
  <2>1. db = Noise(n - 1 - HashLen[e]).body
    BY <1>1, <1>6 DEF Unmasked
  <2>2. HashLen[e] \in Nat \ {0}
    BY HashIsSeq
  <2>3. n - 1 - HashLen[e] \in Nat /\ n - 1 - HashLen[e] >= HashLen[e]
    BY <2>2
  <2>4. ~ok
    BY <2>1, <2>3, NoiseInvalid
  <2>5. QED
    BY <1>2, <1>6, <2>4
<1>7. QED
  BY <1>5, <1>6

\* What is not an encoding of this padding is not decoded.
LEMMA OaepOther ==
  ASSUME NEW em, em.form # "oaep", NEW d \in Digests, NEW g, NEW l, NEW n \in Nat,
         n >= 2 * HashLen[d] + 2
  PROVE  ~OaepDecoded(em, n, d, g, l).ok
<1> DEFINE db == Unmasked(em, "oaep", g, HashLen[d], n - 1 - HashLen[d])
<1>1. db = Noise(n - 1 - HashLen[d]).body
  BY DEF Unmasked
<1>2. HashLen[d] \in Nat \ {0}
  BY HashIsSeq
<1>3. n - 1 - HashLen[d] \in Nat /\ n - 1 - HashLen[d] >= HashLen[d]
  BY <1>2
<1>4. ~OaepValid(db, d, l)
  BY <1>1, <1>3, NoiseInvalid
<1> HIDE DEF db
<1>5. OaepDecoded(em, n, d, g, l).ok = OaepValid(db, d, l)
  BY DEF OaepDecoded, db
<1>6. OaepValid(db, d, l) \in BOOLEAN
  BY DEF OaepValid
<1>7. QED
  BY <1>4, <1>5, <1>6

-----------------------------------------------------------------------------
(* PKCS #1 v1.5 encryption.                                                *)

\* The padding ends at the first zero, and the text is what follows.
LEMMA Pkcs1Reads ==
  ASSUME NEW text \in Texts, NEW n \in Nat, Pkcs1Fits(Len(text), n),
         NEW got, got = Pkcs1Decoded(Pkcs1Encoded(n, Two, Random, text))
  PROVE  got.ok /\ got.text = text
<1> DEFINE len == Len(text)
           q == n - 3 - len
           p == n - len
           S == {Zero, Two, Random} \cup TextBytes(text)
           head == <<Zero, Two>>
           pad == Times(Random, q)
           z == head \o pad
           m == Pkcs1Encoded(n, Two, Random, text).body
<1>1. text \in Seq(S) /\ len \in Nat
  <2>1. text \in Seq(TextBytes(text)) /\ len \in Nat
    BY TextIsSeq
  <2>2. TextBytes(text) \subseteq S
    OBVIOUS
  <2> HIDE DEF S
  <2>3. QED
    BY <2>1, <2>2, SeqMonotonic
<1>2. head \in Seq(S) /\ Len(head) = 2 /\ head[1] = Zero /\ head[2] = Two
  OBVIOUS
<1>3. Random \in S /\ Zero \in S
  OBVIOUS
<1>4. m = z \o <<Zero>> \o text
  BY DEF Pkcs1Encoded, Plain
<1>5. PsMin \in Nat \ {0} /\ len <= n - 3 - PsMin
  BY RsaPaddingAssumption DEF Pkcs1Fits
<1> HIDE DEF len, S, m
<1>6. q \in Nat /\ p \in Nat \ {0} /\ p = q + 3 /\ q >= PsMin /\ p <= n
  BY ONLY <1>1, <1>5, n \in Nat
<1> HIDE DEF p, q
<1>7. pad \in Seq(S) /\ Len(pad) = q /\ \A i \in 1 .. q : pad[i] = Random
  BY <1>3, <1>6, TimesIsSeq
<1> HIDE DEF pad, head
<1>8. /\ z \in Seq(S) /\ Len(z) = p - 1
      /\ \A i \in 1 .. p - 1 : z[i] = IF i <= 2 THEN head[i] ELSE pad[i - 2]
  <2>1. /\ z \in Seq(S) /\ Len(z) = Len(head) + Len(pad)
        /\ \A i \in 1 .. Len(head) + Len(pad) :
             z[i] = IF i <= Len(head) THEN head[i] ELSE pad[i - Len(head)]
    BY <1>2, <1>7, ConcatProperties
  <2> HIDE DEF z
  <2>2. Len(head) + Len(pad) = p - 1 /\ Len(head) = 2
    BY <1>2, <1>6, <1>7
  <2>3. QED
    BY <2>1, <2>2
<1> HIDE DEF z
<1>9. InParts(S, m, z, Zero, text, p)
  BY ONLY <1>1, <1>3, <1>4, <1>6, <1>8, ThreeParts
<1>10. /\ m \in Seq(S) /\ Len(m) = n /\ p \in 1 .. Len(m) /\ m[p] = Zero
       /\ \A i \in 1 .. p - 1 : m[i] = z[i]
       /\ SubSeq(m, p + 1, Len(m)) = text
  <2>1. Len(m) = p + len
    BY <1>9, Zenon DEF InParts, len
  <2>2. Len(m) = n
    BY ONLY <1>1, <2>1, n \in Nat DEF p
  <2>3. QED
    BY <1>9, <2>2 DEF InParts
<1>11. m[1] = Zero /\ m[2] = Two
  <2>1. 1 \in 1 .. p - 1 /\ 2 \in 1 .. p - 1
    BY <1>6
  <2>2. m[1] = z[1] /\ m[2] = z[2] /\ z[1] = head[1] /\ z[2] = head[2]
    BY <1>8, <1>10, <2>1
  <2>3. QED
    BY <1>2, <2>2
<1>12. \A i \in 3 .. p - 1 : m[i] # Zero
  <2> TAKE i \in 3 .. p - 1
  <2>1. i \in 1 .. p - 1 /\ ~(i <= 2) /\ i - 2 \in 1 .. q
    BY <1>6
  <2>2. m[i] = Random
    BY <1>7, <1>8, <1>10, <2>1
  <2>3. Random # Zero
    BY DEF Random, Zero, Byte
  <2>4. QED
    BY <2>2, <2>3
<1>13. FirstAt(m, 3, Zero) = p
  <2>1. Len(m) \in Nat /\ 3 \in Nat /\ p \in 3 .. Len(m)
    BY <1>6, <1>10
  <2>2. m[p] = Zero
    BY <1>10
  <2>3. QED
    BY ONLY <1>12, <2>1, <2>2, FirstAtIs
<1>14. p # 0 /\ p - 3 >= PsMin /\ p <= n
  BY <1>5, <1>6
<1>15. /\ got.ok = (m[1] = Zero /\ m[2] = Two /\ p - 3 >= PsMin /\ p <= n)
       /\ got.text = SubSeq(m, p + 1, n)
  BY <1>10, <1>13, <1>14 DEF Pkcs1Decoded, m
<1>16. QED
  BY <1>10, <1>11, <1>14, <1>15

\* A block that does not begin with a zero is refused, and so is the message
\* of zeros that a refused operation leaves.
LEMMA Pkcs1Other ==
  ASSUME NEW em, em.body[1] # Zero
  PROVE  Pkcs1Decoded(em).ok = FALSE
BY DEF Pkcs1Decoded

LEMMA Pkcs1Zeros ==
  ASSUME NEW n \in Nat
  PROVE  ~Pkcs1Decoded(Plain(Times(Zero, n))).ok
<1> DEFINE m == Times(Zero, n)
           got == Pkcs1Decoded(Plain(m))
           found == FirstAt(m, 3, Zero)
           end == IF found = 0 THEN Len(m) + 1 ELSE found
<1>1. Len(m) = n
  BY DEF Times
<1>2. got.ok = (m[1] = Zero /\ m[2] = Two /\ end - 3 >= PsMin /\ end <= Len(m))
  BY DEF Pkcs1Decoded, Plain
<1>3. CASE n >= 2
  <2>1. 2 \in 1 .. n
    BY <1>3
  <2>2. m[2] = Zero
    BY <2>1 DEF Times
  <2>3. Zero # Two
    BY DEF Zero, Two, Byte
  <2> HIDE DEF got, m, end
  <2>4. QED
    BY <1>2, <2>2, <2>3 DEF got, m
<1>4. CASE n < 2
  <2>1. {i \in 3 .. Len(m) : m[i] = Zero} = {}
    BY <1>1, <1>4
  <2>2. found = 0
    BY <2>1 DEF FirstAt
  <2>3. end = n + 1
    BY <1>1, <2>2
  <2>4. ~(end <= Len(m))
    BY <1>1, <2>3
  <2> HIDE DEF got, end
  <2>5. QED
    BY <1>2, <2>4 DEF got
<1>5. QED
  BY <1>3, <1>4
-----------------------------------------------------------------------------
(* What a held ciphertext was made of.                                     *)

OaepMade(k, about, em) ==
  \E d \in Digests, g \in Digests, label \in Labels, text \in Texts :
    /\ about = [by |-> [digest |-> d, mgf |-> g, label |-> label], text |-> text]
    /\ OaepFits(Len(text), KeySize[k], d)
    /\ em = OaepEncoded(KeySize[k], d, g, label, text)

Pkcs1Sealed(k, about, em) ==
  \E text \in Texts :
    /\ about = [text |-> text]
    /\ Pkcs1Fits(Len(text), KeySize[k])
    /\ em = Pkcs1Encoded(KeySize[k], Two, Random, text)

CiphertextMade ==
  /\ held.scheme \in Ciphertexts => held.key \in Keys
  /\ held.scheme = "raw" => held.em = Plain(Times(<<"raw">>, KeySize[held.key]))
  /\ held.scheme = "oaep" => OaepMade(held.key, held.about, held.em)
  /\ held.scheme = "pkcs1" => Pkcs1Sealed(held.key, held.about, held.em)

LEMMA CiphertextMadeNext ==
  TypeOK /\ CiphertextMade /\ [Next]_vars => CiphertextMade'
<1> SUFFICES ASSUME TypeOK, CiphertextMade, [Next]_vars PROVE CiphertextMade'
  OBVIOUS
<1>1. ASSUME UNCHANGED held PROVE CiphertextMade'
  BY <1>1 DEF CiphertextMade
<1>2. ASSUME held'.scheme \in Signatures PROVE CiphertextMade'
  BY <1>2 DEF CiphertextMade, Ciphertexts, Signatures
<1>3. ASSUME PublicAgrees PROVE pub \in Keys /\ size = KeySize[pub]
  BY <1>3, KeyIsSet, RsaAssumption DEF PublicAgrees, TypeOK
<1>4. ASSUME NEW fits \in BOOLEAN, EncryptPublic(fits) PROVE CiphertextMade'
  <2>1. CASE UNCHANGED held
    BY <1>1, <2>1
  <2>2. CASE ~UNCHANGED held
    <3>1. /\ pub # "none" /\ (PublicAgrees \/ pub = "none")
          /\ held' = Made("raw", pub, Plain(Times(<<"raw">>, size)), None)
      BY <1>4, <2>2 DEF EncryptPublic
    <3>2. pub \in Keys /\ size = KeySize[pub]
      BY <1>3, <3>1
    <3>3. /\ held'.scheme = "raw" /\ held'.key = pub
          /\ held'.em = Plain(Times(<<"raw">>, KeySize[pub]))
      BY <3>1, <3>2 DEF Made
    <3>4. QED
      BY <3>2, <3>3 DEF CiphertextMade
  <2>3. QED
    BY <2>1, <2>2
<1>5. ASSUME NEW label \in Labels, NEW text \in Texts, EncryptOaep(label, text)
      PROVE  CiphertextMade'
  <2>1. CASE UNCHANGED held
    BY <1>1, <2>1
  <2>2. CASE ~UNCHANGED held
    <3> DEFINE d == IF digest.own = "none" THEN DefaultDigest ELSE digest.own
               g == IF mgf.own = "none" THEN DefaultDigest ELSE mgf.own
               about == [by |-> [digest |-> d, mgf |-> g, label |-> label], text |-> text]
    <3>1. /\ OaepFits(Len(text), size, d) /\ PublicAgrees
          /\ held' = Made("oaep", pub, OaepEncoded(size, d, g, label, text), about)
      BY <1>5, <2>2 DEF EncryptOaep
    <3>2. d \in Digests /\ g \in Digests
      BY RsaAssumption DEF TypeOK
    <3> HIDE DEF d, g
    <3>3. pub \in Keys /\ size = KeySize[pub]
      BY <1>3, <3>1
    <3>4. /\ held'.scheme = "oaep" /\ held'.key = pub /\ held'.about = about
          /\ held'.em = OaepEncoded(KeySize[pub], d, g, label, text)
      BY <3>1, <3>3 DEF Made
    <3>5. OaepMade(held'.key, held'.about, held'.em)
      BY <3>1, <3>2, <3>3, <3>4 DEF OaepMade
    <3>6. QED
      BY <3>3, <3>4, <3>5 DEF CiphertextMade
  <2>3. QED
    BY <2>1, <2>2
<1>6. ASSUME NEW text \in Texts, EncryptPkcsv15(text) PROVE CiphertextMade'
  <2>1. CASE UNCHANGED held
    BY <1>1, <2>1
  <2>2. CASE ~UNCHANGED held
    <3>1. /\ Pkcs1Fits(Len(text), size) /\ PublicAgrees
          /\ held' = Made("pkcs1", pub, Pkcs1Encoded(size, Two, Random, text), [text |-> text])
      BY <1>6, <2>2 DEF EncryptPkcsv15
    <3>2. pub \in Keys /\ size = KeySize[pub]
      BY <1>3, <3>1
    <3>3. /\ held'.scheme = "pkcs1" /\ held'.key = pub /\ held'.about = [text |-> text]
          /\ held'.em = Pkcs1Encoded(KeySize[pub], Two, Random, text)
      BY <3>1, <3>2 DEF Made
    <3>4. Pkcs1Sealed(held'.key, held'.about, held'.em)
      BY <3>1, <3>2, <3>3 DEF Pkcs1Sealed
    <3>5. QED
      BY <3>2, <3>3, <3>4 DEF CiphertextMade
  <2>3. QED
    BY <2>1, <2>2
<1>7. ASSUME NEW op, NEW check \in BOOLEAN, NEW m, NEW salt, PssSigned(op, check, m, salt)
      PROVE  CiphertextMade'
  <2>1. UNCHANGED held \/ held'.scheme = "pss"
    BY <1>7 DEF PssSigned, Made
  <2>2. QED
    BY <1>1, <1>2, <2>1 DEF Signatures
<1>8. ASSUME NEW check \in BOOLEAN, NEW m \in Messages, SignPkcsv15(check, m)
      PROVE  CiphertextMade'
  <2>1. UNCHANGED held \/ held'.scheme = "pkcs1_sign"
    BY <1>8 DEF SignPkcsv15, Made
  <2>2. QED
    BY <1>1, <1>2, <2>1 DEF Signatures
<1>9. ASSUME NEW d \in Digests, NEW m \in Messages, SignHashPkcsv15(d, m)
      PROVE  CiphertextMade'
  <2>1. UNCHANGED held \/ held'.scheme = "pkcs1_sign"
    BY <1>9 DEF SignHashPkcsv15, Made
  <2>2. QED
    BY <1>1, <1>2, <2>1 DEF Signatures
<1>10. QED
  BY <1>1, <1>4, <1>5, <1>6, <1>7, <1>8, <1>9
  DEF Next, vars, SetPublicKey, SetPrivateKey, SetKeyRefused, AddDigest,
      AddDigestUnsupported, AddMgf, AddMgfUnsupported, Copy, DecryptPrivate,
      DecryptOaep, DecryptPkcsv15, SignPss, SignHashPss, VerifyPss, VerifyPkcsv15,
      VerifyHashPkcsv15

-----------------------------------------------------------------------------
(* Decryption.                                                             *)

LEMMA CiphertextForm ==
  ASSUME CiphertextMade, held.scheme \in Ciphertexts
  PROVE  /\ held.em.form # "noise"
         /\ held.scheme # "oaep" => held.em.form # "oaep"
<1>1. CASE held.scheme = "raw"
  BY <1>1 DEF CiphertextMade, Plain
<1>2. CASE held.scheme = "oaep"
  <2>1. \E n, d, g, label, text : held.em = OaepEncoded(n, d, g, label, text)
    BY <1>2 DEF CiphertextMade, OaepMade
  <2>2. QED
    BY <1>2, <2>1 DEF OaepEncoded, Masked
<1>3. CASE held.scheme = "pkcs1"
  <2>1. \E n, text : held.em = Pkcs1Encoded(n, Two, Random, text)
    BY <1>3 DEF CiphertextMade, Pkcs1Sealed
  <2>2. QED
    BY <2>1, Forms
<1>4. QED
  BY <1>1, <1>2, <1>3 DEF Ciphertexts

\* Of no other block than one of this padding is the first byte zero.
LEMMA FirstNotZero ==
  ASSUME TypeOK, CiphertextMade, held.scheme \in Ciphertexts, PrivateAgrees,
         ~(priv = held.key /\ held.scheme = "pkcs1")
  PROVE  Opened(held, priv).body[1] # Zero
<1>1. priv \in Keys /\ size = KeySize[priv]
  BY KeyIsSet, RsaAssumption DEF PrivateAgrees, TypeOK
<1>2. KeySize[priv] \in Nat /\ 1 \in 1 .. KeySize[priv]
  BY <1>1, KeyHasRoom, RsaAssumption
<1>3. CASE priv # held.key
  <2>1. Opened(held, priv).body = Times(<<"noise">>, KeySize[priv])
    BY <1>1, <1>3, RsaAssumption DEF Opened, Noise, SizeOfKey
  <2>2. Opened(held, priv).body[1] = <<"noise">>
    BY <1>2, <2>1 DEF Times
  <2>3. QED
    BY <2>2, BytesDiffer
<1>4. CASE priv = held.key /\ held.scheme = "raw"
  <2>1. Opened(held, priv).body = Times(<<"raw">>, KeySize[priv])
    BY <1>4 DEF Opened, CiphertextMade, Plain
  <2>2. Opened(held, priv).body[1] = <<"raw">>
    BY <1>2, <2>1 DEF Times
  <2>3. <<"raw">> # Zero
    BY DEF Zero, Byte
  <2>4. QED
    BY <2>2, <2>3
<1>5. CASE priv = held.key /\ held.scheme = "oaep"
  <2>1. PICK d \in Digests, g \in Digests, label \in Labels, text \in Texts :
          /\ OaepFits(Len(text), KeySize[priv], d)
          /\ held.em = OaepEncoded(KeySize[priv], d, g, label, text)
    BY <1>5 DEF CiphertextMade, OaepMade
  <2> DEFINE n == KeySize[priv]
             db == OaepBody(n, d, label, text)
             p == n - 1 - HashLen[d] - Len(text)
             h == HashLen[d]
             S == OaepBytes(d, label, text)
  <2>2. Opened(held, priv).body = db
    BY <1>5, <2>1 DEF Opened, OaepEncoded, Masked, OaepBody
  <2>3. OaepLaidOut(db, n, d, label, text, p)
    BY <1>2, <2>1, OaepLayout
  <2> HIDE DEF db, p, n
  <2>4. h \in Nat \ {0} /\ Hash(d, label)[1] = <<"hash", d, label, 1>>
    <3>1. HashLen[d] \in Nat \ {0}
      BY HashIsSeq
    <3>2. 1 \in 1 .. HashLen[d]
      BY <3>1
    <3>3. QED
      BY <3>1, <3>2, HashIsSeq
  <2>5. /\ db \in Seq(S) /\ Len(db) \in Nat /\ p \in h + 1 .. Len(db)
        /\ SubSeq(db, 1, h) = Hash(d, label)
    BY <2>3, LenProperties DEF OaepLaidOut
  <2> HIDE DEF S, h
  <2>6. db[1] = Hash(d, label)[1]
    <3>1. \A i \in 1 .. h : db[i] \in S
      <4>1. \A i \in 1 .. Len(db) : db[i] \in S
        BY <2>5, ElementOfSeq
      <4>2. 1 .. h \subseteq 1 .. Len(db)
        BY <2>4, <2>5
      <4>3. QED
        BY <4>1, <4>2
    <3>2. 1 \in Int /\ h \in Int
      BY <2>4
    <3>3. \A i \in 1 .. h - 1 + 1 : SubSeq(db, 1, h)[i] = db[1 + i - 1]
      BY ONLY <3>1, <3>2, SubSeqProperties
    <3>4. 1 \in 1 .. h - 1 + 1 /\ 1 + 1 - 1 = 1
      BY <2>4
    <3>5. QED
      BY <2>5, <3>3, <3>4
  <2>7. <<"hash", d, label, 1>> # Zero
    BY DEF Zero, Byte
  <2>8. QED
    BY <2>2, <2>4, <2>6, <2>7
<1>6. QED
  BY <1>3, <1>4, <1>5 DEF Ciphertexts

\* The conjuncts of the property that the three decryptions establish.
OaepGiven(got, arg) ==
  /\ got.ok <=> held.scheme = "oaep" /\ OfPrivateKey /\ held.about.by = arg
  /\ got.ok => /\ got.len = Len(held.about.text)
               /\ Len(held.about.text) <= Half => SubSeq(got.text, 1, got.len) = held.about.text
  /\ ~got.ok => \A i \in DOMAIN got.text : got.text[i] = Unwritten

LEMMA OaepVerdict ==
  ASSUME TypeOK, CiphertextMade, held.scheme \in Ciphertexts,
         PrivateAgrees \/ KeySize[held.key] # SizeOfKey(priv),
         NEW e \in Digests, NEW h \in Digests, NEW l,
         KeySize[held.key] >= 2 * HashLen[e] + 2,
         NEW got, got = OaepDecoded(OaepBlock, KeySize[held.key], e, h, l)
  PROVE  OaepGiven(got, [digest |-> e, mgf |-> h, label |-> l])
<1> DEFINE n == KeySize[held.key]
           arg == [digest |-> e, mgf |-> h, label |-> l]
<1>1. held.key \in Keys /\ n \in Nat
  BY RsaAssumption DEF CiphertextMade
<1>2. ~got.ok => \A i \in DOMAIN got.text : got.text[i] = Unwritten
  BY RefusedUnwritten
<1>3. CASE priv = held.key /\ held.scheme = "oaep"
  <2>1. PICK d \in Digests, g \in Digests, label \in Labels, text \in Texts :
          /\ held.about = [by |-> [digest |-> d, mgf |-> g, label |-> label], text |-> text]
          /\ OaepFits(Len(text), n, d)
          /\ held.em = OaepEncoded(n, d, g, label, text)
    BY <1>3 DEF CiphertextMade, OaepMade
  <2>2. SizeOfKey(priv) = n
    BY <1>1, <1>3, RsaAssumption DEF SizeOfKey
  <2>3. OfPrivateKey
    BY <1>3, <2>2 DEF OfPrivateKey
  <2>4. got = OaepDecoded(OaepEncoded(n, d, g, label, text), n, e, h, l)
    BY <1>3, <2>1, <2>2 DEF OaepBlock, Opened
  <2>5. held.about.text = text /\ held.about.by = [digest |-> d, mgf |-> g, label |-> label]
    BY <2>1
  <2> HIDE DEF n
  <2>6. n >= 2 * HashLen[e] + 2
    BY DEF n
  <2>7. /\ got.ok <=> d = e /\ g = h /\ label = l
        /\ got.ok => /\ got.len = Len(text)
                     /\ Len(text) <= Half => SubSeq(got.text, 1, got.len) = text
    BY ONLY <1>1, <2>1, <2>4, <2>6, d \in Digests, e \in Digests, text \in Texts, OaepExact
  <2>8. d = e /\ g = h /\ label = l <=> held.about.by = arg
    BY <2>5
  <2>9. QED
    BY <1>2, <1>3, <2>3, <2>5, <2>7, <2>8 DEF OaepGiven
<1>4. CASE ~(priv = held.key /\ held.scheme = "oaep")
  <2>1. OaepBlock.form # "oaep"
    <3>1. CASE n # SizeOfKey(priv) \/ priv # held.key
      BY <3>1, Forms DEF OaepBlock, Opened
    <3>2. CASE n = SizeOfKey(priv) /\ priv = held.key
      BY <1>4, <3>2, CiphertextForm DEF OaepBlock, Opened
    <3>3. QED
      BY <3>1, <3>2
  <2> DEFINE block == OaepBlock
  <2> HIDE DEF n, block
  <2>2. block.form # "oaep" /\ n >= 2 * HashLen[e] + 2 /\ got = OaepDecoded(block, n, e, h, l)
    BY <2>1 DEF n, block
  <2>3. ~got.ok
    <3>1. ~OaepDecoded(block, n, e, h, l).ok
      BY ONLY <1>1, <2>2, e \in Digests, OaepOther
    <3>2. QED
      BY <2>2, <3>1, Zenon
  <2>4. QED
    BY <1>2, <1>4, <2>3 DEF OaepGiven, OfPrivateKey
<1>5. QED
  BY <1>3, <1>4

LEMMA Pkcs1OpenVerdict ==
  ASSUME TypeOK, CiphertextMade, held.scheme \in Ciphertexts,
         NEW below \in BOOLEAN, held.key = priv => below,
         NEW got, got = Pkcs1Decoded(IF PrivateAgrees /\ below THEN Opened(held, priv)
                                     ELSE Plain(Times(Zero, size)))
  PROVE  /\ got.ok <=> held.scheme = "pkcs1" /\ OfPrivateKey
         /\ got.ok => got.text = held.about.text
<1>1. size \in Nat
  BY RsaAssumption DEF TypeOK
<1>2. CASE ~(PrivateAgrees /\ below)
  <2>1. ~got.ok
    BY <1>1, <1>2, Pkcs1Zeros
  <2>2. QED
    BY <1>2, <2>1 DEF OfPrivateKey
<1>3. CASE PrivateAgrees /\ below /\ priv = held.key /\ held.scheme = "pkcs1"
  <2>1. KeySize[held.key] \in Nat
    BY <1>3, RsaAssumption DEF CiphertextMade
  <2>2. PICK text \in Texts :
          /\ held.about = [text |-> text]
          /\ Pkcs1Fits(Len(text), KeySize[held.key])
          /\ held.em = Pkcs1Encoded(KeySize[held.key], Two, Random, text)
    BY <1>3 DEF CiphertextMade, Pkcs1Sealed
  <2>3. got = Pkcs1Decoded(Pkcs1Encoded(KeySize[held.key], Two, Random, text))
    BY <1>3, <2>2 DEF Opened
  <2>4. got.ok /\ got.text = text
    BY <2>1, <2>2, <2>3, Pkcs1Reads
  <2>5. QED
    BY <1>3, <2>2, <2>4 DEF OfPrivateKey
<1>4. CASE PrivateAgrees /\ below /\ ~(priv = held.key /\ held.scheme = "pkcs1")
  <2> DEFINE em == Opened(held, priv)
  <2>1. em.body[1] # Zero
    BY <1>4, FirstNotZero
  <2>2. got = Pkcs1Decoded(em)
    BY <1>4
  <2> HIDE DEF em
  <2>3. ~got.ok
    BY <2>1, <2>2, Pkcs1Other
  <2>4. QED
    BY <1>4, <2>3 DEF OfPrivateKey
<1>5. QED
  BY <1>2, <1>3, <1>4

-----------------------------------------------------------------------------
(* The theorem about ciphertexts.                                          *)

OpenInv ==
  /\ TypeOK
  /\ CiphertextMade
  /\ OpensWhatWasSealed

LEMMA SealedNext ==
  ASSUME OpenInv, [Next]_vars
  PROVE  OpensWhatWasSealed'
<1>1. ASSUME out'.op \notin {"decrypt", "decrypt_oaep", "decrypt_pkcs1"}
      PROVE  OpensWhatWasSealed'
  BY <1>1 DEF OpensWhatWasSealed
<1>2. ASSUME NEW op, NEW ok, Called(op, ok),
             op \notin {"decrypt", "decrypt_oaep", "decrypt_pkcs1"}
      PROVE  OpensWhatWasSealed'
  BY <1>1, <1>2 DEF Called, Result
<1>3. ASSUME UNCHANGED <<session, held>> PROVE OfPrivateKey' <=> OfPrivateKey
  BY <1>3 DEF session, OfPrivateKey, PrivateAgrees, SizeOfKey
<1>4. ASSUME NEW below \in BOOLEAN, DecryptPrivate(below) PROVE OpensWhatWasSealed'
  <2>1. /\ held.scheme \in Ciphertexts
        /\ PrivateAgrees \/ KeySize[held.key] # SizeOfKey(priv)
        /\ out'.op = "decrypt" /\ out'.got = Opened(held, priv)
        /\ out'.ok <=> KeySize[held.key] = SizeOfKey(priv) /\ below
        /\ priv = held.key => below
        /\ UNCHANGED <<session, held>>
    BY <1>4 DEF DecryptPrivate, Accepts, Result
  <2>2. ASSUME out'.ok PROVE out'.got = held.em <=> OfPrivateKey
    <3>1. PrivateAgrees
      BY <2>1, <2>2
    <3>2. CASE priv = held.key
      BY <2>1, <3>1, <3>2 DEF OfPrivateKey, Opened
    <3>3. CASE priv # held.key
      <4>1. out'.got.form = "noise"
        BY <2>1, <3>3, Forms DEF Opened
      <4>2. held.em.form # "noise"
        BY <2>1, CiphertextForm DEF OpenInv
      <4>3. QED
        BY <3>3, <4>1, <4>2 DEF OfPrivateKey
    <3>4. QED
      BY <3>2, <3>3
  <2>3. ASSUME OfPrivateKey PROVE out'.ok
    <3>1. held.key \in Keys
      BY <2>1 DEF OpenInv, CiphertextMade
    <3>2. priv = held.key /\ SizeOfKey(priv) = KeySize[held.key]
      BY <2>3, <3>1, RsaAssumption DEF OfPrivateKey, SizeOfKey
    <3>3. QED
      BY <2>1, <3>2
  <2>4. held' = held /\ (OfPrivateKey' <=> OfPrivateKey)
    BY <1>3, <2>1
  <2>5. QED
    BY <2>1, <2>2, <2>3, <2>4 DEF OpensWhatWasSealed
<1>5. ASSUME NEW l \in Labels, DecryptOaep(l) PROVE OpensWhatWasSealed'
  <2> DEFINE e == digest.at
             h == mgf.at
             n == KeySize[held.key]
             arg == [digest |-> e, mgf |-> h, label |-> l]
             short == [ok |-> FALSE, len |-> 0, text |-> <<>>]
  <2>1. PICK got :
          /\ out' = Result("decrypt_oaep", got.ok, arg, got)
          /\ got = IF size < 2 * HashLen[e] + 2 THEN short
                   ELSE OaepDecoded(OaepBlock, n, e, h, l)
    BY <1>5 DEF DecryptOaep
  <2>2. /\ held.scheme \in Ciphertexts /\ e \in Digests /\ h \in Digests
        /\ PrivateAgrees \/ n # SizeOfKey(priv)
        /\ n >= 2 * HashLen[e] + 2
        /\ UNCHANGED <<session, held>>
    BY <1>5 DEF DecryptOaep, Usable
  <2>3. TypeOK /\ CiphertextMade
    BY DEF OpenInv
  <2>4. OaepGiven(got, arg)
    <3>1. CASE size < 2 * HashLen[e] + 2
      <4>1. got = short
        BY <2>1, <3>1
      <4>2. ~got.ok /\ DOMAIN got.text = {}
        BY <4>1
      <4>3. ASSUME OfPrivateKey PROVE FALSE
        <5>1. held.key \in Keys /\ size = n
          BY <2>2, <2>3, <4>3, RsaAssumption
          DEF OfPrivateKey, PrivateAgrees, SizeOfKey, CiphertextMade
        <5>2. n \in Nat /\ HashLen[e] \in Nat
          BY <2>2, <5>1, KeyHasRoom
        <5>3. QED
          BY <2>2, <3>1, <5>1, <5>2
      <4>4. QED
        BY <4>2, <4>3 DEF OaepGiven
    <3>2. CASE ~(size < 2 * HashLen[e] + 2)
      <4>1. got = OaepDecoded(OaepBlock, n, e, h, l)
        BY <2>1, <3>2
      <4>2. QED
        BY <2>2, <2>3, <4>1, OaepVerdict
    <3>3. QED
      BY <3>1, <3>2
  <2> HIDE DEF arg, short
  <2>5. out'.op = "decrypt_oaep" /\ out'.ok = got.ok /\ out'.arg = arg /\ out'.got = got
    BY <2>1 DEF Result
  <2>6. held' = held
    BY <2>2
  <2>7. QED
    BY <1>3, <2>2, <2>4, <2>5, <2>6 DEF OpensWhatWasSealed, OaepGiven, Received
<1>6. ASSUME NEW below \in BOOLEAN, DecryptPkcsv15(below) PROVE OpensWhatWasSealed'
  <2>1. PICK got :
          /\ out' = Result("decrypt_pkcs1", got.ok, None, got)
          /\ got = Pkcs1Decoded(IF PrivateAgrees /\ below THEN Opened(held, priv)
                                ELSE Plain(Times(Zero, size)))
    BY <1>6 DEF DecryptPkcsv15
  <2>2. held.scheme \in Ciphertexts /\ (held.key = priv => below) /\ UNCHANGED <<session, held>>
    BY <1>6 DEF DecryptPkcsv15
  <2>3. /\ got.ok <=> held.scheme = "pkcs1" /\ OfPrivateKey
        /\ got.ok => got.text = held.about.text
    BY <2>1, <2>2, Pkcs1OpenVerdict DEF OpenInv
  <2>4. out'.op = "decrypt_pkcs1" /\ out'.ok = got.ok /\ out'.got = got
    BY <2>1 DEF Result
  <2>5. QED
    BY <1>3, <2>2, <2>3, <2>4 DEF OpensWhatWasSealed
<1>7. ASSUME NEW fits \in BOOLEAN, EncryptPublic(fits) PROVE OpensWhatWasSealed'
  <2>1. \E ok \in BOOLEAN : Called("encrypt", ok)
    BY <1>7 DEF EncryptPublic
  <2>2. QED
    BY <1>2, <2>1
<1>8. ASSUME NEW label \in Labels, NEW text \in Texts, EncryptOaep(label, text)
      PROVE  OpensWhatWasSealed'
  BY <1>2, <1>8 DEF EncryptOaep
<1>9. ASSUME NEW text \in Texts, EncryptPkcsv15(text) PROVE OpensWhatWasSealed'
  BY <1>2, <1>9 DEF EncryptPkcsv15
<1>10. ASSUME NEW op, NEW check \in BOOLEAN, NEW m \in Messages, NEW salt \in Salts,
              PssSigned(op, check, m, salt), op \in {"sign_pss", "sign_hash_pss"}
       PROVE  OpensWhatWasSealed'
  BY <1>2, <1>10 DEF PssSigned
<1>11. ASSUME NEW check \in BOOLEAN, NEW m \in Messages, SignPkcsv15(check, m)
       PROVE  OpensWhatWasSealed'
  BY <1>2, <1>11 DEF SignPkcsv15
<1>12. ASSUME NEW d \in Digests, NEW m \in Messages, SignHashPkcsv15(d, m)
       PROVE  OpensWhatWasSealed'
  BY <1>2, <1>12 DEF SignHashPkcsv15
<1>13. ASSUME NEW d \in Digests, AddDigest(d) \/ AddMgf(d) PROVE OpensWhatWasSealed'
  BY <1>2, <1>13 DEF AddDigest, AddMgf
<1>14. ASSUME NEW k \in Keys, SetPublicKey(k) \/ SetPrivateKey(k)
       PROVE  OpensWhatWasSealed'
  BY <1>2, <1>14 DEF SetPublicKey, SetPrivateKey
<1>15. CASE SetKeyRefused \/ AddDigestUnsupported \/ AddMgfUnsupported \/ Copy
  BY <1>2, <1>15 DEF SetKeyRefused, AddDigestUnsupported, AddMgfUnsupported, Copy
<1>16. ASSUME NEW m \in Messages, VerifyPss(m) \/ VerifyPkcsv15(m) PROVE OpensWhatWasSealed'
  <2>1. out'.op \in {"verify_pss", "verify_pkcs1"}
    BY <1>16 DEF VerifyPss, VerifyPkcsv15, Result
  <2>2. QED
    BY <1>1, <2>1
<1>17. ASSUME NEW d \in Digests, NEW m \in Messages, VerifyHashPkcsv15(d, m)
       PROVE  OpensWhatWasSealed'
  BY <1>1, <1>17 DEF VerifyHashPkcsv15, Result
<1>18. CASE UNCHANGED vars
  <2>1. out' = out /\ held' = held /\ UNCHANGED <<session, held>>
    BY <1>18 DEF vars, session
  <2>2. OpensWhatWasSealed
    BY DEF OpenInv
  <2>3. QED
    BY <1>3, <2>1, <2>2 DEF OpensWhatWasSealed, Received
<1>19. QED
  BY <1>4, <1>5, <1>6, <1>7, <1>8, <1>9, <1>10, <1>11, <1>12, <1>13, <1>14, <1>15,
     <1>16, <1>17, <1>18 DEF Next, SignPss, SignHashPss

\* Whatever the keys, digests, labels and texts, and in any order of calls, a
\* ciphertext is opened by the private key of its pair under its own padding,
\* label and digests and by nothing else, what is given is the text (of OAEP
\* its length alone when it is longer than Half), and a refusal gives nothing.
THEOREM CiphertextSafety == Spec => []OpensWhatWasSealed
<1>1. Init => OpenInv
  <2>1. Init => CiphertextMade
    BY DEF Init, CiphertextMade, Nothing, Ciphertexts
  <2>2. Init => OpensWhatWasSealed
    BY DEF Init, OpensWhatWasSealed, Result
  <2>3. QED
    BY <2>1, <2>2, TypeInit DEF OpenInv
<1>2. OpenInv /\ [Next]_vars => OpenInv'
  <2> SUFFICES ASSUME OpenInv, [Next]_vars PROVE OpenInv'
    OBVIOUS
  <2>1. TypeOK'
    BY TypeNext DEF OpenInv
  <2>2. CiphertextMade'
    BY CiphertextMadeNext DEF OpenInv
  <2>3. OpensWhatWasSealed'
    BY SealedNext
  <2>4. QED
    BY <2>1, <2>2, <2>3 DEF OpenInv
<1>3. OpenInv => OpensWhatWasSealed
  BY DEF OpenInv
<1>4. QED
  BY <1>1, <1>2, <1>3, PTL DEF Spec
=============================================================================
