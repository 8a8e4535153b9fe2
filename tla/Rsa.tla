--------------------------------- MODULE Rsa ---------------------------------
(***************************************************************************)
(* A session of the RSA C API and its Rsa object.  The RSA operation is    *)
(* symbolic: a value put through it by one key of a pair comes back        *)
(* through the other key of that pair, and any other key makes Noise of    *)
(* it.  The object keeps the digest and the digest of the mask generation  *)
(* as pointers to objects that the C context owns: a call through a null   *)
(* pointer or one that dangles has no defined outcome and is not a step.   *)
(***************************************************************************)
EXTENDS RsaPadding

CONSTANTS
  KeySize,        (* of a pair of keys, the bytes of its modulus           *)
  DefaultSize,    (* m_key_size before any key: 256                        *)
  InfoOf,         (* of a digest, its DigestInfo, or "same" when the       *)
                  (* switch of setDigest has no case for its length        *)
  DefaultDigest,  (* Sha256, made by an OAEP encryption that finds none    *)
  Labels,         (* labels of OAEP                                        *)
  Texts,          (* texts to encrypt                                      *)
  Salts,          (* salts of PSS                                          *)
  Messages        (* messages to sign                                      *)

Keys == DOMAIN KeySize
Digests == DOMAIN HashLen

ASSUME RsaAssumption ==
  /\ \A k \in Keys : KeySize[k] \in Nat /\ KeySize[k] <= 2 * Half
  /\ \A k \in Keys, d \in Digests :
       Pkcs1Fits(HashLen[d] + (IF InfoOf[d] = "same" THEN 0 ELSE 1), KeySize[k])
  /\ DefaultSize \in Nat \ {0}
  /\ Salts \subseteq Seq(Bytes)
  /\ \A t \in Texts : t \in Seq({t[i] : i \in DOMAIN t})
  /\ DOMAIN InfoOf = Digests /\ \A d \in Digests : InfoOf[d] \notin {"none", "unknown"}
  /\ DefaultDigest \in Digests
  /\ {"none", "gone"} \cap (Keys \cup Digests) = {}

VARIABLES
  pub,            (* m_pub_key                                             *)
  priv,           (* m_priv_key                                            *)
  size,           (* m_key_size                                            *)
  digest,         (* Context::m_digest, owned, and the Rsa's pointer "at"  *)
  mgf,            (* Context::m_mgf, likewise, and whether the pointer is  *)
                  (* to the object of the digest                           *)
  info,           (* m_digest_info_index                                   *)
  held,           (* the ciphertext or signature made last                 *)
  out             (* what the last call returned                           *)

session == <<pub, priv, size, digest, mgf, info>>
vars == <<pub, priv, size, digest, mgf, info, held, out>>

None == [none |-> TRUE]
Nothing == [scheme |-> "none", key |-> "none", em |-> None, about |-> None]

\* A call, whether it succeeded, what it was given, and what it gave.
Result(op, ok, arg, got) == [op |-> op, ok |-> ok, arg |-> arg, got |-> got]
Called(op, ok) == out' = Result(op, ok, None, None)

Usable(p) == p \in Digests

Init ==
  /\ pub = "none"
  /\ priv = "none"
  /\ size = DefaultSize
  /\ digest = [own |-> "none", at |-> "none"]
  /\ mgf = [own |-> "none", at |-> "none", shared |-> FALSE]
  /\ info = "unknown"
  /\ held = Nothing
  /\ out = Result("none", TRUE, None, None)

-----------------------------------------------------------------------------
(* Keys. Either one decides the size of both operations.                   *)

SetPublicKey(k) ==
  /\ pub' = k
  /\ size' = KeySize[k]
  /\ Called("set_key", TRUE)
  /\ UNCHANGED <<priv, digest, mgf, info, held>>

SetPrivateKey(k) ==
  /\ priv' = k
  /\ size' = KeySize[k]
  /\ Called("set_key", TRUE)
  /\ UNCHANGED <<pub, digest, mgf, info, held>>

\* A size that is none of the two, or an exponent of zero.
SetKeyRefused ==
  /\ Called("set_key", FALSE)
  /\ UNCHANGED <<session, held>>

-----------------------------------------------------------------------------
(* Digests.                                                                *)

\* m_digest_info_index, which setDigest leaves alone when no case matches.
InfoAfter(d) == IF InfoOf[d] = "same" THEN info ELSE InfoOf[d]

\* The context has deleted the object the pointer may have been to.
MgfLosesDigest == IF mgf.shared THEN [mgf EXCEPT !.at = "gone", !.shared = FALSE] ELSE mgf

AddDigest(d) ==
  /\ digest' = [own |-> d, at |-> d]
  /\ info' = InfoAfter(d)
  /\ mgf' = IF digest.own = "none" THEN mgf ELSE MgfLosesDigest
  /\ Called("add_digest", TRUE)
  /\ UNCHANGED <<pub, priv, size, held>>

\* A digest fetch_digest does not know: the one before is deleted all the same.
AddDigestUnsupported ==
  /\ digest' = [own |-> "none",
                at |-> IF digest.own = "none" THEN digest.at ELSE "gone"]
  /\ mgf' = IF digest.own = "none" THEN mgf ELSE MgfLosesDigest
  /\ Called("add_digest", FALSE)
  /\ UNCHANGED <<pub, priv, size, info, held>>

AddMgf(d) ==
  /\ mgf' = [own |-> d, at |-> d, shared |-> FALSE]
  /\ Called("add_mgf", TRUE)
  /\ UNCHANGED <<pub, priv, size, digest, info, held>>

AddMgfUnsupported ==
  /\ mgf' = [mgf EXCEPT !.own = "none",
                        !.at = IF mgf.own = "none" THEN @ ELSE "gone"]
  /\ Called("add_mgf", FALSE)
  /\ UNCHANGED <<pub, priv, size, digest, info, held>>

\* Variant of CopiedMgf: the copy points to the object of its source.
CopiedMgfPointer == [mgf EXCEPT !.shared = FALSE]

CopiedMgf == [own |-> mgf.own, at |-> mgf.own, shared |-> FALSE]

\* The session goes on in its copy, whose pointers are to copies of the
\* objects of the context, or null.
Copy ==
  /\ digest' = [digest EXCEPT !.at = digest.own]
  /\ mgf' = CopiedMgf
  /\ info' = IF digest.own = "none" THEN info ELSE InfoAfter(digest.own)
  /\ Called("copy", TRUE)
  /\ UNCHANGED <<pub, priv, size, held>>

-----------------------------------------------------------------------------
(* The RSA operation. A session whose keys differ in size uses the kernel  *)
(* of m_key_size for both: with a key of the other size the kernel reads   *)
(* and writes beyond it, which has no defined outcome and is not a step.   *)

SizeOfKey(k) == IF k = "none" THEN 0 ELSE KeySize[k]

\* A padded call hands m_key_size bytes to encryptPublic or decryptPrivate.
PublicAgrees == size = SizeOfKey(pub)
PrivateAgrees == size = SizeOfKey(priv)

\* What the other key of a pair makes of a value, and any other key.
Opened(v, k) == IF v.key = k THEN v.em ELSE Noise(SizeOfKey(k))

Made(scheme, k, em, about) ==
  [scheme |-> scheme, key |-> k, em |-> em, about |-> about]

Ciphertexts == {"raw", "oaep", "pkcs1"}
Signatures == {"pss", "pkcs1_sign"}

\* Without padding. "fits" is a number below the modulus.
EncryptPublic(fits) ==
  /\ PublicAgrees \/ pub = "none"
  /\ IF pub # "none" /\ fits
     THEN /\ held' = Made("raw", pub, Plain(Times(<<"raw">>, size)), None)
          /\ Called("encrypt", TRUE)
     ELSE Called("encrypt", FALSE) /\ UNCHANGED held
  /\ UNCHANGED session

\* "below" is a ciphertext that is a number below the modulus of the private
\* key, as one made under the same pair always is.
Accepts(below) == KeySize[held.key] = SizeOfKey(priv) /\ below

DecryptPrivate(below) ==
  /\ held.scheme \in Ciphertexts
  /\ held.key = priv => below
  /\ PrivateAgrees \/ KeySize[held.key] # SizeOfKey(priv)
  /\ out' = Result("decrypt", Accepts(below), None, Opened(held, priv))
  /\ UNCHANGED <<session, held>>

-----------------------------------------------------------------------------
(* OAEP. The encryption makes the digests the context lacks.               *)

EncryptOaep(label, text) ==
  LET d == IF digest.own = "none" THEN DefaultDigest ELSE digest.own
      g == IF mgf.own = "none" THEN DefaultDigest ELSE mgf.own
      ok == OaepFits(Len(text), size, d) /\ PublicAgrees
  IN /\ digest' = [own |-> d, at |-> d]
     /\ info' = IF digest.own = "none" THEN InfoAfter(d) ELSE info
     /\ mgf' = [own |-> g, at |-> g, shared |-> FALSE]
     /\ held' = IF ok
                THEN Made("oaep", pub, OaepEncoded(size, d, g, label, text),
                          [by |-> [digest |-> d, mgf |-> g, label |-> label],
                           text |-> text])
                ELSE held
     /\ Called("encrypt_oaep", ok)
     /\ UNCHANGED <<pub, priv, size>>

\* decryptPrivate's refusal, of the size or of a value not below the modulus, is
\* not looked at: the block that is then decoded is the uninitialized one, which
\* is taken to be no block anybody encoded, as what another key makes of it is.
OaepBlock ==
  IF KeySize[held.key] = SizeOfKey(priv) THEN Opened(held, priv) ELSE Noise(KeySize[held.key])

DecryptOaep(label) ==
  /\ held.scheme \in Ciphertexts
  /\ Usable(digest.at)
  /\ Usable(mgf.at)
  /\ PrivateAgrees \/ KeySize[held.key] # SizeOfKey(priv)
  /\ LET d == digest.at
         n == KeySize[held.key]
     IN /\ n >= 2 * HashLen[d] + 2    \* a shorter text has no data block
        /\ LET got == IF size < 2 * HashLen[d] + 2
                      THEN [ok |-> FALSE, len |-> 0, text |-> <<>>]
                      ELSE OaepDecoded(OaepBlock, n, d, mgf.at, label)
           IN out' = Result("decrypt_oaep", got.ok,
                            [digest |-> d, mgf |-> mgf.at, label |-> label], got)
  /\ UNCHANGED <<session, held>>

-----------------------------------------------------------------------------
(* PKCS #1 v1.5 encryption, with a padding the caller has made.            *)

EncryptPkcsv15(text) ==
  LET ok == Pkcs1Fits(Len(text), size) /\ PublicAgrees
  IN /\ held' = IF ok
                THEN Made("pkcs1", pub, Pkcs1Encoded(size, Two, Random, text),
                          [text |-> text])
                ELSE held
     /\ Called("encrypt_pkcs1", ok)
     /\ UNCHANGED session

\* A refused operation leaves a message of zeros to be decoded.  A block without
\* a zero behind its padding is refused by the length of that padding already, so
\* that the byte behind the block, which is read too, decides nothing.
DecryptPkcsv15(below) ==
  /\ held.scheme \in Ciphertexts
  /\ KeySize[held.key] >= size
  /\ held.key = priv => below
  /\ LET got == Pkcs1Decoded(IF PrivateAgrees /\ below THEN Opened(held, priv)
                            ELSE Plain(Times(Zero, size)))
     IN out' = Result("decrypt_pkcs1", got.ok, None, got)
  /\ UNCHANGED <<session, held>>

-----------------------------------------------------------------------------
(* Signatures. A session without a digest of its own for the mask uses the *)
(* object of its digest from its first signature on.                       *)

WithMgf == IF mgf.at = "none" THEN [mgf EXCEPT !.at = digest.at, !.shared = TRUE] ELSE mgf

MgfUsed == IF mgf.at = "none" THEN digest.at ELSE mgf.at

\* Neither pointer dangles.
Defined == "gone" \notin {digest.at, mgf.at}

\* With "check" the signature is opened with the public key and compared;
\* the outcome of that call takes the place of the signing's.
SignedWell(check) == PrivateAgrees /\ (check => pub = priv)

PssSigned(op, check, m, salt) ==
  LET d == digest.at
      ready == Usable(d) /\ size >= HashLen[d] + Len(salt) + 2
      ok == ready /\ SignedWell(check)
  IN /\ mgf' = IF ready THEN WithMgf ELSE mgf
     /\ held' = IF ok
                THEN Made("pss", priv, PssEncoded(size, d, MgfUsed, Hash(d, m), salt),
                          [digest |-> d, mgf |-> MgfUsed, message |-> m])
                ELSE held
     /\ Called(op, ok)

SignPss(check, m, salt) ==
  /\ Defined
  /\ PssSigned("sign_pss", check, m, salt)
  /\ UNCHANGED <<pub, priv, size, digest, info>>

\* The caller has hashed the message with the digest of the session.
SignHashPss(m, salt) ==
  /\ Defined
  /\ PssSigned("sign_hash_pss", FALSE, m, salt)
  /\ UNCHANGED <<pub, priv, size, digest, info>>

\* The call that is given the hash in place of the message differs in that only.
VerifyPss(m) ==
  /\ held.scheme \in Signatures
  /\ KeySize[held.key] >= size
  /\ Defined
  /\ mgf' = IF Usable(digest.at) THEN WithMgf ELSE mgf
  /\ LET ok == /\ Usable(digest.at)
               /\ PublicAgrees
               /\ PssVerified(Opened(held, pub), size, digest.at, MgfUsed,
                              Hash(digest.at, m))
     IN out' = Result("verify_pss", ok,
                      [digest |-> digest.at, mgf |-> MgfUsed, message |-> m], None)
  /\ UNCHANGED <<pub, priv, size, digest, info, held>>

SignPkcsv15(check, m) ==
  /\ digest.at # "gone"
  /\ LET d == digest.at
         ready == Usable(d) /\ info # "unknown"
         ok == ready /\ SignedWell(check)
     IN /\ mgf' = IF ready THEN WithMgf ELSE mgf
        /\ held' = IF ok
                   THEN Made("pkcs1_sign", priv,
                             Pkcs1Encoded(size, One, Byte(255), Pkcs1Payload(info, Hash(d, m))),
                             [digest |-> d, info |-> info, message |-> m])
                   ELSE held
        /\ Called("sign_pkcs1", ok)
  /\ UNCHANGED <<pub, priv, size, digest, info>>

Pkcs1Verified(d, i, m) ==
  /\ PublicAgrees
  /\ Opened(held, pub)
       = Pkcs1Encoded(size, One, Byte(255), Pkcs1Payload(i, Hash(d, m)))

VerifyPkcsv15(m) ==
  /\ held.scheme \in Signatures
  /\ KeySize[held.key] >= size
  /\ digest.at # "gone"
  /\ LET ready == Usable(digest.at) /\ info # "unknown"
     IN /\ mgf' = IF ready THEN WithMgf ELSE mgf
        /\ out' = Result("verify_pkcs1", ready /\ Pkcs1Verified(digest.at, info, m),
                         [digest |-> digest.at, info |-> info, message |-> m], None)
  /\ UNCHANGED <<pub, priv, size, digest, info, held>>

\* The caller has hashed the message and put a DigestInfo before the hash.
CallersInfo(d) == IF InfoOf[d] = "same" THEN "none" ELSE InfoOf[d]
CallersPayload(d, m) == Pkcs1Payload(CallersInfo(d), Hash(d, m))

SignHashPkcsv15(d, m) ==
  LET ok == Pkcs1Fits(Len(CallersPayload(d, m)), size) /\ PrivateAgrees
  IN /\ held' = IF ok
                THEN Made("pkcs1_sign", priv,
                          Pkcs1Encoded(size, One, Byte(255), CallersPayload(d, m)),
                          [digest |-> d, info |-> CallersInfo(d), message |-> m])
                ELSE held
     /\ Called("sign_hash_pkcs1", ok)
     /\ UNCHANGED session

VerifyHashPkcsv15(d, m) ==
  /\ held.scheme \in Signatures
  /\ KeySize[held.key] >= size
  /\ LET ok == /\ Pkcs1Fits(Len(CallersPayload(d, m)), size)
               /\ Pkcs1Verified(d, CallersInfo(d), m)
     IN out' = Result("verify_pkcs1", ok,
                      [digest |-> d, info |-> CallersInfo(d), message |-> m], None)
  /\ UNCHANGED <<session, held>>

-----------------------------------------------------------------------------

Next ==
  \/ \E k \in Keys : SetPublicKey(k)
  \/ \E k \in Keys : SetPrivateKey(k)
  \/ SetKeyRefused
  \/ \E d \in Digests : AddDigest(d)
  \/ AddDigestUnsupported
  \/ \E d \in Digests : AddMgf(d)
  \/ AddMgfUnsupported
  \/ Copy
  \/ \E fits \in BOOLEAN : EncryptPublic(fits)
  \/ \E below \in BOOLEAN : DecryptPrivate(below)
  \/ \E label \in Labels, text \in Texts : EncryptOaep(label, text)
  \/ \E label \in Labels : DecryptOaep(label)
  \/ \E text \in Texts : EncryptPkcsv15(text)
  \/ \E below \in BOOLEAN : DecryptPkcsv15(below)
  \/ \E check \in BOOLEAN, m \in Messages, salt \in Salts : SignPss(check, m, salt)
  \/ \E m \in Messages, salt \in Salts : SignHashPss(m, salt)
  \/ \E m \in Messages : VerifyPss(m)
  \/ \E check \in BOOLEAN, m \in Messages : SignPkcsv15(check, m)
  \/ \E m \in Messages : VerifyPkcsv15(m)
  \/ \E d \in Digests, m \in Messages : SignHashPkcsv15(d, m)
  \/ \E d \in Digests, m \in Messages : VerifyHashPkcsv15(d, m)

Spec == Init /\ [][Next]_vars

-----------------------------------------------------------------------------
(* Type invariant: a pointer that is not null or dangling is to the object *)
(* the context owns, or, of the mask's digest, to that of the digest.      *)

TypeOK ==
  /\ {pub, priv} \subseteq Keys \cup {"none"}
  /\ size \in {DefaultSize} \cup {KeySize[k] : k \in Keys}
  /\ digest \in [own : Digests \cup {"none"}, at : Digests \cup {"none", "gone"}]
  /\ digest.own # "none" => digest.at = digest.own
  /\ digest.own = "none" => digest.at \in {"none", "gone"}
  /\ mgf \in [own : Digests \cup {"none"}, at : Digests \cup {"none", "gone"},
              shared : BOOLEAN]
  /\ mgf.own # "none" => mgf.at = mgf.own /\ ~mgf.shared
  /\ mgf.shared => mgf.at \in Digests /\ mgf.at = digest.own
  /\ mgf.at \in Digests => mgf.shared \/ mgf.own = mgf.at
  /\ info \in {InfoOf[d] : d \in Digests} \cup {"unknown"}
  /\ info # "same"

-----------------------------------------------------------------------------
(* Safety properties.                                                      *)

\* The key is that of the held value, and the session is of its size.
OfPrivateKey == priv = held.key /\ PrivateAgrees

OfPublicKey == pub = held.key /\ PublicAgrees

Received == SubSeq(out.got.text, 1, out.got.len)

\* What was encrypted is decrypted by the private key of the same pair, and by
\* OAEP under the same label and digests, and by nothing else.  OAEP gives the
\* length of the text, and the text if it has no more than Half bytes: of a longer
\* one see OaepGivesTheText.  It touches no byte of the buffer when it refuses.
OpensWhatWasSealed ==
  /\ out.op = "decrypt" => (out.ok /\ out.got = held.em <=> OfPrivateKey)
  /\ out.op = "decrypt_oaep" =>
       /\ out.ok <=> held.scheme = "oaep" /\ OfPrivateKey /\ held.about.by = out.arg
       /\ out.ok => /\ out.got.len = Len(held.about.text)
                    /\ Len(held.about.text) <= Half => Received = held.about.text
       /\ ~out.ok => \A i \in DOMAIN out.got.text : out.got.text[i] = Unwritten
  /\ out.op = "decrypt_pkcs1" =>
       /\ out.ok <=> held.scheme = "pkcs1" /\ OfPrivateKey
       /\ out.ok => out.got.text = held.about.text

\* "pointer to decrypted text", "pointer to size of decrypted text" (rsa.h:297):
\* what an OAEP decryption that succeeds has written is the text that was
\* encrypted, of whatever length the key and the digest allow (rsa.cc:452).
OaepGivesTheText ==
  out.op = "decrypt_oaep" /\ out.ok => Received = held.about.text

\* A signature is accepted exactly for the message it was made for, by the
\* public key of the same pair and under the same scheme and digest: of PSS
\* also under the same mask digest, be it set or taken over from the digest,
\* and whatever the salt; of PKCS #1 v1.5 under the same DigestInfo, which for
\* MD5_SHA1 is the one of the digest that was set before it.
VerifiesWhatWasSigned ==
  /\ out.op = "verify_pss" =>
       (out.ok <=> held.scheme = "pss" /\ OfPublicKey /\ held.about = out.arg)
  /\ out.op = "verify_pkcs1" =>
       (out.ok <=> held.scheme = "pkcs1_sign" /\ OfPublicKey /\ held.about = out.arg)
=============================================================================
