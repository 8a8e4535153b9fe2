-------------------------------- MODULE Gcm ---------------------------------
(***************************************************************************)
(* One AES-GCM session: alcp::cipher::GcmT with its StateManager,          *)
(* KeyManager, IvManager and PartialBuffer, behind alcp_cipher_aead_*.     *)
(*                                                                         *)
(* The data are symbolic.  A byte is [ks, b]: the value b, masked with the *)
(* keystream byte ks when ks is not empty.  A keystream byte is named by   *)
(* the round keys, the counter's origin, the block and the place in it.    *)
(* GHASH is the sequence of blocks it absorbed, and the tag register is    *)
(* the encrypted first counter block (a function of `start') plus the hash *)
(* values folded into it.  The code only moves, XORs and multiplies bytes, *)
(* so what differs here differs there, but for a collision.                *)
(*                                                                         *)
(* `multi' is the build: TRUE with AES_MULTI_UPDATE, which lets a caller   *)
(* split a message anywhere, FALSE (the default) without it.               *)
(***************************************************************************)
EXTENDS Integers, Sequences

CONSTANTS
  Block,            (* Rijndael::cBlockSize, 16 in the code                *)
  Keys,             (* keys of the length the session was requested for    *)
  BadKeys,          (* keys of any other length                            *)
  NoKey,            (* a null key                                          *)
  Ivs,              (* IVs of 1 to MAX_CIPHER_IV_SIZE bytes                *)
  BadIvs,           (* IVs of any other length                             *)
  NoIv,             (* a null IV                                           *)
  NoStart,          (* InitGcm has not run yet                             *)
  NoTag,            (* no tag: none delivered, or one of no valid message  *)
  TagSizes,         (* tag lengths the caller tries                        *)
  MaxText,          (* bound: bytes of text one message may have           *)
  MaxAad,           (* bound: bytes of additional data                     *)
  MaxBreaks         (* bound: calls from the first that breaks the order   *)
                    (* of one message until the next init                  *)

ASSUME GcmAssumption ==
  /\ Block \in Nat \ {0}
  /\ NoKey \notin Keys \cup BadKeys /\ Keys \cap BadKeys = {}
  /\ NoIv \notin Ivs \cup BadIvs /\ Ivs \cap BadIvs = {}
  /\ TagSizes \subseteq Nat
  /\ MaxText \in Nat /\ MaxAad \in Nat /\ MaxBreaks \in Nat \ {0}

VARIABLES
  multi,            (* the build option, fixed                             *)
  state,            (* StateManager::m_state                               *)
  key,              (* the key the round keys were expanded from           *)
  iv,               (* IvManager::m_iv                                     *)
  start,            (* the key and IV InitGcm last ran with                *)
  ctr,              (* blocks m_counter_128 has advanced since InitGcm     *)
  ghash,            (* blocks absorbed into m_gHash_128                    *)
  tagReg,           (* hash values folded into m_tag_128                   *)
  dataLen,          (* m_dataLen                                           *)
  addLen,           (* m_additionalDataLen                                 *)
  aadBuf,           (* m_aad_buffer                                        *)
  aadDone,          (* m_aad_processed                                     *)
  partial,          (* m_partialBuffer                                     *)
  isEncrypt,        (* m_isEncrypt                                         *)
  tagLength,        (* m_tagLength                                         *)
  aad,              (* history: the message's additional data              *)
  fed,              (* history: the message's text, as handed over         *)
  got,              (* history: the text written back                      *)
  dir,              (* history: "encrypt" or "decrypt" once text was given *)
  breaks,           (* history: calls out of the order of one message      *)
  ret               (* what the last call was and returned                 *)

session == <<state, key, iv, start, tagLength>>
aadVars == <<addLen, aadBuf, aadDone>>
textVars == <<ctr, dataLen, partial, isEncrypt>>
tagVars == <<ghash, tagReg>>
history == <<aad, fed, got, dir, breaks>>
vars == <<multi, session, aadVars, textVars, tagVars, history, ret>>

-----------------------------------------------------------------------------
(* Bytes, blocks and the values the standard defines.                      *)

Raw(m) == [i \in 1 .. Len(m) |-> [ks |-> <<>>, b |-> m[i]]]

Zero == [ks |-> <<>>, b |-> 0]

\* Whole blocks, the last one filled with zeros.
Padded(m) ==
  [j \in 1 .. (Len(m) + Block - 1) \div Block |->
     [i \in 1 .. Block |->
        IF (j - 1) * Block + i <= Len(m) THEN m[(j - 1) * Block + i] ELSE Zero]]

LengthBlock(a, d) == <<[ks |-> <<"length">>, b |-> a],
                       [ks |-> <<"length">>, b |-> d]>>

\* The bytes m under the keystream of round keys k from block c of s on.
Masked(k, s, c, m) ==
  [i \in 1 .. Len(m) |->
     [ks |-> <<k, s, c + (i - 1) \div Block, (i - 1) % Block>>, b |-> m[i]]]

\* SP 800-38D: the tag of additional data a and ciphertext c.
TagOf(s, a, c) ==
  [start |-> s,
   folds |-> <<Append(Padded(Raw(a)) \o Padded(c), LengthBlock(Len(a), Len(c)))>>]

Message == [key |-> key, iv |-> iv]

\* The tag the sender of this very message computes.
GenuineTag ==
  TagOf(Message, aad,
        IF dir = "decrypt" THEN Raw(fed) ELSE Masked(key, Message, 0, fed))

\* Multiplying by H, which is zero until InitGcm has run.
Absorb(g, blocks) == IF start = NoStart THEN <<>> ELSE g \o blocks

\* Variant of Hashed: what was written is hashed, decrypting too.
HashedOutput(enc, c, m) == Padded(Masked(key, start, c, m))

\* What the cipher kernel hashes of m at counter c: the ciphertext.
Hashed(enc, c, m) == Padded(IF enc THEN Masked(key, start, c, m) ELSE Raw(m))

\* The calls since InitGcm are those of one message, in order.
regular == start # NoStart /\ breaks = 0

\* One more call, in that order or not.
Counted(inOrder) ==
  /\ breaks' = IF regular /\ inOrder THEN 0 ELSE breaks + 1
  /\ breaks' <= MaxBreaks

Returned(op, err) ==
  ret' = [op |-> op, err |-> err, tag |-> NoTag, given |-> NoTag]

-----------------------------------------------------------------------------
Init ==
  /\ multi \in BOOLEAN
  /\ state = "Uninitialized"
  /\ key = NoKey
  /\ iv = NoIv
  /\ start = NoStart
  /\ ctr = 0
  /\ ghash = <<>>
  /\ tagReg = <<>>
  /\ dataLen = 0
  /\ addLen = 0
  /\ aadBuf = <<>>
  /\ aadDone = FALSE
  /\ partial = <<>>
  /\ isEncrypt = TRUE
  /\ tagLength = 16
  /\ aad = <<>>
  /\ fed = <<>>
  /\ got = <<>>
  /\ dir = "none"
  /\ breaks = 0
  /\ ret = [op |-> "request", err |-> "NONE", tag |-> NoTag, given |-> NoTag]

-----------------------------------------------------------------------------
\* StateManager::onKeySet and onIvSet.
OnKeySet(s) == IF s \in {"IvSet", "Ready"} THEN "Ready" ELSE "KeySet"
OnIvSet(s) == IF s \in {"KeySet", "Ready"} THEN "Ready" ELSE "IvSet"

AfterKey(k) == IF k = NoKey THEN state ELSE OnKeySet(state)
AfterIv(k, v) == IF v = NoIv THEN AfterKey(k) ELSE OnIvSet(AfterKey(k))

\* A null key or IV leaves the one the session has.
Kept(given, null, old) == IF given = null THEN old ELSE given

InitBadKey(k) ==
  /\ k \in BadKeys
  /\ UNCHANGED <<multi, session, aadVars, textVars, tagVars, history>>
  /\ Returned("init", "INVALID_SIZE")

\* Variant of InitBadIv: the state advances before the IV is looked at.
InitBadIvReady(k, v) ==
  /\ k \notin BadKeys
  /\ v \in BadIvs
  /\ key' = Kept(k, NoKey, key)
  /\ state' = AfterIv(k, v)
  /\ IF k = NoKey THEN breaks' = breaks ELSE Counted(FALSE)
  /\ UNCHANGED <<multi, iv, start, tagLength, aadVars, textVars, tagVars,
                 aad, fed, got, dir>>
  /\ Returned("init", "INVALID_SIZE")

(***************************************************************************)
(* A good key with a bad IV: the key is already in place when setIv        *)
(* refuses the IV, and InitGcm does not run.                               *)
(***************************************************************************)
InitBadIv(k, v) ==
  /\ k \notin BadKeys
  /\ v \in BadIvs
  /\ key' = Kept(k, NoKey, key)
  /\ state' = AfterKey(k)
  /\ IF k = NoKey THEN breaks' = breaks ELSE Counted(FALSE)
  /\ UNCHANGED <<multi, iv, start, tagLength, aadVars, textVars, tagVars,
                 aad, fed, got, dir>>
  /\ Returned("init", "INVALID_SIZE")

\* What GcmT::init starts over once both a key and an IV are there.
InitGcm ==
  /\ start' = [key |-> key', iv |-> iv']
  /\ ctr' = 0
  /\ ghash' = <<>>
  /\ tagReg' = <<>>
  /\ dataLen' = 0
  /\ aad' = <<>>
  /\ fed' = <<>>
  /\ got' = <<>>
  /\ dir' = "none"
  /\ breaks' = 0

\* Variant of ClearStreaming: the buffered data stay.
ClearStreamingKeepsAad ==
  IF multi
  THEN partial' = <<>> /\ UNCHANGED aadBuf /\ aadDone' = FALSE
  ELSE UNCHANGED <<partial, aadBuf, aadDone>>

ClearStreaming ==
  IF multi
  THEN partial' = <<>> /\ aadBuf' = <<>> /\ aadDone' = FALSE
  ELSE UNCHANGED <<partial, aadBuf, aadDone>>

InitGood(k, v) ==
  /\ k \notin BadKeys
  /\ v \notin BadIvs
  /\ <<k, v>> # <<NoKey, NoIv>>
  /\ key' = Kept(k, NoKey, key)
  /\ iv' = Kept(v, NoIv, iv)
  /\ state' = AfterIv(k, v)
  /\ IF state' = "Ready" THEN InitGcm
     ELSE UNCHANGED <<start, ctr, tagVars, dataLen, history>>
  /\ ClearStreaming
  /\ UNCHANGED <<multi, addLen, isEncrypt, tagLength>>
  /\ Returned("init", "NONE")

InitSession ==
  \E k \in Keys \cup BadKeys \cup {NoKey}, v \in Ivs \cup BadIvs \cup {NoIv} :
    InitBadKey(k) \/ InitBadIv(k, v) \/ InitGood(k, v)

-----------------------------------------------------------------------------
SetAadRefused ==
  /\ iv = NoIv \/ (multi /\ aadDone)
  /\ UNCHANGED <<multi, session, aadVars, textVars, tagVars, history>>
  /\ Returned("set_aad", "BAD_STATE")

\* With AES_MULTI_UPDATE the data wait for the first text or the tag.
BufferAad(a) ==
  /\ multi /\ ~aadDone
  /\ aadBuf' = aadBuf \o a
  /\ addLen' = Len(aadBuf')
  /\ UNCHANGED <<ghash, aadDone>>

\* Without it they are hashed at once, and their length is this call's.
HashAad(a) ==
  /\ ~multi
  /\ addLen' = Len(a)
  /\ ghash' = Absorb(ghash, Padded(Raw(a)))
  /\ UNCHANGED <<aadBuf, aadDone>>

(***************************************************************************)
(* Additional data of n bytes, which are 101, 102, ... of the message.     *)
(***************************************************************************)
SetAadAccepted(n) ==
  /\ iv # NoIv
  /\ Len(aad) + n <= MaxAad
  /\ LET a == [i \in 1 .. n |-> 100 + Len(aad) + i]
     IN  /\ BufferAad(a) \/ HashAad(a)
         /\ aad' = aad \o a
  /\ Counted(dir = "none" /\ tagReg = <<>> /\ (multi \/ aad = <<>>))
  /\ UNCHANGED <<multi, session, textVars, tagReg, fed, got, dir>>
  /\ Returned("set_aad", "NONE")

SetAad == SetAadRefused \/ \E n \in 1 .. MaxAad : SetAadAccepted(n)

\* processBufferedAad: GHASH with the buffered data in it, once.
WithAad == IF multi /\ ~aadDone THEN Absorb(ghash, Padded(Raw(aadBuf))) ELSE ghash

-----------------------------------------------------------------------------
\* The direction is recorded before the state is looked at.
CryptRefused(d) ==
  /\ state # "Ready"
  /\ isEncrypt' = (d = "encrypt")
  /\ UNCHANGED <<multi, session, aadVars, ctr, dataLen, partial, tagVars, history>>
  /\ Returned("crypt", "BAD_STATE")

\* One kernel call on all the bytes: a last partial block is hashed zero
\* padded, and the counter does not move past it.
CryptAtOnce(d, m) ==
  /\ ~multi
  /\ ghash' = Absorb(ghash, Hashed(d = "encrypt", ctr, m))
  /\ ctr' = ctr + Len(m) \div Block
  /\ got' = got \o Masked(key, start, ctr, m)
  /\ UNCHANGED <<partial, aadDone>>

\* Variant of CryptStreaming: the counter is not restored after the
\* unfinished block was encrypted for its output.
CryptStreamingAdvances(d, m) ==
  LET joined == partial \o m
      whole == Block * (Len(joined) \div Block)
      output == Masked(key, start, ctr, joined)
  IN /\ multi
     /\ ghash' = Absorb(WithAad, Hashed(d = "encrypt", ctr, SubSeq(joined, 1, whole)))
     /\ ctr' = ctr + (Len(joined) + Block - 1) \div Block
     /\ partial' = SubSeq(joined, whole + 1, Len(joined))
     /\ aadDone' = TRUE
     /\ got' = got \o SubSeq(output, Len(partial) + 1, Len(joined))

(***************************************************************************)
(* With AES_MULTI_UPDATE the bytes of an unfinished block are kept and     *)
(* encrypted again, with their successors, by the next call; only whole    *)
(* blocks advance GHASH and the counter, which are restored after the      *)
(* unfinished block was encrypted for its output.                          *)
(***************************************************************************)
CryptStreaming(d, m) ==
  LET joined == partial \o m
      whole == Block * (Len(joined) \div Block)
      output == Masked(key, start, ctr, joined)
  IN /\ multi
     /\ ghash' = Absorb(WithAad, Hashed(d = "encrypt", ctr, SubSeq(joined, 1, whole)))
     /\ ctr' = ctr + Len(joined) \div Block
     /\ partial' = SubSeq(joined, whole + 1, Len(joined))
     /\ aadDone' = TRUE
     /\ got' = got \o SubSeq(output, Len(partial) + 1, Len(joined))

(***************************************************************************)
(* encrypt and decrypt of n bytes, which are the next of the message.  The *)
(* calls stay regular while they go one way, precede the tag and, without  *)
(* AES_MULTI_UPDATE, end at a block boundary before the last one.          *)
(***************************************************************************)
CryptAccepted(d, n) ==
  /\ state = "Ready"
  /\ dataLen + n <= MaxText
  /\ isEncrypt' = (d = "encrypt")
  /\ dataLen' = dataLen + n
  /\ LET m == [i \in 1 .. n |-> Len(fed) + i]
     IN  /\ CryptAtOnce(d, m) \/ CryptStreaming(d, m)
         /\ fed' = fed \o m
  /\ dir' = d
  /\ Counted(dir \in {"none", d} /\ tagReg = <<>>
                                 /\ (multi \/ dataLen % Block = 0))
  /\ UNCHANGED <<multi, session, addLen, aadBuf, tagReg, aad>>
  /\ Returned("crypt", "NONE")

Crypt == \E d \in {"encrypt", "decrypt"} :
            CryptRefused(d) \/ \E n \in 0 .. MaxText : CryptAccepted(d, n)

-----------------------------------------------------------------------------
\* Variant of SetTagLength: only the upper limit is checked.
SetTagLengthUpTo(n) ==
  IF n <= 16
  THEN /\ tagLength' = n
       /\ UNCHANGED <<multi, state, key, iv, start, aadVars, textVars, tagVars, history>>
       /\ Returned("set_tag_length", "NONE")
  ELSE /\ UNCHANGED <<multi, session, aadVars, textVars, tagVars, history>>
       /\ Returned("set_tag_length", "INVALID_SIZE")

SetTagLength(n) ==
  IF n \in 4 .. 16
  THEN /\ tagLength' = n
       /\ UNCHANGED <<multi, state, key, iv, start, aadVars, textVars, tagVars, history>>
       /\ Returned("set_tag_length", "NONE")
  ELSE /\ UNCHANGED <<multi, session, aadVars, textVars, tagVars, history>>
       /\ Returned("set_tag_length", "INVALID_SIZE")

TagSizeOk(n) == n \in {4, 8} \cup 12 .. 16 /\ n <= tagLength

GetTagRefused(n) ==
  /\ iv = NoIv \/ ~TagSizeOk(n)
  /\ UNCHANGED <<multi, session, aadVars, textVars, tagVars, history>>
  /\ Returned("get_tag", IF iv = NoIv THEN "BAD_STATE" ELSE "INVALID_SIZE")

\* GHASH when the last bytes are in: buffered data of a message without
\* text, then the unfinished block.
Flushed ==
  LET g == IF dataLen = 0 THEN WithAad ELSE ghash
  IN  IF multi /\ partial # <<>>
      THEN Absorb(g, Hashed(isEncrypt, ctr, partial)) ELSE g

\* The lengths, hashed last.
Closed == Absorb(Flushed, <<LengthBlock(addLen, dataLen)>>)

\* The tag this call computes: the hash folded into the tag register.
ComputedTag ==
  [start |-> start,
   folds |-> IF start = NoStart THEN <<>> ELSE Append(tagReg, Closed)]

(***************************************************************************)
(* getTag leaves hash and tag register changed.  While decrypting, the     *)
(* buffer holds the tag the caller received; it is compared with the tag   *)
(* computed and replaced: INTERNAL_TAG_MATCH is 1 (aes_gcm.cc:127).        *)
(***************************************************************************)
GetTagComputed(given) ==
  /\ iv # NoIv
  /\ ghash' = Closed
  /\ tagReg' = ComputedTag.folds
  /\ partial' = IF multi THEN <<>> ELSE partial
  /\ aadDone' = (aadDone \/ (multi /\ dataLen = 0))
  /\ ret' = IF ~isEncrypt /\ given # ComputedTag
            THEN [op |-> "get_tag", err |-> "TAG_MISMATCH",
                  tag |-> NoTag, given |-> given]
            ELSE [op |-> "get_tag", err |-> "NONE", tag |-> ComputedTag, given |-> given]
  /\ Counted(tagReg = <<>>)
  /\ UNCHANGED <<multi, session, addLen, aadBuf, ctr, dataLen, isEncrypt,
                 aad, fed, got, dir>>

\* The caller's tag may be the sender's, whatever the session computes, or another.
Received == {GenuineTag, ComputedTag, NoTag}

GetTag == \E n \in TagSizes :
            \/ GetTagRefused(n)
            \/ /\ TagSizeOk(n)
               /\ \E given \in Received : GetTagComputed(given)

-----------------------------------------------------------------------------
Next ==
  \/ InitSession
  \/ SetAad
  \/ Crypt
  \/ \E n \in TagSizes : SetTagLength(n)
  \/ GetTag

Spec == Init /\ [][Next]_vars

-----------------------------------------------------------------------------
Starts == [key : Keys, iv : Ivs] \cup {NoStart}

Stream == (Keys \cup {NoKey}) \X Starts \X Nat \X Nat

TextByte == [ks : Stream, b : Nat]

HashByte == [ks : Stream \cup {<<>>, <<"length">>}, b : Nat]

(* Every variable stays in the set its declaration gives it.               *)
TypeOK ==
  /\ multi \in BOOLEAN
  /\ state \in {"Uninitialized", "KeySet", "IvSet", "Ready"}
  /\ key \in Keys \cup {NoKey}
  /\ iv \in Ivs \cup {NoIv}
  /\ start \in Starts
  /\ ctr \in Nat
  /\ ghash \in Seq(Seq(HashByte))
  /\ tagReg \in Seq(Seq(Seq(HashByte)))
  /\ dataLen \in Nat
  /\ addLen \in Nat
  /\ aadBuf \in Seq(Nat)
  /\ aadDone \in BOOLEAN
  /\ partial \in Seq(Nat)
  /\ isEncrypt \in BOOLEAN
  /\ tagLength \in 4 .. 16
  /\ aad \in Seq(Nat)
  /\ fed \in Seq(Nat)
  /\ got \in Seq(TextByte)
  /\ dir \in {"none", "encrypt", "decrypt"}
  /\ breaks \in 0 .. MaxBreaks

(***************************************************************************)
(* The session is Ready exactly when both a key and an IV were accepted,   *)
(* in whichever order and in however many calls, refused ones between them *)
(* included; and while the calls form one message, hash key, counter and   *)
(* tag mask come from the key and IV the session holds now.                *)
(***************************************************************************)
ReadyMeansKeyed ==
  /\ state = "Ready" <=> key # NoKey /\ iv # NoIv
  /\ regular => state = "Ready" /\ start = Message

(***************************************************************************)
(* The text written back over all calls of a message is the counter mode   *)
(* encryption of the text handed over, byte for byte, however the caller   *)
(* split it, and no two bytes share a keystream byte.                      *)
(***************************************************************************)
TextIsCtr == regular => got = Masked(key, Message, 0, fed)

(***************************************************************************)
(* Whenever getTag succeeds on a regular message whose additional data, if *)
(* it has any, are this message's own, the tag is the one SP 800-38D       *)
(* defines: data and text hashed once, in order, padded and measured, by   *)
(* both builds and in both directions.  The tag a decryption is given may  *)
(* be any, that which the session computes included.                       *)
(***************************************************************************)
AadCurrent == aad # <<>> \/ addLen = 0

TagDelivered == ret.op = "get_tag" /\ ret.err = "NONE"

TagIsGcm == regular /\ AadCurrent /\ TagDelivered => ret.tag = GenuineTag

(***************************************************************************)
(* Decryption accepts a regular message if and only if the tag that came   *)
(* with it is its own, whatever messages the session handled before and    *)
(* in whichever direction (the compare of aes_gcm.cc:698-709): neither     *)
(* does a wrong tag pass because the session computes a wrong one too, nor *)
(* is the genuine one refused for that.                                    *)
(***************************************************************************)
OnlyGenuineAccepted ==
  regular /\ AadCurrent /\ dir = "decrypt" /\ ret.op = "get_tag" =>
    /\ ret.err = "NONE" => ret.given = GenuineTag
    /\ ret.err = "TAG_MISMATCH" => ret.given # GenuineTag
=============================================================================
