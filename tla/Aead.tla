--------------------------------- MODULE Aead ---------------------------------
(***************************************************************************)
(* One handle of alcp_cipher_aead_* on AES-CCM, AES-SIV or ChaCha20-       *)
(* Poly1305, or one of alcp_mac_* on Poly1305, the class that the last of  *)
(* the three inherits.  The caller makes any call at any time; the object  *)
(* of the mode chosen at request decides.  AES-GCM has a module of its own. *)
(***************************************************************************)
EXTENDS Ccm, Siv, ChaChaPoly

CONSTANTS
  Keys,           (* keys of the length the handle was requested for       *)
  Ivs,            (* IVs CCM and ChaCha20-Poly1305 accept                  *)
  OtherIv,        (* sixteen bytes that are no tag                         *)
  Aads,           (* additional data of one call                           *)
  Texts,          (* plaintexts, and what a MAC session is updated with    *)
  TagSizes,       (* tag lengths the caller tries, for each kind           *)
  MaxAads,        (* bound: calls of set_aad for one message               *)
  MaxBlocks,      (* bound: blocks in Poly1305's accumulator               *)
  MaxTurns        (* bound for each kind: calls that begin a message,      *)
                  (* fail, or are no part of a proper one                  *)

ASSUME AeadAssumption ==
  /\ NoKey \notin Keys /\ BadKey \notin Keys
  /\ NoIv \notin Ivs /\ BadIv \notin Ivs
  /\ Aads \subseteq Seq(Nat) /\ Texts \subseteq Seq(Nat)
  /\ TagSizes \in [{"ccm", "siv", "chachapoly", "poly1305"} -> SUBSET Nat]
  /\ MaxAads \in Nat /\ MaxBlocks \in Nat
  /\ MaxTurns \in [{"ccm", "siv", "chachapoly", "poly1305"} -> Nat]

VARIABLES
  kind,           (* what was requested                                    *)
  arch,           (* the form of Poly1305: "ref" or "zen4"                 *)
  obj,            (* the object behind the handle                          *)
  ret,            (* what the last call was and returned                   *)
  tag,            (* the tag the last call delivered                       *)
  s,              (* history: the message in progress                      *)
  touched,        (* history: calls may have left something behind for the *)
                  (* next message                                          *)
  burnt,          (* history: CCM failed since an IV was accepted          *)
  sent,           (* history: the last message encrypted                   *)
  turns           (* history: calls counted by MaxTurns                    *)

vars == <<kind, arch, obj, ret, tag, s, touched, burnt, sent, turns>>

Kinds == {"ccm", "siv", "chachapoly", "poly1305"}

\* `on' as long as the calls since init are those of one message, in order;
\* `stale' if init found the handle touched; `aad' the additional data in one.
NoSession ==
  [on |-> FALSE, stale |-> FALSE, key |-> NoKey, iv |-> NoIv,
   aads |-> <<>>, aad |-> <<>>, dir |-> "none", text |-> <<>>, out |-> <<>>,
   taken |-> FALSE]

NothingSent ==
  [some |-> FALSE, key |-> NoKey, iv |-> NoIv, aads |-> <<>>, aad |-> <<>>,
   plain |-> <<>>, text |-> <<>>, len |-> 0, tag |-> SivZero]

New(k) == CASE k = "ccm" -> CcmNew
            [] k = "siv" -> SivNew
            [] k = "chachapoly" -> ChaNew
            [] k = "poly1305" -> PolyNew

Init ==
  /\ kind \in Kinds
  /\ arch \in {"ref", "zen4"}
  /\ kind \in {"ccm", "siv"} => arch = "ref"
  /\ obj = New(kind)
  /\ ret = [op |-> "request", err |-> "NONE", len |-> 0]
  /\ tag = SivZero
  /\ s = NoSession
  /\ touched = FALSE
  /\ burnt = FALSE
  /\ sent = NothingSent
  /\ turns = 0

\* The message owes nothing to the one before: CCM's additional data do, until
\* they are set again.
Proper == s.on /\ (s.stale => kind = "ccm" /\ s.aads # <<>>)

Returned(op, err, n) == ret' = [op |-> op, err |-> err, len |-> n]

-----------------------------------------------------------------------------
InitOf(k, v) == CASE kind = "ccm" -> CcmInit(obj, k, v)
                  [] kind = "siv" -> SivInit(obj, k, v)
                  [] kind = "chachapoly" -> ChaInit(arch, obj, k, v)

\* A call with neither key nor IV never reaches the object.
InitCall(k, v) ==
  LET r == IF k = NoKey /\ v = NoIv THEN Done(obj, "NONE") ELSE InitOf(k, v)
      begins == r.err = "NONE" /\ k \in Keys /\ (v # NoIv \/ kind = "siv")
  IN /\ obj' = r.obj
     /\ s' = IF begins
             THEN [NoSession EXCEPT !.on = TRUE, !.stale = touched, !.key = k,
                                    !.iv = r.obj.iv]
             ELSE NoSession
     /\ burnt' = (burnt /\ ~(r.err = "NONE" /\ v # NoIv))
     /\ Returned("init", r.err, 0)
     /\ tag' = SivZero
     /\ UNCHANGED <<kind, arch, touched, sent>>

\* SIV decrypts with the tag of the encryption, or something else, as its IV.
IvsOfKind == IF kind = "siv" THEN {sent.tag, OtherIv} ELSE Ivs

SetTagLength(n) ==
  LET r == IF kind = "ccm" THEN CcmSetTagLength(obj, n)
           ELSE Done(obj, IF n = SivTagLen THEN "NONE" ELSE "INVALID_SIZE")
  IN /\ obj' = r.obj
     /\ Returned("setTagLength", r.err, 0)
     /\ tag' = SivZero
     /\ UNCHANGED <<kind, arch, s, touched, burnt, sent>>

SetAadOf(a) == CASE kind = "ccm" -> CcmSetAad(obj, a)
                 [] kind = "siv" -> SivSetAad(obj, a)
                 [] kind = "chachapoly" -> ChaSetAad(obj, a)

\* Additional data of no bytes never reach the object.
SetAad(a) ==
  LET r == IF a = <<>> THEN Done(obj, "NONE") ELSE SetAadOf(a)
      more == Len(s.aads) < IF kind = "ccm" THEN 1 ELSE MaxAads
  IN /\ obj' = r.obj
     /\ s' = IF a = <<>> THEN s
             ELSE IF s.on /\ s.dir = "none" /\ r.err = "NONE" /\ more
             THEN [s EXCEPT !.aads = Append(@, a), !.aad = @ \o a]
             ELSE NoSession
     /\ touched' = (touched \/ (a # <<>> /\ r.err = "NONE"))
     /\ Returned("setAad", r.err, 0)
     /\ tag' = SivZero
     /\ UNCHANGED <<kind, arch, burnt, sent>>

CryptOf(d, dir) == CASE kind = "ccm" -> CcmCrypt(obj, d, dir)
                     [] kind = "siv" -> SivCrypt(obj, d, dir)
                     [] kind = "chachapoly" -> ChaCrypt(obj, d, dir)

\* Whether a crypt call leaves something behind; clean if it was the whole of
\* a message that found nothing.
TouchedBy(clean) ==
  CASE kind \in {"ccm", "siv"} -> touched
    [] kind = "chachapoly" /\ arch = "ref" -> ~clean
    [] OTHER -> TRUE

Crypt(d, dir) ==
  LET r == CryptOf(d, dir)
      whole == s.on /\ s.dir = "none" /\ r.err \in {"NONE", "TAG_MISMATCH"}
  IN /\ obj' = r.obj
     /\ s' = IF whole THEN [s EXCEPT !.dir = dir, !.text = d, !.out = r.out]
                      ELSE NoSession
     /\ touched' = TouchedBy(whole /\ ~s.stale)
     /\ burnt' = (burnt \/ (kind = "ccm" /\ r.err = "INVALID_DATA"))
     /\ Returned(dir, r.err, 0)
     /\ tag' = SivZero
     /\ UNCHANGED <<kind, arch, sent>>

GetTagOf(n) == CASE kind = "ccm" -> CcmGetTag(obj, n)
                 [] kind = "siv" -> SivGetTag(obj, n)
                 [] kind = "chachapoly" -> ChaGetTag(arch, obj, n)

GetTag(n) ==
  LET r == GetTagOf(n)
      first == s.on /\ s.dir # "none" /\ ~s.taken
  IN /\ obj' = r.obj
     /\ Returned("getTag", r.err, n)
     /\ IF r.err = "NONE"
        THEN /\ tag' = r.out
             /\ s' = IF first THEN [s EXCEPT !.taken = TRUE] ELSE NoSession
             /\ touched' = (kind # "siv" /\ (touched \/ arch = "zen4"))
             /\ sent' = IF first /\ s.dir = "encrypt" /\ Proper
                        THEN [some |-> TRUE, key |-> s.key, iv |-> s.iv,
                              aads |-> s.aads, aad |-> s.aad,
                              plain |-> s.text, text |-> s.out, len |-> n, tag |-> r.out]
                        ELSE sent
        ELSE tag' = SivZero /\ UNCHANGED <<s, touched, sent>>
     /\ UNCHANGED <<kind, arch, burnt>>

-----------------------------------------------------------------------------
\* The same class behind alcp_mac_*.
MacCalled(op, p, err, t) ==
  /\ obj' = p
  /\ tag' = t
  /\ Returned(op, err, 0)
  /\ UNCHANGED <<kind, arch, burnt, sent>>

MacInit(k) ==
  IF k = BadKey
  THEN MacCalled("macInit", obj, "NOT_SUPPORTED", SivZero) /\ UNCHANGED <<s, touched>>
  ELSE /\ MacCalled("macInit", PolyInit(arch, obj, k), "NONE", SivZero)
       /\ s' = [NoSession EXCEPT !.on = TRUE, !.stale = touched, !.key = k]
       /\ UNCHANGED touched

MacUpdate(d) ==
  IF obj.fin
  THEN MacCalled("macUpdate", obj, "REFUSED", SivZero) /\ UNCHANGED <<s, touched>>
  ELSE /\ MacCalled("macUpdate", PolyUpdate(obj, Raw(d)), "NONE", SivZero)
       /\ s' = IF s.on THEN [s EXCEPT !.text = @ \o d] ELSE s
       /\ touched' = TRUE

\* Only the reference class looks at the length of the digest.
MacFinalize(n) ==
  IF obj.fin \/ (arch = "ref" /\ n # Block)
  THEN MacCalled("macFinalize", obj, "REFUSED", SivZero) /\ UNCHANGED <<s, touched>>
  ELSE /\ MacCalled("macFinalize", PolyFinalized(arch, obj), "NONE", PolyTag(obj))
       /\ touched' = TRUE
       /\ UNCHANGED s

MacReset ==
  /\ MacCalled("macReset", PolyReset(obj), "NONE", SivZero)
  /\ s' = [NoSession EXCEPT !.on = obj.key # NoKey, !.key = obj.key]
  /\ touched' = FALSE

\* The caller goes on with a copy.  On the reference class a copy has no
\* implementation behind it and any further call ends the program.
MacCopy ==
  /\ arch = "zen4"
  /\ MacCalled("macCopy", PolyCopy(obj), "NONE", SivZero)
  /\ s' = NoSession
  /\ touched' = FALSE

-----------------------------------------------------------------------------
Poly == IF kind = "chachapoly" THEN obj.poly ELSE obj

\* Bounds on what grows, and on calls out of order.
GrowthBounded ==
  /\ kind = "siv" => Len(obj.aads) <= MaxAads
  /\ kind \in {"chachapoly", "poly1305"} =>
       Len(Poly.acc) <= MaxBlocks /\ (kind = "chachapoly" => obj.ctr <= 2)

Bounded ==
  /\ turns' = IF Proper' /\ ret'.err = "NONE" /\ ret'.op \notin {"init", "macInit"}
              THEN turns ELSE turns + 1
  /\ turns' <= MaxTurns[kind]
  /\ GrowthBounded'

Plaintexts == {Raw(m) : m \in Texts}

Received == Plaintexts \cup IF sent.some THEN {sent.text} ELSE {}

AeadCall ==
  /\ kind # "poly1305"
  /\ \/ \E k \in Keys \cup {NoKey, BadKey}, v \in IvsOfKind \cup {NoIv, BadIv} :
          InitCall(k, v)
     \/ \E n \in TagSizes[kind] : SetTagLength(n) \/ GetTag(n)
     \/ \E a \in Aads \cup {<<>>} : SetAad(a)
     \/ \E d \in Plaintexts : Crypt(d, "encrypt")
     \/ \E d \in Received : Crypt(d, "decrypt")

MacCall ==
  /\ kind = "poly1305"
  /\ \/ \E k \in Keys \cup {BadKey} : MacInit(k)
     \/ \E d \in Texts : MacUpdate(d)
     \/ \E n \in TagSizes[kind] : MacFinalize(n)
     \/ MacReset
     \/ MacCopy

Next == (AeadCall \/ MacCall) /\ Bounded

Spec == Init /\ [][Next]_vars

-----------------------------------------------------------------------------
Plain == IF s.dir = "encrypt" THEN s.text ELSE s.out

Cipher == IF s.dir = "encrypt" THEN s.out ELSE s.text

\* The tag the algorithm has for the message of the session.
IdealTag ==
  CASE kind = "ccm" ->
         CcmTag(s.key, s.iv, ret.len, s.aad, Plain)
    [] kind = "siv" -> SivTag(s.key, s.aads, Plain)
    [] kind = "chachapoly" -> ChaTag(s.key, s.iv, s.aad, Cipher)
    [] kind = "poly1305" -> PolyMac(s.key, Raw(s.text))

TagDelivered ==
  /\ ret.err = "NONE"
  /\ ret.op = "macFinalize" \/ (ret.op = "getTag" /\ s.taken)

\* A tag delivered for one message, made by calls in order on a handle where
\* nothing of another was left behind, is the algorithm's tag of its key, IV,
\* additional data in all their pieces, and text: and so is a MAC, however the
\* message was cut (aes_ccm.cc:138, chacha20_poly1305.cc:103, aes_cmac_siv.cc:183,
\* poly1305.cc:1269).
TagOfSession == (TagDelivered /\ Proper) => tag = IdealTag

\* Decrypting what was encrypted, under its key, IV and additional data, gives
\* the plaintext and the same tag, and SIV accepts it: whatever the handle was
\* used for in between, refused calls included (aes_cmac_siv.cc:368).  Only SIV
\* tells in which pieces its additional data were set.
RoundTrip ==
  LET again == /\ Proper /\ sent.some /\ s.dir = "decrypt"
               /\ s.text = sent.text /\ s.key = sent.key
               /\ s.iv = IF kind = "siv" THEN sent.tag ELSE sent.iv
      alike == again /\ IF kind = "siv" THEN s.aads = sent.aads
                                        ELSE s.aad = sent.aad
  IN /\ again => s.out = sent.plain
     /\ (alike /\ TagDelivered /\ ret.len = sent.len) => tag = sent.tag
     /\ (alike /\ kind = "siv" /\ ret.op = "decrypt") => ret.err = "NONE"

\* When CCM has failed, neither text nor tag comes out of the handle until it
\* is given another IV: not under another key, not at another tag length
\* (aes_ccm.cc:194).
BurntStaysSilent ==
  burnt => ~(ret.op \in {"encrypt", "decrypt", "getTag"} /\ ret.err = "NONE")
=============================================================================
