---------------------------- MODULE CipherSession ----------------------------
(***************************************************************************)
(* One handle of alcp_cipher_*, on XTS, CBC, CFB, CTR or OFB, or one of     *)
(* alcp_cipher_segment_*, on XTS.  The caller makes any call at any time;  *)
(* the object of the mode chosen at request decides.                       *)
(***************************************************************************)
EXTENDS Xts, BlockModes

CONSTANTS
  Kinds,          (* what handles are requested for                        *)
  Builds,         (* for each kind, whether AES_MULTI_UPDATE is defined    *)
                  (* (ALCP_ENABLE_CIPHER_MULTI_UPDATE, off by default)     *)
  Ivs,            (* IVs of the length of a block                          *)
  Texts,          (* texts of one call                                     *)
  Batches,        (* lists of texts for the buffers side by side           *)
  MaxStart,       (* bound: the block a segment begins at                  *)
  MaxText,        (* bound: bytes of a message                             *)
  MaxTurns        (* bound for each kind: calls that begin a message, seek, *)
                  (* fail, or are no part of a proper one                  *)

ASSUME SessionAssumption ==
  /\ Kinds \subseteq {"xts", "segment", "cbc", "cfb", "ctr", "ofb"}
  /\ NoKey \notin Keys /\ BadKey \notin Keys
  /\ NoIv \notin Ivs /\ BadIv \notin Ivs
  /\ Texts \subseteq Seq(Nat) /\ <<>> \notin Texts
  /\ Batches \subseteq Seq(Seq(Nat))
  /\ MaxStart \in Nat /\ MaxText \in Nat
  /\ Builds \in [Kinds -> SUBSET BOOLEAN]
  /\ MaxTurns \in [Kinds -> Nat]

VARIABLES
  kind,           (* what was requested                                    *)
  arch,           (* the kernels: "zen" or "zen4"                          *)
  obj,            (* the object behind the handle                          *)
  last,           (* what the last call was and returned                   *)
  s,              (* history: the message in progress                      *)
  mb,             (* history: the messages in the buffers side by side     *)
  turns           (* history: calls counted by MaxTurns                    *)

cipherVars == <<kind, arch, obj, last, s, mb, turns>>

\* `on' as long as the calls since init are those of one message, in order;
\* `whole' if it can go on: no call has ended within a block.
NoSession ==
  [on |-> FALSE, whole |-> TRUE, key |-> NoKey, iv |-> NoIv, start |-> 0,
   dir |-> "none", text |-> <<>>, out |-> <<>>]

NoBatch ==
  [on |-> FALSE, key |-> NoKey, ivs |-> <<>>, texts |-> <<>>, outs |-> <<>>]

IsXts == kind \in {"xts", "segment"}

IsMulti == kind \in {"cbc", "cfb"}

\* Whether a call goes on from the last one's end.
Streams == obj.multi /\ kind # "ofb"

CipherInit ==
  /\ kind \in Kinds
  /\ arch \in {"zen", "zen4"}
  /\ ~IsMulti => arch = "zen"
  /\ \E multi \in Builds[kind] : obj = IF IsXts THEN XtsNew(multi) ELSE GenericNew(multi)
  /\ last = [op |-> "request", err |-> "NONE", outlen |-> 0]
  /\ s = NoSession
  /\ mb = NoBatch
  /\ turns = 0

LastWas(op, r) == last' = [op |-> op, err |-> r.err, outlen |-> r.outlen]

\* A message under key k and IV v, unless CBC still holds bytes of another.
Begun(k, v, o) ==
  IF k \in Keys /\ v \in Ivs /\ (IsXts \/ o.part = <<>>)
  THEN [NoSession EXCEPT !.on = TRUE, !.key = k, !.iv = v] ELSE NoSession

-----------------------------------------------------------------------------
\* A call with neither key nor IV never reaches the object.
InitCall(k, v) ==
  \E r \in {IF k = NoKey /\ v = NoIv THEN Done(obj, "INVALID_ARG")
           ELSE IF IsXts THEN XtsInit(obj, k, v) ELSE GenericInit(obj, k, v)} :
     /\ obj' = r.obj
     /\ s' = IF r.obj = obj /\ r.err # "NONE" THEN s
             ELSE IF r.err = "NONE" THEN Begun(k, v, obj) ELSE NoSession
     /\ mb' = IF k \in Keys /\ k # mb.key THEN NoBatch ELSE mb
     /\ LastWas("init", r)
     /\ UNCHANGED <<kind, arch>>

\* The message with the text and the output of one more call.
Continued(x, r, dir) ==
  IF ~(s.on /\ s.whole /\ s.dir \in {"none", dir}) THEN NoSession
  ELSE [s EXCEPT !.dir = dir,
                 !.text = IF Streams THEN @ \o x ELSE x,
                 !.out = IF Streams THEN @ \o r.out ELSE r.out,
                 !.whole = ~Streams \/ kind = "cbc" \/ Remainder(x) = <<>>]

CryptOf(x, dir, drift) ==
  IF kind # "xts" THEN GenericCrypt(obj, kind, dir, x)
  ELSE IF dir = "encrypt" THEN XtsCrypt(obj, x, dir, drift)
  ELSE XtsDecryptT(obj, x, drift)

Crypt(x, dir, drift) ==
  /\ kind # "segment"
  /\ \E r \in {CryptOf(x, dir, drift)} :
        /\ obj' = r.obj
        /\ s' = IF r.err = "NONE" THEN Continued(x, r, dir) ELSE s
        /\ LastWas(dir, r)
  /\ UNCHANGED <<kind, arch, mb>>

\* A segment owes nothing to the call before, but for the drift of one that
\* ended within a block; a seek backwards makes good for that too.
Segment(x, b, dir, drift) ==
  /\ kind = "segment"
  /\ \E r \in {XtsSegment(obj, x, b, dir, drift)} :
        LET sound == s.whole \/ b < obj.id IN
        /\ obj' = r.obj
        /\ s' = IF ~s.on THEN s
                ELSE IF r.err # "NONE" THEN [s EXCEPT !.whole = sound, !.dir = "none"]
                ELSE [s EXCEPT !.dir = IF sound THEN dir ELSE "none",
                               !.whole = sound /\ Remainder(x) = <<>>,
                               !.start = b, !.text = x, !.out = r.out]
        /\ LastWas("segment", r)
  /\ UNCHANGED <<kind, arch, mb>>

\* The caller goes on with a copy; XTS has none to give.
ContextCopy ==
  /\ kind # "segment"
  /\ LET r == IF IsXts THEN Done(obj, "NOT_SUPPORTED") ELSE GenericCopy(obj)
     IN /\ obj' = r.obj
        /\ s' = IF IsXts \/ obj.part = <<>> THEN s ELSE NoSession
        /\ LastWas("copy", r)
  /\ mb' = NoBatch
  /\ UNCHANGED <<kind, arch>>

-----------------------------------------------------------------------------
MultibufferCall(k, vs) ==
  /\ IsMulti
  /\ \E r \in {MultibufferInit(obj, k, vs)} :
        LET same == r.obj = obj IN
        /\ obj' = r.obj
        /\ s' = IF r.err = "NONE" THEN Begun(k, vs[1], obj)
                ELSE IF same THEN s ELSE NoSession
        /\ mb' = IF r.err = "NONE" /\ k \in Keys
                 THEN [on |-> TRUE, key |-> k, ivs |-> vs,
                       texts |-> [j \in 1 .. Len(vs) |-> <<>>],
                       outs |-> [j \in 1 .. Len(vs) |-> <<>>]]
                 ELSE IF same THEN mb ELSE NoBatch
        /\ LastWas("multibufferInit", r)
  /\ UNCHANGED <<kind, arch>>

FlushCall(xs) ==
  /\ IsMulti
  /\ LET r == Flush(obj, [j \in 1 .. Len(xs) |-> Raw(xs[j])],
                    [j \in 1 .. Len(xs) |-> Len(xs[j])])
     IN obj' = r.obj /\ LastWas("flush", r)
  /\ UNCHANGED <<kind, arch, s, mb>>

\* Without AES_MULTI_UPDATE every part of a buffer begins from its IV: only
\* buffers done in one part come out right, and the next batch begins anew.
InOnePart ==
  arch = "zen" \/ \A j \in 1 .. Len(obj.lens) : /\ obj.lens[j] = obj.lens[1]
                                             /\ obj.lens[j] % Block = 0

\* For the texts the caller has flushed, as long as they are.
DequeueCall ==
  /\ IsMulti
  /\ obj.data # <<>>
  /\ \E r \in {Dequeue(obj, arch, kind, obj.lens)} :
     LET goes_on == \A j \in 1 .. Len(mb.texts) : Remainder(mb.texts[j]) = <<>>
         proper == /\ mb.on /\ Len(obj.data) = Len(mb.ivs)
                   /\ IF Streams THEN goes_on ELSE InOnePart
         Onto(old, new) == [j \in DOMAIN old |-> IF Streams THEN old[j] \o new[j] ELSE new[j]]
     IN /\ obj' = r.obj
        /\ mb' = IF r.err # "NONE" THEN mb
                 ELSE IF ~proper THEN NoBatch
                 ELSE [mb EXCEPT !.texts = Onto(@, obj.data), !.outs = Onto(@, r.out)]
        /\ LastWas("dequeue", r)
  /\ UNCHANGED <<kind, arch, s>>

-----------------------------------------------------------------------------
\* Bounds on the calls and on what grows.
Bounded ==
  /\ turns' = IF /\ last'.err = "NONE" /\ Streams
                 /\ \/ last'.op \in {"encrypt", "decrypt"} /\ s'.on
                    \/ last'.op = "dequeue" /\ mb'.on
              THEN turns ELSE turns + 1
  /\ turns' <= MaxTurns[kind]
  /\ Len(s'.text) <= MaxText
  /\ \A j \in 1 .. Len(mb'.texts) : Len(mb'.texts[j]) <= MaxText

\* No IV at all, a null pointer after the first, and two that alternate.
IvLists ==
  LET pairs == {p \in Ivs \X Ivs : p[1] # p[2]}
  IN {<<>>} \cup (Ivs \X {NoIv}) \cup {<<v>> : v \in Ivs} \cup pairs
       \cup {p \o <<p[1]>> : p \in pairs}

Drifts == IF obj.multi /\ IsXts THEN {-1, 0, 1} ELSE {0}

Directions == {"encrypt", "decrypt"}

Inputs == {Raw(m) : m \in Texts}

\* A call that counts may still be made, or one that goes on with what is on.
MayTurn == turns < MaxTurns[kind]

MayGoOn(on) == MayTurn \/ (Streams /\ on)

CipherNext ==
  /\ \/ /\ MayTurn
        /\ \/ \E k \in Keys \cup {NoKey, BadKey}, v \in Ivs \cup {NoIv, BadIv} : InitCall(k, v)
           \/ ContextCopy
           \/ \E k \in Keys \cup {NoKey, BadKey}, vs \in IvLists : MultibufferCall(k, vs)
           \/ \E xs \in Batches : FlushCall(xs)
           \/ \E x \in Inputs, b \in 0 .. MaxStart, dir \in Directions, drift \in Drifts :
                Segment(x, b, dir, drift)
     \/ /\ MayGoOn(s.on)
        /\ \E x \in Inputs, dir \in Directions, drift \in Drifts : Crypt(x, dir, drift)
     \/ MayGoOn(mb.on) /\ DequeueCall
  /\ Bounded

CipherSpec == CipherInit /\ [][CipherNext]_cipherVars

-----------------------------------------------------------------------------
Before(c, iv, j) == IF j = 1 THEN iv ELSE Piece(c, j - 1)

\* Keystream block j of OFB.
OfbMask(key, iv, j) ==
  LET mask[i \in 0 .. j] == IF i = 0 THEN iv ELSE Encipher(key, mask[i - 1])
  IN mask[j]

\* c is p enciphered in mode, all of it at once: by what the standard says of
\* each block, and no order in which they are made.  Of CBC and OFB it says no
\* more than the whole blocks.
Relates(mode, key, iv, p, c) ==
  CASE mode = "cbc" ->
         \A j \in 1 .. Blocks(c) :
           BlockAt(c, j) = Encipher(key, Xor(BlockAt(p, j), Before(c, iv, j)))
    [] mode = "cfb" ->
         \A j \in Pieces(c) :
           Piece(c, j) = Xor(Piece(p, j), Encipher(key, Before(c, iv, j)))
    [] mode = "ctr" ->
         \A j \in Pieces(c) :
           Piece(c, j) = Xor(Piece(p, j), Encipher(key, Counted(iv, j - 1)))
    [] mode = "ofb" ->
         \A j \in 1 .. Blocks(c) : BlockAt(c, j) = Xor(BlockAt(p, j), OfbMask(key, iv, j))

Xex(key, iv, n, x) ==
  LET w == TweakBlock([key |-> key, iv |-> iv, n |-> n])
  IN Xor(Encipher(key, Xor(x, w)), w)

\* c is p enciphered in XTS, its first block being block n of the data unit.
XtsRelates(key, iv, n, p, c) ==
  LET m == Blocks(p)
      r == Len(p) - Block * m
      tail == Xex(key, iv, n + m - 1, BlockAt(p, m))
  IN /\ Len(c) = Len(p)
     /\ \A j \in 1 .. (m - 1) : BlockAt(c, j) = Xex(key, iv, n + j - 1, BlockAt(p, j))
     /\ IF r = 0 THEN BlockAt(c, m) = tail
        ELSE /\ Remainder(c) = First(tail, r)
             /\ BlockAt(c, m) = Xex(key, iv, n + m, Remainder(p) \o Rest(tail, r))

Plain == IF s.dir = "encrypt" THEN s.text ELSE s.out

Coded == IF s.dir = "encrypt" THEN s.out ELSE s.text

\* However a message is cut into calls, and whatever calls were refused in
\* between, its text is the mode's under the key and IV it was begun with, as
\* of one call (aes_generic.cc:566, 706, aes_xts.cc:165): a copied handle goes
\* on with it.  CBC gives out whole blocks, and keeps less than one; in the default
\* build each call is a message, and deciphering leaves out the rest.
StreamIsMode ==
  (s.on /\ s.dir # "none" /\ kind # "segment") =>
    /\ IF kind = "xts" THEN XtsRelates(s.key, s.iv, 0, Plain, Coded)
       ELSE Relates(kind, s.key, IvBlock(s.iv), Plain, Coded)
    /\ Len(s.out) = IF kind = "cbc" /\ (Streams \/ s.dir = "decrypt")
                    THEN Block * Blocks(s.text) ELSE Len(s.text)

\* "OFB handles any size" (ofb_unit_test.cc:383): each byte of a text, the last ones
\* that do not fill a block too, is masked with its place in the keystream that the
\* kernel makes for it (aesni_ofb.cc:107).
OfbOfAnyLength ==
  (s.on /\ kind = "ofb" /\ s.dir # "none") =>
    \A j \in Pieces(Coded) :
      Piece(Coded, j) = Xor(Piece(Plain, j), OfbMask(s.key, IvBlock(s.iv), j))

\* "Start block number of given plaintext" (cipher_segment.h:105): a segment's
\* text is XTS's from the block the caller named, in whatever order segments are
\* asked for, overlapping, skipping or going back, after refused ones too.
SegmentInPlace ==
  (s.on /\ kind = "segment" /\ s.dir # "none") =>
    XtsRelates(s.key, s.iv, s.start, Plain, Coded)

\* The buffers done side by side, of whatever lengths, and over several batches,
\* are each the mode's own encipherment under the IV the buffer was given
\* (aes_generic.cc:226), whatever is done with the single text in between.
DequeueIsMode ==
  mb.on =>
    \A j \in 1 .. Len(mb.texts) :
      /\ Len(mb.outs[j]) = Len(mb.texts[j])
      /\ Relates(kind, mb.key, IvBlock(mb.ivs[j]), mb.texts[j], mb.outs[j])
=============================================================================
