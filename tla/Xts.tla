--------------------------------- MODULE Xts ---------------------------------
(***************************************************************************)
(* The XTS classes (aes_xts.cc): XtsT, whose calls go on where the last one *)
(* ended, and XtsBlockT, whose caller names the block to begin at.  The    *)
(* tweak of block n is <<key, iv, n>>: the IV enciphered under the second   *)
(* key, times alpha to the n.  The class keeps the block number it believes *)
(* the stored tweak to be for; `multi' is whether the library was built with *)
(* AES_MULTI_UPDATE.                                                       *)
(***************************************************************************)
EXTENDS BlockCipher

CONSTANT XtsMaxLen     (* the longest text of one call *)

ASSUME XtsAssumption == XtsMaxLen \in Nat

XtsNew(multi) ==
  [multi |-> multi, st |-> "Uninitialized", key |-> NoKey, iv |-> NoIv,
   tweak |-> [key |-> NoKey, iv |-> NoIv, n |-> 0], id |-> -1]

\* InitializeTweakBlock: with the tweak keys as they stand.
TweakOf(o, v) == [key |-> o.key, iv |-> v, n |-> 0]

XtsSetIv(o, v) == [o EXCEPT !.iv = v, !.tweak = TweakOf(o, v), !.id = 0]

\* The key is replaced before the IV is looked at.  BadIv is an IV of a wrong length,
\* or none where a length was given: the latter's error is another (aes_xts.cc:82).
XtsInit(o, k, v) ==
  LET p == IF k = NoKey THEN o ELSE [o EXCEPT !.key = k, !.st = OnKeySet(@)]
      q == XtsSetIv(p, v)
  IN IF k = BadKey THEN Done(o, "INVALID_SIZE")
     ELSE IF v = BadIv THEN Done(p, "INVALID_SIZE")
     ELSE IF v = NoIv THEN Done(p, "NONE")
     ELSE Done([q EXCEPT !.st = OnIvSet(@)], "NONE")

\* Variant of TweakBlockSet: going back starts from the tweak as it stands.
TweakBlockSetOnTop(o, b) ==
  [o EXCEPT !.tweak.n = @ + IF b < o.id THEN b ELSE b - o.id, !.id = b]

\* Block b is to be next: the tweak is moved on from the block it is believed
\* to be for, or made anew and moved on from the first.
TweakBlockSet(o, b) ==
  LET p == IF b < o.id THEN [o EXCEPT !.tweak = TweakOf(o, o.iv)] ELSE o
      inc == IF b < o.id THEN b ELSE b - o.id
  IN [p EXCEPT !.tweak.n = @ + inc, !.id = b]

-----------------------------------------------------------------------------
TweakBlock(t) ==
  [i \in 1 .. Block |-> {<<"tweak", t.key, t.iv, t.n, i>>}]

\* One block under tweak t, n blocks on.
XexBlock(key, t, n, x, dir) ==
  LET w == TweakBlock([t EXCEPT !.n = @ + n])
      y == Xor(x, w)
  IN Xor(IF dir = "encrypt" THEN Encipher(key, y) ELSE Decipher(key, y), w)

\* The last whole block and the bytes after it change places; deciphering,
\* their tweaks do.
StealFrom(key, t, x, dir) ==
  LET m == Blocks(x)
      r == Len(x) - Block * m
      back == IF dir = "encrypt" THEN 1 ELSE 0
      y == XexBlock(key, t, m - back, BlockAt(x, m), dir)
      z == XexBlock(key, t, m - (1 - back), Remainder(x) \o Rest(y, r), dir)
  IN z \o First(y, r)

\* EncryptXtsKernel and DecryptXtsKernel.
XtsText(key, t, x, dir) ==
  LET m == Blocks(x)
      whole == IF Remainder(x) = <<>> THEN m ELSE m - 1
      ys == [j \in 1 .. whole |-> XexBlock(key, t, j - 1, BlockAt(x, j), dir)]
  IN Joined(ys, Block * whole) \o IF whole = m THEN <<>> ELSE StealFrom(key, t, x, dir)

\* The block number moves on in every build, the stored tweak only where the
\* kernel writes it back; after stolen bytes the kernels leave one a block off,
\* each in its way (`drift').
XtsCrypt(o, x, dir, drift) ==
  LET m == Blocks(x)
      p == [o EXCEPT !.id = @ + m,
                     !.tweak.n = IF ~o.multi THEN @
                                 ELSE @ + m + IF Remainder(x) = <<>> THEN 0 ELSE drift]
  IN IF o.st # "Ready" THEN Done(o, "BAD_STATE")
     ELSE IF Len(x) < Block \/ Len(x) > XtsMaxLen THEN Done(o, "INVALID_DATA")
     ELSE Wrote(p, XtsText(o.key, o.tweak, x, dir), Len(x))

\* XtsT::decrypt never sets the length it returns.
XtsDecryptT(o, x, drift) ==
  [XtsCrypt(o, x, "decrypt", drift) EXCEPT !.outlen = 0]

\* The tweak is moved before the state and the length are looked at.
XtsSegment(o, x, b, dir, drift) == XtsCrypt(TweakBlockSet(o, b), x, dir, drift)
=============================================================================
