----------------------------- MODULE BlockCipher -----------------------------
(***************************************************************************)
(* The block cipher under the AES modes, and what their classes share.  A  *)
(* byte is the set of the terms it is the sum of, so that the exclusive or  *)
(* is the symmetric difference and zero is the empty set; a block that the  *)
(* cipher has enciphered is deciphered, under the same key, to what it was, *)
(* and anything else to something new.                                     *)
(***************************************************************************)
EXTENDS Aes, Integers, Sequences

CONSTANTS
  BadKey,         (* a key of a length the class refuses                   *)
  NoIv,           (* a null IV, and the zeros of an object without one     *)
  BadIv           (* an IV of a length the class refuses                   *)

ASSUME BlockCipherAssumption ==
  /\ Block \in Nat /\ Block > 1
  /\ NoKey # BadKey /\ NoIv # BadIv

Raw(m) == [i \in 1 .. Len(m) |-> {<<"raw", m[i]>>}]

XorByte(a, b) == (a \ b) \cup (b \ a)

\* The sum of x and the first bytes of y.
Xor(x, y) == [i \in 1 .. Len(x) |-> XorByte(x[i], y[i])]

Image(name, key, x) == [i \in 1 .. Block |-> {<<name, key, x, i>>}]

\* What x is the image of under name and key, if it is one.
Preimages(name, key, x) ==
  {t[3] : t \in {u \in x[1] : u[1] = name /\ x = Image(name, u[2], u[3]) /\ u[2] = key}}

Cipher(name, inverse, key, x) ==
  LET of == Preimages(inverse, key, x)
  IN IF of # {} THEN CHOOSE y \in of : TRUE ELSE Image(name, key, x)

Encipher(key, x) == Cipher("enc", "dec", key, x)

Decipher(key, x) == Cipher("dec", "enc", key, x)

Blocks(x) == Len(x) \div Block

BlockAt(x, j) == SubSeq(x, Block * (j - 1) + 1, Block * j)

First(x, n) == SubSeq(x, 1, n)

Rest(x, n) == SubSeq(x, n + 1, Len(x))

\* The bytes after the last whole block.
Remainder(x) == Rest(x, Block * Blocks(x))

\* Block j, or what there is of it, and the places of all of them.
Piece(x, j) == SubSeq(x, Block * (j - 1) + 1, IF Block * j < Len(x) THEN Block * j ELSE Len(x))

Pieces(x) == 1 .. ((Len(x) + Block - 1) \div Block)

\* The first n bytes of the blocks f, one behind the other.
Joined(f, n) == [i \in 1 .. n |-> f[(i - 1) \div Block + 1][((i - 1) % Block) + 1]]

-----------------------------------------------------------------------------
\* StateManager, as far as these classes go.
OnKeySet(st) == IF st \in {"IvSet", "Ready"} THEN "Ready" ELSE "KeySet"

OnIvSet(st) == IF st \in {"KeySet", "Ready"} THEN "Ready" ELSE "IvSet"

\* What a call leaves in the object, returns, and writes.
Done(o, err) == [obj |-> o, err |-> err, out |-> <<>>, outlen |-> 0]

Wrote(o, out, n) == [obj |-> o, err |-> "NONE", out |-> out, outlen |-> n]
=============================================================================
