------------------------------- MODULE Poly1305 -------------------------------
(***************************************************************************)
(* alcp::mac::poly1305::Poly1305 in its two forms: Poly1305Ref, and the    *)
(* radix-44 state of the Zen4 kernels.  Every call is a function from the  *)
(* object to what it leaves in it.                                         *)
(*                                                                         *)
(* The accumulator is the sequence of blocks it has absorbed, each with    *)
(* the r that multiplied what was there before it; nothing (NoKey)         *)
(* multiplies an accumulator of zero.  The eight lanes of the Zen4 kernels *)
(* (`fold') hold the same polynomial and are not told apart.               *)
(***************************************************************************)
EXTENDS CipherBytes

CONSTANT
  Block           (* bytes of a block: 16                                  *)

ASSUME PolyAssumption == Block \in Nat \ {0}

\* What the digest leaves in the accumulator: no sum of a message's blocks.
Spent == <<[blk |-> Raw(<<-1>>), r |-> NoKey]>>

PolyNew == [acc |-> <<>>, key |-> NoKey, buf |-> <<>>, fin |-> FALSE]

\* Variant of PolyInit: the reference class keeps its accumulator too.
PolyInitKeeps(arch, p, k) == [p EXCEPT !.key = k, !.fin = FALSE]

\* A new key.  The reference class zeroes the accumulator and not the length
\* of its buffer, the Zen4 kernel neither.
PolyInit(arch, p, k) ==
  [p EXCEPT !.key = k, !.fin = FALSE,
            !.acc = IF arch = "ref" THEN <<>> ELSE @]

Absorb(acc, k, blocks) ==
  acc \o [i \in DOMAIN blocks |->
           [blk |-> blocks[i], r |-> IF acc = <<>> /\ i = 1 THEN NoKey ELSE k]]

\* Variant of PolyUpdate: bytes that fill the buffer are not waited for.
PolyUpdateEager(p, d) ==
  LET n == Len(d) \div Block
      blocks == [i \in 1 .. n |-> SubSeq(d, (i - 1) * Block + 1, i * Block)]
  IN [p EXCEPT !.acc = Absorb(@, p.key, blocks),
               !.buf = SubSeq(d, n * Block + 1, Len(d))]

\* Whole blocks are absorbed, the rest waits in the buffer.  Refused when the
\* digest has been taken.
PolyUpdate(p, d) ==
  LET all == p.buf \o d
      n == Len(all) \div Block
      blocks == [i \in 1 .. n |-> SubSeq(all, (i - 1) * Block + 1, i * Block)]
  IN [p EXCEPT !.acc = Absorb(@, p.key, blocks),
               !.buf = SubSeq(all, n * Block + 1, Len(all))]

\* A last block that is short is padded by the class; its length shows it.
LastBlock(p) == IF p.buf = <<>> THEN <<>> ELSE <<p.buf>>

PolyTag(p) == [acc |-> Absorb(p.acc, p.key, LastBlock(p)), key |-> p.key]

\* Only the Zen4 kernel empties the buffer.
PolyFinalized(arch, p) ==
  [p EXCEPT !.acc = Spent, !.fin = TRUE,
            !.buf = IF arch = "zen4" THEN <<>> ELSE @]

\* Variant of PolyReset: the length of the buffer is kept.
PolyResetKeeps(p) == [p EXCEPT !.acc = <<>>, !.fin = FALSE]

PolyReset(p) == [p EXCEPT !.acc = <<>>, !.buf = <<>>, !.fin = FALSE]

\* The copy constructor copies nothing.
PolyCopy(p) == PolyNew

\* The Poly1305 code of a message: what a fresh object makes of it at once.
PolyMac(k, m) ==
  LET n == (Len(m) + Block - 1) \div Block
      end(i) == IF i * Block < Len(m) THEN i * Block ELSE Len(m)
  IN [acc |-> [i \in 1 .. n |->
                [blk |-> SubSeq(m, (i - 1) * Block + 1, end(i)),
                 r |-> IF i = 1 THEN NoKey ELSE k]],
      key |-> k]
=============================================================================
