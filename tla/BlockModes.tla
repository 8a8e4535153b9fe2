----------------------------- MODULE BlockModes -----------------------------
(***************************************************************************)
(* AesGenericCiphersT (aes_generic.cc): CBC, CFB, CTR and OFB behind one   *)
(* handle, and for CBC and CFB the buffers enciphered side by side.  A     *)
(* call chains from the stored IV, which the kernels replace with the      *)
(* block to go on from when the library is built for several updates,      *)
(* `multi' (OFB's never do); CBC then also keeps the bytes that do not yet *)
(* fill a block.                                                           *)
(***************************************************************************)
EXTENDS BlockCipher, FiniteSets

CONSTANT MaxBuffers    (* MAX_CIPHER_BUFFER_SIZE *)

ASSUME BlockModesAssumption == MaxBuffers \in Nat

IvBlock(v) == [i \in 1 .. Block |-> {<<"iv", v, 0, i>>}]

ZeroBlock == [i \in 1 .. Block |-> {}]

\* The counter block after c.
Counted(c, n) ==
  [i \in 1 .. Block |-> {<<t[1], t[2], t[3] + n, t[4]>> : t \in c[i]}]

GenericNew(multi) ==
  [multi |-> multi, st |-> "Uninitialized", keySet |-> FALSE, key |-> NoKey,
   iv |-> ZeroBlock, ivSet |-> FALSE, part |-> <<>>,
   ivs |-> [j \in 1 .. MaxBuffers |-> ZeroBlock], data |-> <<>>, lens |-> <<>>]

GenericSetIv(o, block) ==
  [o EXCEPT !.iv = block, !.ivSet = TRUE, !.st = OnIvSet(@)]

GenericSetKey(o, k) ==
  [o EXCEPT !.key = k, !.keySet = TRUE, !.st = OnKeySet(@)]

\* The IV is replaced before the key is looked at, and a key alone brings an
\* IV of zeros if there never was one.  The partial block stays.
GenericInit(o, k, v) ==
  LET p == IF v = NoIv THEN o ELSE GenericSetIv(o, IvBlock(v))
      q == GenericSetKey(p, k)
  IN IF v = BadIv THEN Done(o, "INVALID_SIZE")
     ELSE IF k = BadKey THEN Done(p, "INVALID_SIZE")
     ELSE IF k = NoKey THEN Done(p, "NONE")
     ELSE Done(IF q.ivSet THEN q ELSE GenericSetIv(q, ZeroBlock), "NONE")

-----------------------------------------------------------------------------
\* One block x of mode after chaining block c: the text it becomes, and the
\* chaining block after it.  The last may be short; it is filled with zeros.
Chained(out, next) == [out |-> out, next |-> next]

\* OFB's kernel makes the keystream block for a short end of the text and does
\* not use it: those bytes leave as they came.
ModeBlock(mode, dir, key, c, x) ==
  LET short == [i \in 1 .. Block |-> IF i <= Len(x) THEN x[i] ELSE {}]
      mask == Encipher(key, c)
      bare == mode = "ofb" /\ Len(x) < Block
      full == CASE mode = "cbc" /\ dir = "encrypt" -> Encipher(key, Xor(short, c))
                [] mode = "cbc" /\ dir = "decrypt" -> Xor(Decipher(key, short), c)
                [] bare -> short
                [] OTHER -> Xor(short, mask)
  IN Chained(First(full, Len(x)),
             CASE mode = "ctr" -> Counted(c, 1)
               [] mode = "ofb" -> mask
               [] mode \notin {"ctr", "ofb"} /\ dir = "encrypt" -> full
               [] OTHER -> short)

\* The chaining blocks: c, and the one behind each whole block of x.
Chain(mode, dir, key, c, x) ==
  LET at[j \in 0 .. Blocks(x)] ==
        IF j = 0 THEN c ELSE ModeBlock(mode, dir, key, at[j - 1], BlockAt(x, j)).next
  IN at

\* Deciphering, CBC leaves out the bytes after the last block and CFB does not
\* chain from them.  OFB's are in the text as ModeBlock leaves them.
ModeText(mode, dir, key, c, x) ==
  LET m == Blocks(x)
      at == Chain(mode, dir, key, c, x)
      even == Remainder(x) = <<>> \/ (mode = "cbc" /\ dir = "decrypt")
      ys == [j \in 1 .. (IF even THEN m ELSE m + 1) |->
               ModeBlock(mode, dir, key, at[j - 1], Piece(x, j)).out]
  IN Chained(Joined(ys, IF even THEN Block * m ELSE Len(x)),
             IF even \/ (mode = "cfb" /\ dir = "decrypt") THEN at[m]
             ELSE ModeBlock(mode, dir, key, at[m], Remainder(x)).next)

\* What a kernel leaves in the IV it was given.
WrittenBack(multi, mode, c, r) == IF multi /\ mode # "ofb" THEN r.next ELSE c

Kernel(o, mode, dir, x) ==
  LET r == ModeText(mode, dir, o.key, o.iv, x)
  IN Wrote([o EXCEPT !.iv = WrittenBack(o.multi, mode, @, r)], r.out, Len(x))

\* Variant of CbcUpdate: bytes after a completed block are not kept.
CbcUpdateForgets(o, dir, x) ==
  LET all == o.part \o x
      n == Block * Blocks(all)
      r == ModeText("cbc", dir, o.key, o.iv, First(all, n))
  IN Wrote([o EXCEPT !.iv = r.next, !.part = IF n > 0 THEN <<>> ELSE all], r.out, n)

\* CBC in pieces: the partial block and what completes it, the whole blocks,
\* and what is left for the next call.
CbcUpdate(o, dir, x) ==
  LET all == o.part \o x
      n == Block * Blocks(all)
      r == ModeText("cbc", dir, o.key, o.iv, First(all, n))
  IN Wrote([o EXCEPT !.iv = r.next, !.part = Rest(all, n)], r.out, n)

GenericCrypt(o, mode, dir, x) ==
  IF o.st # "Ready" THEN Done(o, "BAD_STATE")
  ELSE IF mode = "cbc" /\ o.multi THEN CbcUpdate(o, dir, x)
  ELSE Kernel(o, mode, dir, x)

\* A new object of the class takes the key and the IV, and nothing else.
GenericCopy(o) ==
  LET p == GenericSetKey(GenericNew(o.multi), o.key)
      q == [p EXCEPT !.keySet = o.keySet]
  IN Done(IF o.ivSet THEN GenericSetIv(q, o.iv) ELSE q, "NONE")

-----------------------------------------------------------------------------
\* vs has NoIv for a null pointer: the IVs before it are already replaced, and
\* the key.
MultibufferInit(o, k, vs) ==
  LET p == IF k = NoKey THEN o ELSE GenericSetKey(o, k)
      valid == {n \in 0 .. Len(vs) : \A j \in 1 .. n : vs[j] # NoIv}
      taken == CHOOSE n \in valid : \A m \in valid : m <= n
      q == [p EXCEPT !.ivs = [j \in 1 .. MaxBuffers |->
                                IF j <= taken THEN IvBlock(vs[j]) ELSE @[j]]]
  IN IF Len(vs) \notin 1 .. MaxBuffers THEN Done(o, "INVALID_ARG")
     ELSE IF k = BadKey THEN Done(o, "INVALID_SIZE")
     ELSE IF taken < Len(vs) THEN Done(q, "INVALID_ARG")
     ELSE Done(GenericSetIv(q, IvBlock(vs[1])), "NONE")

\* The texts are the caller's, and stay where they are.
Flush(o, texts, lens) ==
  IF Len(lens) > MaxBuffers THEN Done(o, "INVALID_ARG")
  ELSE Done([o EXCEPT !.data = texts, !.lens = lens], "NONE")

\* Variant of StepBuffer: without the offset.
StepBufferFromStart(o, mode, j, b, n) ==
  LET r == ModeText(mode, "encrypt", o.key, b.iv, SubSeq(o.data[j], 1, n))
  IN [iv |-> WrittenBack(o.multi, mode, b.iv, r), off |-> b.off + n, out |-> b.out \o r.out]

\* The next n bytes of buffer j, which has come as far as b.
StepBuffer(o, mode, j, b, n) ==
  LET r == ModeText(mode, "encrypt", o.key, b.iv, SubSeq(o.data[j], b.off + 1, b.off + n))
  IN [iv |-> WrittenBack(o.multi, mode, b.iv, r), off |-> b.off + n, out |-> b.out \o r.out]

\* The next n bytes of the active buffers, each in a lane of its own.
StepBuffers(o, mode, q, active, n) ==
  [j \in DOMAIN q |-> IF j \in active THEN StepBuffer(o, mode, j, q[j], n) ELSE q[j]]

\* The least that is left of any active buffer, in whole blocks.
MinLen(q, active, lens) ==
  LET left == {lens[j] - q[j].off : j \in active}
      least == CHOOSE l \in left : \A m \in left : l <= m
  IN Block * (least \div Block)

\* One round of the loop over more than two active buffers; a round without a
\* whole block ends it.
MinLenRound(o, mode, lens, a) ==
  IF Cardinality(a.active) <= 2 \/ MinLen(a.q, a.active, lens) = 0 THEN a
  ELSE LET q == StepBuffers(o, mode, a.q, a.active, MinLen(a.q, a.active, lens))
       IN [q |-> q, active |-> {j \in a.active : q[j].off < lens[j]}]

\* The buffers after each round, from the first byte of all of them.  No round
\* is without end: each finishes a buffer or leaves one with less than a block.
Rounds(o, mode, lens, q) ==
  LET after[i \in 0 .. Len(lens)] ==
        IF i = 0 THEN [q |-> q, active |-> 1 .. Len(lens)]
        ELSE MinLenRound(o, mode, lens, after[i - 1])
  IN after

\* Whole blocks of the two buffers or the one that the loop leaves.
LastTwo(o, mode, lens, a) ==
  IF Cardinality(a.active) \in 1 .. 2
  THEN StepBuffers(o, mode, a.q, a.active, MinLen(a.q, a.active, lens))
  ELSE a.q

\* What is left of every buffer.
Tails(o, mode, lens, q) ==
  [j \in DOMAIN q |-> IF lens[j] > q[j].off
                      THEN StepBuffer(o, mode, j, q[j], lens[j] - q[j].off) ELSE q[j]]

\* Zen4 takes the active buffers together, block by block; before it, each is
\* done from the first byte to the last.
Dequeue(o, arch, mode, lens) ==
  LET n == Len(lens)
      start == [j \in 1 .. n |-> [iv |-> o.ivs[j], off |-> 0, out |-> <<>>]]
      q == Tails(o, mode, lens,
                 IF arch = "zen4"
                 THEN LastTwo(o, mode, lens, Rounds(o, mode, lens, start)[n]) ELSE start)
  IN IF ~o.keySet THEN Done(o, "BAD_STATE")
     ELSE IF arch = "zen4" /\ n > MaxBuffers THEN Done(o, "INVALID_ARG")
     ELSE Wrote([o EXCEPT !.ivs = [j \in 1 .. MaxBuffers |-> IF j <= n THEN q[j].iv ELSE @[j]]],
                [j \in 1 .. n |-> q[j].out], 0)
=============================================================================
