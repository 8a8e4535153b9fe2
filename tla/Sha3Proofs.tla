----------------------------- MODULE Sha3Proofs -----------------------------
(***************************************************************************)
(* Proofs about Sha3 for every block size, any number of sessions and any  *)
(* bounds.  What carries them: absorbing in pieces is absorbing the whole, *)
(* provided the pieces end at blocks; and output read from place x of the  *)
(* state after T further permutations is output from byte Block * T + x.   *)
(***************************************************************************)
EXTENDS Sha3, SequenceTheorems, TLAPS

BlockBytes == [1 .. Block -> Byte]

Output == [sponge : Blocks, at : 0 .. (Block - 1)]

Session ==
  [buf : Seq(Byte), finished : BOOLEAN, squeezing : BOOLEAN, index : 0 .. Block,
   fed : Seq(Byte), given : Seq(Output), mixed : BOOLEAN]

WholePart(m) == SubSeq(m, 1, Block * (Len(m) \div Block))
RestOf(m) == SubSeq(m, Block * (Len(m) \div Block) + 1, Len(m))

\* The state once the message m is padded and absorbed.
Final(m) == Absorbed(<<>>, Standard(m))

\* What a session r knows of the state p it works on.
Good(p, r) ==
  /\ Len(r.buf) < Block
  /\ kind = "sha3" => ~r.squeezing
  /\ ~r.finished /\ ~r.squeezing =>
       p = Absorbed(<<>>, WholePart(r.fed)) /\ r.buf = RestOf(r.fed)
  /\ ~r.mixed /\ ~r.finished /\ ~r.squeezing => r.given = <<>> /\ r.index = 0
  /\ ~r.mixed /\ ~r.finished /\ r.squeezing =>
       \E turns \in Nat :
         p = Turned(Final(r.fed), turns) /\ Len(r.given) = Block * turns + r.index
  /\ ~r.mixed => \A i \in 1 .. Len(r.given) : r.given[i] = OutputOf(r.fed, i)

Typed ==
  /\ kind \in {"sha3", "shake"}
  /\ state \in [Handles -> Blocks]
  /\ s \in [Handles -> Session]
  /\ ret \in Rets

\* Every session works on its own state.
OwnState == \A h \in Handles : flat[h] = h

IInv ==
  /\ Typed
  /\ flat \in [Handles -> Handles] /\ OwnState
  /\ \A h \in Handles : Good(state[h], s[h])

-----------------------------------------------------------------------------
(* Blocks and sequences.                                                   *)

(* Division with remainder, as the C++ operators / and % compute it on     *)
(* unsigned operands.                                                      *)
LEMMA DivMod ==
  ASSUME NEW B \in Nat \ {0}, NEW n \in Nat
  PROVE  /\ n \div B \in Nat
         /\ n % B \in 0 .. (B - 1)
         /\ n = B * (n \div B) + (n % B)
BY SMT

(* A remainder is determined by any representation q*B + r of the number.  *)
LEMMA ModUnique ==
  ASSUME NEW B \in Nat \ {0}, NEW q \in Nat, NEW r \in 0 .. (B - 1)
  PROVE  (B * q + r) % B = r
BY SMT

(* Adding whole blocks does not change how far into a block one is.        *)
LEMMA ModAddBlocks ==
  ASSUME NEW B \in Nat \ {0}, NEW m \in Nat, NEW n \in Nat, m % B = 0
  PROVE  (m + n) % B = n % B
<1> DEFINE q == m \div B
           p == n \div B
           r == n % B
<1>1. q \in Nat /\ p \in Nat /\ r \in 0 .. (B - 1)
  BY DivMod
<1>2. m = B * q
  BY DivMod
<1>3. n = B * p + r
  BY DivMod
<1> HIDE DEF q, p, r
<1>4. m + n = B * (q + p) + r
  BY <1>1, <1>2, <1>3
<1>5. (B * (q + p) + r) % B = r
  BY <1>1, ModUnique
<1>6. QED
  BY <1>4, <1>5 DEF r

(* A multiple of the block size, one block more or less, is a multiple.    *)
LEMMA ModMultiple ==
  ASSUME NEW B \in Nat \ {0}, NEW q \in Nat
  PROVE  (B * q) % B = 0
<1>1. (B * q + 0) % B = 0
  BY ModUnique
<1>2. QED
  BY <1>1

(* Cutting a sequence in two gives two sequences of the expected lengths.  *)
LEMMA CutBounds ==
  ASSUME NEW S, NEW d \in Seq(S), NEW n \in 0 .. Len(d)
  PROVE  /\ SubSeq(d, 1, n) \in Seq(S)
         /\ Len(SubSeq(d, 1, n)) = n
         /\ SubSeq(d, n + 1, Len(d)) \in Seq(S)
         /\ Len(SubSeq(d, n + 1, Len(d))) = Len(d) - n
<1>1. \A i \in 1 .. Len(d) : d[i] \in S
  BY ElementOfSeq
<1>2. Len(d) \in Nat
  BY LenProperties
<1>3. SubSeq(d, 1, n) \in Seq(S) /\ Len(SubSeq(d, 1, n)) = n
  BY <1>1, <1>2, SubSeqProperties
<1>4. /\ SubSeq(d, n + 1, Len(d)) \in Seq(S)
      /\ Len(SubSeq(d, n + 1, Len(d))) = Len(d) - n
  BY <1>1, <1>2, SubSeqProperties
<1>5. QED
  BY <1>3, <1>4

(* The two parts, put together again, are the whole.                       *)
LEMMA CutAndJoin ==
  ASSUME NEW S, NEW d \in Seq(S), NEW n \in 0 .. Len(d)
  PROVE  SubSeq(d, 1, n) \o SubSeq(d, n + 1, Len(d)) = d
<1>1. Len(d) \in Nat
  BY LenProperties
<1>2. 1 \in 1 .. Len(d) + 1 /\ n \in 1 - 1 .. Len(d) /\ Len(d) \in n .. Len(d)
  BY <1>1
<1>3. SubSeq(d, 1, n) \o SubSeq(d, n + 1, Len(d)) = SubSeq(d, 1, Len(d))
  BY <1>2, ConcatAdjacentSubSeq
<1>4. QED
  BY <1>3, SubSeqFull

-----------------------------------------------------------------------------
LEMMA BlockType == Block \in Nat \ {0} /\ Block \in Nat /\ Block >= 1
BY Sha3Assumption

(* Whole blocks more are so many more, and the place in a block the same.  *)
LEMMA DivAddBlocks ==
  ASSUME NEW q \in Nat, NEW n \in Nat
  PROVE  /\ (Block * q + n) \div Block = q + (n \div Block)
         /\ (Block * q + n) % Block = n % Block
<1> DEFINE u == n \div Block
           v == n % Block
           a == (Block * q + n) \div Block
           b == (Block * q + n) % Block
<1>1. u \in Nat /\ v \in 0 .. (Block - 1) /\ n = Block * u + v
  BY BlockType, DivMod
<1>2. Block * q + n \in Nat
  BY BlockType
<1>3. a \in Nat /\ b \in 0 .. (Block - 1) /\ Block * q + n = Block * a + b
  BY <1>2, BlockType, DivMod
<1> HIDE DEF u, v, a, b
<1>4. Block * q + n = Block * (q + u) + v
  BY <1>1, BlockType
<1>5. (Block * (q + u) + v) % Block = v
  BY <1>1, BlockType, ModUnique
<1>6. b = v
  BY <1>4, <1>5 DEF b
<1>7. Block * a = Block * (q + u)
  BY <1>1, <1>3, <1>4, <1>6, BlockType
<1>8. a = q + u
  BY <1>1, <1>3, <1>7, BlockType
<1>9. QED
  BY <1>6, <1>8 DEF a, b, u, v

LEMMA WholeBlocks ==
  ASSUME NEW q \in Nat
  PROVE  Block * q \in Nat /\ (Block * q) % Block = 0
BY BlockType, ModMultiple

(* Less than a block is no whole block.                                    *)
LEMMA BelowBlock ==
  ASSUME NEW n \in Nat, n < Block
  PROVE  n \div Block = 0
<1> DEFINE q == n \div Block
           r == n % Block
<1>1. q \in Nat /\ r \in 0 .. (Block - 1) /\ n = Block * q + r
  BY BlockType, DivMod
<1> HIDE DEF q, r
<1>2. q >= 1 => Block * q >= Block
  BY <1>1, BlockType
<1>3. q = 0
  <2> DEFINE x == Block * q
  <2>1. x \in Nat /\ n = x + r /\ (q >= 1 => x >= Block)
    BY <1>1, <1>2, BlockType
  <2> HIDE DEF x
  <2> QED BY <1>1, <2>1, BlockType
<1> QED BY <1>3 DEF q

(* Length, members and type of Absorbed.                                   *)
LEMMA AbsorbedFacts ==
  ASSUME NEW p \in Blocks, NEW b \in Seq(Byte)
  PROVE  /\ Absorbed(p, b) \in Blocks
         /\ Len(Absorbed(p, b)) = Len(p) + (Len(b) \div Block)
         /\ \A i \in 1 .. Len(p) : Absorbed(p, b)[i] = p[i]
         /\ \A i \in 1 .. (Len(b) \div Block) :
              Absorbed(p, b)[Len(p) + i] = SubSeq(b, Block * (i - 1) + 1, Block * i)
<1> DEFINE n == Len(b) \div Block
           f == [i \in 1 .. n |-> SubSeq(b, Block * (i - 1) + 1, Block * i)]
<1>1. Len(b) \in Nat /\ n \in Nat /\ Block * n <= Len(b)
  <2>1. Len(b) \in Nat
    BY LenProperties
  <2>2. n \in Nat /\ (Len(b) % Block) \in 0 .. (Block - 1) /\ Len(b) = Block * n + (Len(b) % Block)
    BY <2>1, BlockType, DivMod
  <2> HIDE DEF n
  <2>3. Block * n \in Nat
    BY <2>2, BlockType
  <2> QED BY <2>1, <2>2, <2>3, BlockType
<1> HIDE DEF n
<1>2. \A i \in 1 .. n : SubSeq(b, Block * (i - 1) + 1, Block * i) \in BlockBytes
  <2> TAKE i \in 1 .. n
  <2> DEFINE lo == Block * (i - 1)
             hi == Block * i
  <2>1. lo \in Nat /\ hi = lo + Block
    BY BlockType, <1>1
  <2>2. hi <= Block * n
    BY BlockType, <1>1
  <2> HIDE DEF lo, hi
  <2>3. \A j \in 1 .. Len(b) : b[j] \in Byte
    BY ElementOfSeq
  <2>4. lo + 1 \in 1 .. Len(b) + 1 /\ hi \in lo + 1 - 1 .. Len(b) /\ hi <= Len(b) /\ lo + 1 <= hi
    BY <1>1, <2>1, <2>2, BlockType
  <2>5. \A j \in lo + 1 .. hi : b[j] \in Byte
    BY <2>1, <2>3, <2>4, <1>1
  <2>7. /\ SubSeq(b, lo + 1, hi) \in Seq(Byte)
        /\ Len(SubSeq(b, lo + 1, hi)) = IF lo + 1 <= hi THEN hi - (lo + 1) + 1 ELSE 0
    BY <2>1, <2>5, BlockType, SubSeqProperties
  <2>8. Len(SubSeq(b, lo + 1, hi)) = Block
    BY <2>1, <2>4, <2>7, BlockType
  <2>6. SubSeq(b, lo + 1, hi) \in BlockBytes
    BY <2>7, <2>8, LenProperties DEF BlockBytes
  <2> QED BY <2>6 DEF lo, hi
<1>3. f \in Seq(BlockBytes) /\ Len(f) = n
  BY <1>1, <1>2
<1> HIDE DEF f
<1>4. Absorbed(p, b) = p \o f
  BY DEF Absorbed, f, n
<1>5. p \in Seq(BlockBytes)
  BY DEF Blocks, BlockBytes
<1>6. /\ p \o f \in Seq(BlockBytes)
      /\ Len(p \o f) = Len(p) + n
      /\ \A i \in 1 .. Len(p) + n :
           (p \o f)[i] = IF i <= Len(p) THEN p[i] ELSE f[i - Len(p)]
  BY <1>3, <1>5, ConcatProperties
<1>7. Len(p) \in Nat
  BY LenProperties, <1>5
<1>8. \A i \in 1 .. n : f[i] = SubSeq(b, Block * (i - 1) + 1, Block * i)
  BY DEF f
<1>9. \A i \in 1 .. Len(p) : (p \o f)[i] = p[i]
  BY <1>1, <1>6, <1>7
<1>10. \A i \in 1 .. n : (p \o f)[Len(p) + i] = f[i]
  BY <1>1, <1>6, <1>7
<1> QED
  BY <1>4, <1>6, <1>8, <1>9, <1>10 DEF n, Blocks, BlockBytes

(* Less than a block changes nothing.                                      *)
LEMMA AbsorbedNothing ==
  ASSUME NEW p \in Blocks, NEW b \in Seq(Byte), Len(b) < Block
  PROVE  Absorbed(p, b) = p
<1>1. Len(b) \in Nat
  BY LenProperties
<1>2. Len(b) \div Block = 0
  BY <1>1, BelowBlock
<1>3. /\ Absorbed(p, b) \in Blocks
      /\ Len(Absorbed(p, b)) = Len(p) + (Len(b) \div Block)
      /\ \A i \in 1 .. Len(p) : Absorbed(p, b)[i] = p[i]
  BY AbsorbedFacts
<1>4. Len(p) \in Nat /\ p \in Blocks
  BY LenProperties DEF Blocks
<1>5. Len(Absorbed(p, b)) = Len(p)
  BY <1>2, <1>3, <1>4
<1> QED BY <1>3, <1>4, <1>5, SeqEqual DEF Blocks

(* Data cut at a block is absorbed as the whole.                           *)
LEMMA AbsorbedInPieces ==
  ASSUME NEW p \in Blocks, NEW b \in Seq(Byte), NEW c \in Seq(Byte),
         Len(b) % Block = 0
  PROVE  Absorbed(Absorbed(p, b), c) = Absorbed(p, b \o c)
<1> DEFINE q == Len(b) \div Block
           n == Len(c) \div Block
           x == Absorbed(p, b)
           y == Absorbed(x, c)
           z == Absorbed(p, b \o c)
<1>1. /\ Len(b) \in Nat /\ Len(c) \in Nat /\ Len(p) \in Nat
      /\ b \o c \in Seq(Byte) /\ Len(b \o c) = Len(b) + Len(c)
  BY LenProperties, ConcatProperties DEF Blocks
<1>2. q \in Nat /\ Len(b) = Block * q /\ n \in Nat
  <2>1. q \in Nat /\ Len(b) = Block * q + (Len(b) % Block) /\ n \in Nat
    BY <1>1, BlockType, DivMod
  <2> HIDE DEF q, n
  <2> QED BY <2>1, BlockType
<1>3. Len(b \o c) \div Block = q + n
  <2> HIDE DEF q
  <2> QED BY <1>1, <1>2, DivAddBlocks
<1>4. /\ x \in Blocks /\ Len(x) = Len(p) + q
      /\ \A i \in 1 .. Len(p) : x[i] = p[i]
      /\ \A i \in 1 .. q : x[Len(p) + i] = SubSeq(b, Block * (i - 1) + 1, Block * i)
  BY AbsorbedFacts
<1> HIDE DEF x
<1>5. /\ y \in Blocks /\ Len(y) = Len(x) + n
      /\ \A i \in 1 .. Len(x) : y[i] = x[i]
      /\ \A i \in 1 .. n : y[Len(x) + i] = SubSeq(c, Block * (i - 1) + 1, Block * i)
  BY <1>4, AbsorbedFacts
<1>6. /\ z \in Blocks /\ Len(z) = Len(p) + (q + n)
      /\ \A i \in 1 .. Len(p) : z[i] = p[i]
      /\ \A i \in 1 .. q + n :
           z[Len(p) + i] = SubSeq(b \o c, Block * (i - 1) + 1, Block * i)
  <2> DEFINE bc == b \o c
             k == q + n
  <2>1. bc \in Seq(Byte) /\ Len(bc) \div Block = k
    BY <1>1, <1>3
  <2> HIDE DEF bc, k, q, n
  <2>2. /\ Absorbed(p, bc) \in Blocks /\ Len(Absorbed(p, bc)) = Len(p) + k
        /\ \A i \in 1 .. Len(p) : Absorbed(p, bc)[i] = p[i]
        /\ \A i \in 1 .. k :
             Absorbed(p, bc)[Len(p) + i] = SubSeq(bc, Block * (i - 1) + 1, Block * i)
    BY <2>1, AbsorbedFacts
  <2> QED BY <2>2 DEF bc, k
<1> HIDE DEF q, n, y, z
<1>7. \A i \in 1 .. q :
        SubSeq(b \o c, Block * (i - 1) + 1, Block * i) = SubSeq(b, Block * (i - 1) + 1, Block * i)
  <2> TAKE i \in 1 .. q
  <2> DEFINE lo == Block * (i - 1)
             hi == Block * i
  <2>1. lo \in Nat /\ hi = lo + Block /\ hi <= Block * q
    BY <1>2, BlockType
  <2> HIDE DEF lo, hi
  <2>2. SubSeq(b \o c, lo + 1, hi) = SubSeq(b, lo + 1, hi)
    BY <1>1, <1>2, <2>1, BlockType, SubSeqOfConcat1
  <2> QED BY <2>2 DEF lo, hi
<1>8. \A i \in 1 .. n :
        SubSeq(b \o c, Block * ((q + i) - 1) + 1, Block * (q + i))
          = SubSeq(c, Block * (i - 1) + 1, Block * i)
  <2> TAKE i \in 1 .. n
  <2> DEFINE lo == Block * (i - 1)
             hi == Block * i
  <2>0. Block * n <= Len(c)
    <3>1. n \in Nat /\ (Len(c) % Block) \in 0 .. (Block - 1) /\ Len(c) = Block * n + (Len(c) % Block)
      BY <1>1, BlockType, DivMod DEF n
    <3>2. Block * n \in Nat
      BY <3>1, BlockType
    <3> QED BY <3>1, <3>2, <1>1
  <2>1. /\ lo \in Nat /\ hi = lo + Block /\ hi <= Block * n
        /\ Block * ((q + i) - 1) = Len(b) + lo /\ Block * (q + i) = Len(b) + hi
    BY <1>2, BlockType
  <2> HIDE DEF lo, hi
  <2>2. SubSeq(b \o c, Len(b) + lo + 1, Len(b) + hi) = SubSeq(c, lo + 1, hi)
    <3> DEFINE from == Len(b) + lo + 1
               to == Len(b) + hi
    <3>0. hi \in Nat /\ hi <= Len(c) /\ lo + 1 <= hi
      <4> DEFINE top == Block * n
      <4>1. top <= Len(c) /\ hi <= top /\ top \in Nat
        BY <1>2, <2>0, <2>1, BlockType
      <4> HIDE DEF top
      <4> QED BY <1>1, <2>1, <4>1, BlockType
    <3>1. /\ from \in Len(b) + 1 .. Len(b) + Len(c) /\ to \in Len(b) + 1 .. Len(b) + Len(c)
          /\ from - Len(b) = lo + 1 /\ to - Len(b) = hi
      BY ONLY <1>1, <2>1, <3>0
    <3> HIDE DEF from, to
    <3>2. SubSeq(b \o c, from, to) = SubSeq(c, from - Len(b), to - Len(b))
      BY <3>1, SubSeqOfConcat2
    <3> QED BY <3>1, <3>2 DEF from, to
  <2> QED BY <2>1, <2>2 DEF lo, hi
<1>9. Len(x) \in Nat
  BY <1>1, <1>2, <1>4
<1>10. Len(y) = Len(z) /\ Len(y) \in Nat
  BY <1>1, <1>2, <1>4, <1>5, <1>6
<1>11. \A i \in 1 .. Len(y) : y[i] = z[i]
  <2> TAKE i \in 1 .. Len(y)
  <2>1. CASE i \in 1 .. Len(p)
    BY <2>1, <1>1, <1>2, <1>4, <1>5, <1>6
  <2>2. CASE i \in Len(p) + 1 .. Len(p) + q
    <3>1. PICK j \in 1 .. q : i = Len(p) + j
      <4>1. i - Len(p) \in 1 .. q /\ i = Len(p) + (i - Len(p))
        BY <2>2, <1>1, <1>2
      <4> QED BY <4>1
    <3>2. j \in 1 .. q + n /\ i \in 1 .. Len(x)
      BY <3>1, <1>1, <1>2, <1>4
    <3>3. y[i] = x[Len(p) + j] /\ z[i] = z[Len(p) + j]
      BY <3>1, <3>2, <1>5
    <3>4. x[Len(p) + j] = SubSeq(b, Block * (j - 1) + 1, Block * j)
      BY ONLY <1>4, j \in 1 .. q
    <3>5. z[Len(p) + j] = SubSeq(b \o c, Block * (j - 1) + 1, Block * j)
      BY ONLY <1>6, <3>2
    <3>6. SubSeq(b \o c, Block * (j - 1) + 1, Block * j) = SubSeq(b, Block * (j - 1) + 1, Block * j)
      BY ONLY <1>7, j \in 1 .. q
    <3> QED BY ONLY <3>3, <3>4, <3>5, <3>6
  <2>3. CASE i \in Len(p) + q + 1 .. Len(p) + q + n
    <3>1. PICK j \in 1 .. n : i = Len(p) + q + j
      <4>1. i - (Len(p) + q) \in 1 .. n /\ i = Len(p) + q + (i - (Len(p) + q))
        BY <2>3, <1>1, <1>2
      <4> QED BY <4>1
    <3>2. q + j \in 1 .. q + n /\ i = Len(x) + j /\ i = Len(p) + (q + j)
      BY <3>1, <1>1, <1>2, <1>4
    <3>3. y[i] = SubSeq(c, Block * (j - 1) + 1, Block * j)
      BY <3>1, <3>2, <1>5
    <3>4. z[Len(p) + (q + j)] = SubSeq(b \o c, Block * ((q + j) - 1) + 1, Block * (q + j))
      BY <3>2, <1>6
    <3>5. SubSeq(b \o c, Block * ((q + j) - 1) + 1, Block * (q + j))
            = SubSeq(c, Block * (j - 1) + 1, Block * j)
      BY <1>8
    <3>6. z[i] = z[Len(p) + (q + j)]
      BY ONLY <3>2
    <3> QED BY ONLY <3>3, <3>4, <3>5, <3>6
  <2> QED BY <2>1, <2>2, <2>3, <1>1, <1>2, <1>4, <1>5
<1>12. y = z
  BY <1>5, <1>6, <1>10, <1>11, SeqEqual DEF Blocks
<1> QED BY <1>12 DEF x, y, z

-----------------------------------------------------------------------------
LEMMA CutBytes ==
  ASSUME NEW d \in Seq(Byte), NEW n \in 0 .. Len(d)
  PROVE  /\ SubSeq(d, 1, n) \in Seq(Byte) /\ Len(SubSeq(d, 1, n)) = n
         /\ SubSeq(d, n + 1, Len(d)) \in Seq(Byte)
         /\ Len(SubSeq(d, n + 1, Len(d))) = Len(d) - n
         /\ SubSeq(d, 1, n) \o SubSeq(d, n + 1, Len(d)) = d
<1>1. /\ SubSeq(d, 1, n) \in Seq(Byte) /\ Len(SubSeq(d, 1, n)) = n
      /\ SubSeq(d, n + 1, Len(d)) \in Seq(Byte)
      /\ Len(SubSeq(d, n + 1, Len(d))) = Len(d) - n
  BY CutBounds
<1>2. SubSeq(d, 1, n) \o SubSeq(d, n + 1, Len(d)) = d
  BY CutAndJoin
<1> QED BY <1>1, <1>2

(* A message is its whole blocks and less than a block.                    *)
LEMMA Cut ==
  ASSUME NEW m \in Seq(Byte)
  PROVE  /\ WholePart(m) \in Seq(Byte) /\ Len(WholePart(m)) % Block = 0
         /\ Len(WholePart(m)) = Block * (Len(m) \div Block)
         /\ RestOf(m) \in Seq(Byte) /\ Len(RestOf(m)) = Len(m) % Block
         /\ Len(RestOf(m)) < Block
         /\ WholePart(m) \o RestOf(m) = m
<1> DEFINE q == Len(m) \div Block
           r == Len(m) % Block
           n == Block * q
<1>1. Len(m) \in Nat
  BY LenProperties
<1>2. q \in Nat /\ r \in 0 .. (Block - 1) /\ Len(m) = n + r
  BY <1>1, BlockType, DivMod
<1>3. n \in Nat /\ n % Block = 0
  <2>1. q \in Nat
    BY <1>2
  <2> HIDE DEF q
  <2>2. Block * q \in Nat /\ (Block * q) % Block = 0
    BY ONLY <2>1, WholeBlocks
  <2> QED BY <2>2
<1> HIDE DEF q, r
<1>4. WholePart(m) = SubSeq(m, 1, n) /\ RestOf(m) = SubSeq(m, n + 1, Len(m))
  BY DEF WholePart, RestOf, q
<1> HIDE DEF n
<1>5. n \in 0 .. Len(m) /\ Len(m) - n = r
  BY <1>1, <1>2, <1>3, BlockType
<1>6. /\ SubSeq(m, 1, n) \in Seq(Byte) /\ Len(SubSeq(m, 1, n)) = n
      /\ SubSeq(m, n + 1, Len(m)) \in Seq(Byte)
      /\ Len(SubSeq(m, n + 1, Len(m))) = Len(m) - n
      /\ SubSeq(m, 1, n) \o SubSeq(m, n + 1, Len(m)) = m
  BY ONLY m \in Seq(Byte), <1>5, CutBytes
<1>7. /\ WholePart(m) \in Seq(Byte) /\ Len(WholePart(m)) = n
      /\ RestOf(m) \in Seq(Byte) /\ Len(RestOf(m)) = r /\ Len(RestOf(m)) < Block
      /\ WholePart(m) \o RestOf(m) = m
  BY <1>2, <1>4, <1>5, <1>6, BlockType
<1>8. Len(WholePart(m)) % Block = 0
  BY <1>3, <1>7
<1> QED BY ONLY <1>7, <1>8 DEF n, q, r

(* There is one way to cut it.                                             *)
LEMMA CutIsUnique ==
  ASSUME NEW w \in Seq(Byte), NEW r \in Seq(Byte),
         Len(w) % Block = 0, Len(r) < Block
  PROVE  w = WholePart(w \o r) /\ r = RestOf(w \o r)
<1> DEFINE m == w \o r
           q == Len(w) \div Block
<1>1. /\ Len(w) \in Nat /\ Len(r) \in Nat /\ m \in Seq(Byte)
      /\ Len(m) = Len(w) + Len(r)
      /\ \A i \in 1 .. Len(w) + Len(r) :
           m[i] = IF i <= Len(w) THEN w[i] ELSE r[i - Len(w)]
  BY LenProperties, ConcatProperties
<1>2. q \in Nat /\ Len(w) = Block * q
  <2>1. q \in Nat /\ Len(w) = Block * q + (Len(w) % Block)
    BY <1>1, BlockType, DivMod
  <2> HIDE DEF q
  <2> QED BY <2>1, BlockType
<1> HIDE DEF m, q
<1>3. Len(r) \div Block = 0
  BY <1>1, BelowBlock
<1>4. Len(m) \div Block = q
  <2>1. (Block * q + Len(r)) \div Block = q + (Len(r) \div Block)
    BY <1>1, <1>2, DivAddBlocks
  <2> QED BY <1>1, <1>2, <1>3, <2>1
<1>5. Block * (Len(m) \div Block) = Len(w)
  BY <1>2, <1>4
<1>6. /\ WholePart(m) \in Seq(Byte) /\ Len(WholePart(m)) = Len(w)
      /\ RestOf(m) \in Seq(Byte) /\ Len(RestOf(m)) = Len(r)
      /\ WholePart(m) = SubSeq(m, 1, Len(w)) /\ RestOf(m) = SubSeq(m, Len(w) + 1, Len(m))
  <2>1. /\ WholePart(m) \in Seq(Byte) /\ Len(WholePart(m)) = Len(w)
        /\ RestOf(m) \in Seq(Byte) /\ WholePart(m) \o RestOf(m) = m
    BY <1>1, <1>5, Cut
  <2>2. Len(m) = Len(WholePart(m)) + Len(RestOf(m)) /\ Len(RestOf(m)) \in Nat
    BY <2>1, ConcatProperties, LenProperties
  <2> DEFINE k == Block * (Len(m) \div Block)
  <2>3. k = Len(w) /\ WholePart(m) = SubSeq(m, 1, k) /\ RestOf(m) = SubSeq(m, k + 1, Len(m))
    BY <1>5 DEF WholePart, RestOf
  <2> HIDE DEF k
  <2>4. Len(RestOf(m)) = Len(r)
    BY <1>1, <2>1, <2>2
  <2> QED BY <2>1, <2>3, <2>4
<1>7. \A i \in 1 .. Len(w) : WholePart(m)[i] = m[i]
  BY <1>1, <1>6, SubSeqProperties, ElementOfSeq
<1>8. \A i \in 1 .. Len(r) : RestOf(m)[i] = m[Len(w) + i]
  BY <1>1, <1>6
<1>9. \A i \in 1 .. Len(w) : WholePart(m)[i] = w[i]
  BY <1>1, <1>7
<1>10. \A i \in 1 .. Len(r) : RestOf(m)[i] = r[i]
  <2> TAKE i \in 1 .. Len(r)
  <2>1. RestOf(m)[i] = m[Len(w) + i]
    BY <1>8
  <2>2. Len(w) + i \in 1 .. Len(w) + Len(r) /\ ~(Len(w) + i <= Len(w)) /\ (Len(w) + i) - Len(w) = i
    BY <1>1
  <2>3. m[Len(w) + i] = r[(Len(w) + i) - Len(w)]
    BY <1>1, <2>2
  <2> QED BY <2>1, <2>2, <2>3
<1>11. WholePart(m) = w /\ RestOf(m) = r
  BY <1>1, <1>6, <1>9, <1>10, SeqEqual
<1> QED BY <1>11 DEF m

-----------------------------------------------------------------------------
LEMMA SuffixType == Suffix \in {6, 31} /\ Suffix \in Byte /\ Suffix + 128 \in Byte
BY DEF Suffix, Byte

LEMMA JoinThree ==
  ASSUME NEW x \in Seq(Byte), NEW y \in Seq(Byte), NEW z \in Seq(Byte)
  PROVE  (x \o y) \o z = x \o (y \o z)
BY ConcatAssociative

LEMMA JoinByte ==
  \A x, y \in Seq(Byte), e \in Byte :
    (x \o y) \o <<e>> = x \o (y \o <<e>>) /\ y \o <<e>> \in Seq(Byte)
<1> TAKE x, y \in Seq(Byte), e \in Byte
<1> DEFINE t == <<e>>
<1>1. t \in Seq(Byte)
  OBVIOUS
<1> HIDE DEF t
<1>2. (x \o y) \o t = x \o (y \o t) /\ y \o t \in Seq(Byte)
  BY <1>1, JoinThree, ConcatProperties
<1> QED BY <1>2 DEF t

(* finalize pads the bytes that wait as FIPS 202 pads a message that ends  *)
(* with them, also when suffix and last bit meet in one byte.              *)
LEMMA LastBlockPads ==
  ASSUME NEW b \in Seq(Byte), Len(b) < Block
  PROVE  /\ LastBlock(b) \in Seq(Byte) /\ Len(LastBlock(b)) = Block
         /\ LET q == Block - Len(b)
            IN LastBlock(b) = IF q = 1 THEN b \o <<Suffix + 128>>
                              ELSE ((b \o <<Suffix>>) \o Zeros(q - 2)) \o <<128>>
<1> DEFINE n == Len(b)
<1>0. \A i \in 1 .. n : b[i] \in Byte
  BY ElementOfSeq
<1>1. n \in Nat /\ n < Block /\ Block \in Nat /\ \A i \in 1 .. n : b[i] \in Byte
  BY <1>0, LenProperties, BlockType
<1>a. \A x \in Byte : x + 0 = x
  BY DEF Byte
<1>2. LastBlock(b) \in Seq(Byte) /\ Len(LastBlock(b)) = Block
  <2>1. \A i \in 1 .. Block :
          (IF i <= n THEN b[i] ELSE IF i = n + 1 THEN Suffix ELSE 0)
            + (IF i = Block THEN 128 ELSE 0) \in Byte
    <3> TAKE i \in 1 .. Block
    <3>1. CASE i <= n
      <4>1. i # Block /\ b[i] \in Byte /\ b[i] + 0 = b[i]
        BY <3>1, <1>1, <1>a
      <4> QED BY <3>1, <4>1
    <3>2. CASE ~(i <= n)
      <4>1. /\ Suffix + 0 \in Byte /\ Suffix + 128 \in Byte
            /\ 0 + 0 \in Byte /\ 0 + 128 \in Byte
        BY SuffixType, <1>a DEF Byte
      <4> QED BY <3>2, <4>1
    <3> QED BY <3>1, <3>2, <1>1
  <2> QED BY <2>1, <1>1 DEF LastBlock
<1>3. \A i \in 1 .. n : LastBlock(b)[i] = b[i]
  BY <1>1, <1>a DEF LastBlock
<1>4. LastBlock(b)[n + 1] = IF n + 1 = Block THEN Suffix + 128 ELSE Suffix
  BY <1>1, SuffixType DEF LastBlock
<1>5. \A i \in n + 2 .. Block : LastBlock(b)[i] = IF i = Block THEN 128 ELSE 0
  BY <1>1 DEF LastBlock
<1>6. CASE n + 1 = Block
  <2> DEFINE x == b \o <<Suffix + 128>>
  <2>1. <<Suffix + 128>> \in Seq(Byte) /\ Len(<<Suffix + 128>>) = 1
    BY SuffixType
  <2>2. /\ x \in Seq(Byte) /\ Len(x) = n + 1
        /\ \A i \in 1 .. n + 1 : x[i] = IF i <= n THEN b[i] ELSE <<Suffix + 128>>[i - n]
    BY <2>1, ConcatProperties
  <2> HIDE DEF x
  <2>3. \A i \in 1 .. n : x[i] = LastBlock(b)[i]
    BY <1>1, <1>3, <2>2
  <2>4. x[n + 1] = LastBlock(b)[n + 1]
    BY <1>1, <1>4, <1>6, <2>2
  <2>5. \A i \in 1 .. Len(x) : x[i] = LastBlock(b)[i]
    BY <1>1, <2>2, <2>3, <2>4
  <2>6. x = LastBlock(b)
    BY <1>2, <1>6, <2>2, <2>5, SeqEqual
  <2>7. Block - n = 1
    BY <1>1, <1>6
  <2> QED BY <1>2, <2>6, <2>7 DEF x
<1>7. CASE n + 1 # Block
  <2> DEFINE k == (Block - n) - 2
             u == b \o <<Suffix>>
             v == u \o Zeros(k)
             x == v \o <<128>>
  <2>0. k \in Nat /\ n + 2 + k = Block
    BY <1>1, <1>7
  <2>1. <<Suffix>> \in Seq(Byte) /\ Len(<<Suffix>>) = 1 /\ <<Suffix>>[1] = Suffix
    BY SuffixType
  <2> HIDE DEF k
  <2>2. Zeros(k) \in Seq(Byte) /\ Len(Zeros(k)) = k /\ \A i \in 1 .. k : Zeros(k)[i] = 0
    BY <2>0 DEF Zeros, Byte
  <2>3. <<128>> \in Seq(Byte) /\ Len(<<128>>) = 1 /\ <<128>>[1] = 128
    BY DEF Byte
  <2>4. /\ u \in Seq(Byte) /\ Len(u) = n + 1
        /\ \A i \in 1 .. n + 1 : u[i] = IF i <= n THEN b[i] ELSE <<Suffix>>[i - n]
    BY <2>1, ConcatProperties
  <2> HIDE DEF u
  <2>5. /\ v \in Seq(Byte) /\ Len(v) = (n + 1) + k
        /\ \A i \in 1 .. (n + 1) + k : v[i] = IF i <= n + 1 THEN u[i] ELSE Zeros(k)[i - (n + 1)]
    <3> DEFINE z == Zeros(k)
    <3>1. /\ u \o z \in Seq(Byte) /\ Len(u \o z) = Len(u) + Len(z)
          /\ \A i \in 1 .. Len(u) + Len(z) :
               (u \o z)[i] = IF i <= Len(u) THEN u[i] ELSE z[i - Len(u)]
      <4>1. z \in Seq(Byte)
        BY <2>2
      <4> HIDE DEF z
      <4>2. u \in Seq(Byte)
        BY <2>4
      <4> QED BY ONLY <4>1, <4>2, ConcatProperties
    <3> QED BY <2>2, <2>4, <3>1
  <2> HIDE DEF v
  <2>6. /\ x \in Seq(Byte) /\ Len(x) = (n + 1 + k) + 1
        /\ \A i \in 1 .. (n + 1 + k) + 1 :
             x[i] = IF i <= n + 1 + k THEN v[i] ELSE <<128>>[i - (n + 1 + k)]
    BY <2>3, <2>5, <2>0, <1>1, ConcatProperties
  <2> HIDE DEF x
  <2>7. Len(x) = Block
    BY <1>1, <2>0, <2>6
  <2>8. \A i \in 1 .. n : x[i] = LastBlock(b)[i]
    <3> TAKE i \in 1 .. n
    <3>1. x[i] = v[i]
      BY <1>1, <2>0, <2>6
    <3>2. v[i] = u[i]
      BY <1>1, <2>0, <2>5
    <3>3. u[i] = b[i]
      BY <1>1, <2>4
    <3> QED BY <1>3, <3>1, <3>2, <3>3
  <2>9. x[n + 1] = Suffix
    <3>1. u[n + 1] = Suffix
      BY <1>1, <2>1, <2>4
    <3>2. v[n + 1] = u[n + 1]
      BY <1>1, <2>0, <2>5
    <3>3. x[n + 1] = v[n + 1]
      BY <1>1, <2>0, <2>6
    <3> QED BY <3>1, <3>2, <3>3
  <2>10. \A i \in n + 2 .. Block - 1 : x[i] = 0
    <3> TAKE i \in n + 2 .. Block - 1
    <3>1. i - (n + 1) \in 1 .. k /\ i \in 1 .. (n + 1) + k /\ ~(i <= n + 1)
      BY <1>1, <2>0
    <3>2. v[i] = 0
      BY <2>2, <2>5, <3>1
    <3> QED BY <1>1, <2>0, <2>6, <3>1, <3>2
  <2>11. x[Block] = 128
    <3>1. Block \in 1 .. (n + 1 + k) + 1 /\ ~(Block <= n + 1 + k) /\ Block - (n + 1 + k) = 1
      BY <1>1, <2>0
    <3> QED BY <2>3, <2>6, <3>1
  <2>12. \A i \in 1 .. Len(x) : x[i] = LastBlock(b)[i]
    <3> TAKE i \in 1 .. Len(x)
    <3>1. CASE i <= n
      BY <3>1, <1>1, <2>7, <2>8
    <3>2. CASE i = n + 1
      BY <3>2, <1>4, <1>7, <2>9
    <3>3. CASE i \in n + 2 .. Block - 1
      BY <3>3, <1>1, <1>5, <2>10
    <3>4. CASE i = Block
      BY <3>4, <1>1, <1>5, <1>7, <2>11
    <3> QED BY <3>1, <3>2, <3>3, <3>4, <1>1, <2>7
  <2>13. x = LastBlock(b)
    BY <1>2, <2>6, <2>7, <2>12, SeqEqual
  <2>14. Block - n # 1
    BY <1>1, <1>7
  <2> QED BY <1>2, <2>13, <2>14 DEF x, v, u, k
<1> QED BY <1>6, <1>7

(* Closing a message in the buffer absorbs what FIPS 202 says of the whole.*)
LEMMA ClosedIsFinal ==
  ASSUME NEW m \in Seq(Byte)
  PROVE  Absorbed(Absorbed(<<>>, WholePart(m)), LastBlock(RestOf(m))) = Final(m)
<1> DEFINE w == WholePart(m)
           r == RestOf(m)
           q == Block - Len(r)
<1>1. /\ w \in Seq(Byte) /\ Len(w) % Block = 0
      /\ r \in Seq(Byte) /\ Len(r) = Len(m) % Block /\ Len(r) < Block /\ Len(r) \in Nat
      /\ w \o r = m
  BY Cut, LenProperties
<1>2. /\ LastBlock(r) \in Seq(Byte)
      /\ LastBlock(r) = IF q = 1 THEN r \o <<Suffix + 128>>
                        ELSE ((r \o <<Suffix>>) \o Zeros(q - 2)) \o <<128>>
  BY <1>1, LastBlockPads
<1> HIDE DEF w, r
<1>3. q \in Nat /\ q >= 1 /\ q = Block - (Len(m) % Block)
  BY <1>1, BlockType
<1> HIDE DEF q
<1>7. w \in Seq(Byte) /\ r \in Seq(Byte)
  BY <1>1
<1>8. Suffix \in Byte /\ Suffix + 128 \in Byte /\ 128 \in Byte
  BY SuffixType DEF Byte
<1>4. w \o LastBlock(r) = Standard(m)
  <2>1. /\ <<Suffix>> \in Seq(Byte) /\ <<Suffix + 128>> \in Seq(Byte)
        /\ <<128>> \in Seq(Byte)
    BY SuffixType DEF Byte
  <2>2. CASE q = 1
    <3>1. w \o (r \o <<Suffix + 128>>) = m \o <<Suffix + 128>>
      <4>1. (w \o r) \o <<Suffix + 128>> = w \o (r \o <<Suffix + 128>>)
        BY ONLY <1>7, <1>8, JoinByte
      <4> QED BY ONLY <1>1, <4>1
    <3>2. Standard(m) = m \o <<Suffix + 128>>
      BY <2>2, <1>3 DEF Standard
    <3> QED BY <1>2, <2>2, <3>1, <3>2
  <2>3. CASE q # 1
    <3> DEFINE k == q - 2
               z == Zeros(k)
               a == r \o <<Suffix>>
               c == a \o z
    <3>0. k \in Nat
      BY <1>3, <2>3
    <3> HIDE DEF k
    <3>1. z \in Seq(Byte)
      BY <3>0 DEF Zeros, Byte
    <3>2. a \in Seq(Byte) /\ w \o a = m \o <<Suffix>>
      <4>1. /\ r \o <<Suffix>> \in Seq(Byte)
            /\ (w \o r) \o <<Suffix>> = w \o (r \o <<Suffix>>)
        BY ONLY <1>7, <1>8, JoinByte
      <4> QED BY <1>1, <4>1
    <3> HIDE DEF a, z
    <3>3. c \in Seq(Byte) /\ w \o c = (m \o <<Suffix>>) \o z
      <4>1. a \o z \in Seq(Byte)
        BY <3>1, <3>2, ConcatProperties
      <4>2. (w \o a) \o z = w \o (a \o z)
        <5>1. a \in Seq(Byte)
          BY <3>2
        <5>2. w \in Seq(Byte) /\ a \in Seq(Byte) /\ z \in Seq(Byte)
          BY ONLY <1>7, <3>1, <5>1
        <5> HIDE DEF c
        <5> QED BY ONLY <5>2, JoinThree
      <4> QED BY <3>2, <4>1, <4>2
    <3> HIDE DEF c
    <3>4. w \o (c \o <<128>>) = ((m \o <<Suffix>>) \o z) \o <<128>>
      <4>1. (w \o c) \o <<128>> = w \o (c \o <<128>>)
        <5>1. c \in Seq(Byte)
          BY <3>3
        <5> QED BY ONLY <1>7, <1>8, <5>1, JoinByte
      <4> QED BY <3>3, <4>1
    <3>5. Standard(m) = ((m \o <<Suffix>>) \o z) \o <<128>>
      BY <2>3, <1>3 DEF Standard, z, k
    <3>6. LastBlock(r) = c \o <<128>>
      BY <2>3, <1>2 DEF c, a, z, k
    <3> QED BY <3>4, <3>5, <3>6
  <2> QED BY <2>2, <2>3
<1>5. <<>> \in Blocks
  BY EmptySeq DEF Blocks
<1>6. Absorbed(Absorbed(<<>>, w), LastBlock(r)) = Absorbed(<<>>, w \o LastBlock(r))
  <2> DEFINE e == <<>>
             b == LastBlock(r)
  <2>1. e \in Blocks /\ w \in Seq(Byte) /\ b \in Seq(Byte) /\ Len(w) % Block = 0
    BY <1>1, <1>2, <1>5
  <2> HIDE DEF e, b
  <2>2. Absorbed(Absorbed(e, w), b) = Absorbed(e, w \o b)
    BY <2>1, AbsorbedInPieces
  <2> QED BY <2>2 DEF e, b
<1> QED BY <1>4, <1>6 DEF Final, w, r

-----------------------------------------------------------------------------
LEMMA TurnedType ==
  ASSUME NEW p \in Blocks, NEW n \in Nat
  PROVE  Turned(p, n) \in Blocks /\ Turned(p, 0) = p
<1> DEFINE f(k) == [i \in 1 .. k |-> Zeros(Block)]
<1>1. Zeros(Block) \in BlockBytes
  BY BlockType DEF Zeros, BlockBytes, Byte
<1>2. f(n) \in Seq(BlockBytes) /\ f(0) = <<>>
  BY <1>1
<1>3. p \in Seq(BlockBytes)
  BY DEF Blocks, BlockBytes
<1> HIDE DEF f
<1>4. p \o f(n) \in Seq(BlockBytes) /\ p \o <<>> = p
  BY <1>2, <1>3, ConcatProperties, ConcatEmptySeq
<1> QED BY <1>2, <1>4 DEF Turned, f, Blocks, BlockBytes

(* Permutations add up.                                                    *)
LEMMA TurnedTwice ==
  ASSUME NEW p \in Blocks, NEW a \in Nat, NEW b \in Nat
  PROVE  Turned(Turned(p, a), b) = Turned(p, a + b)
<1> DEFINE f(k) == [i \in 1 .. k |-> Zeros(Block)]
<1>1. Zeros(Block) \in BlockBytes
  BY BlockType DEF Zeros, BlockBytes, Byte
<1>2. \A k \in Nat : f(k) \in Seq(BlockBytes) /\ Len(f(k)) = k /\ \A i \in 1 .. k : f(k)[i] = Zeros(Block)
  BY <1>1
<1>3. p \in Seq(BlockBytes)
  BY DEF Blocks, BlockBytes
<1>4. \A k \in Nat, r \in Blocks : Turned(r, k) = r \o f(k)
  BY DEF Turned
<1> HIDE DEF f
<1>5. /\ f(a) \o f(b) \in Seq(BlockBytes) /\ Len(f(a) \o f(b)) = a + b
      /\ \A i \in 1 .. a + b :
           (f(a) \o f(b))[i] = IF i <= a THEN f(a)[i] ELSE f(b)[i - a]
      /\ (p \o f(a)) \o f(b) = p \o (f(a) \o f(b))
  <2> DEFINE y == f(a)
             z == f(b)
  <2>1. y \in Seq(BlockBytes) /\ z \in Seq(BlockBytes) /\ Len(y) = a /\ Len(z) = b
    BY <1>2
  <2> HIDE DEF y, z
  <2>2. /\ y \o z \in Seq(BlockBytes) /\ Len(y \o z) = a + b
        /\ \A i \in 1 .. a + b : (y \o z)[i] = IF i <= a THEN y[i] ELSE z[i - a]
    BY <2>1, ConcatProperties
  <2>3. (p \o y) \o z = p \o (y \o z)
    BY <1>3, <2>1, ConcatAssociative
  <2> QED BY <2>2, <2>3 DEF y, z
<1>6. \A i \in 1 .. a + b : (f(a) \o f(b))[i] = f(a + b)[i]
  <2> TAKE i \in 1 .. a + b
  <2>1. f(a + b)[i] = Zeros(Block)
    BY <1>2
  <2>2. (f(a) \o f(b))[i] = Zeros(Block)
    <3>1. CASE i <= a
      BY <3>1, <1>2, <1>5
    <3>2. CASE ~(i <= a)
      <4>1. i - a \in 1 .. b
        BY <3>2
      <4> QED BY <3>2, <4>1, <1>2, <1>5
    <3> QED BY <3>1, <3>2
  <2> QED BY <2>1, <2>2
<1>7. f(a) \o f(b) = f(a + b)
  <2>1. f(a + b) \in Seq(BlockBytes) /\ Len(f(a + b)) = a + b
    BY <1>2
  <2> QED BY <1>5, <1>6, <2>1, SeqEqual
<1>9. Turned(p, a) \in Blocks
  BY TurnedType
<1>10. Turned(p, a) = p \o f(a) /\ Turned(p, a + b) = p \o f(a + b)
  BY DEF Turned, f
<1>11. Turned(Turned(p, a), b) = Turned(p, a) \o f(b)
  <2> DEFINE r == Turned(p, a)
  <2>1. r \in Blocks
    BY <1>9
  <2> HIDE DEF r
  <2>2. Turned(r, b) = r \o f(b)
    BY <1>4, <2>1
  <2> QED BY <2>2 DEF r
<1> QED BY <1>5, <1>7, <1>10, <1>11

(* The index stays within the block, and with the permutations counts the  *)
(* bytes that were read.                                                   *)
LEMMA IndexCounts ==
  ASSUME NEW x \in 0 .. Block, NEW n \in Nat, n >= 1
  PROVE  /\ Turns(x, n) \in Nat
         /\ IndexAfter(x, n) \in 0 .. Block
         /\ Block * Turns(x, n) + IndexAfter(x, n) = x + n
<1> DEFINE k == x + n - 1
           q == k \div Block
           r == k % Block
           t == Block * q
<1>1. k \in Nat /\ x + n = k + 1
  BY BlockType
<1> HIDE DEF k
<1>2. q \in Nat /\ r \in 0 .. (Block - 1) /\ k = t + r
  BY <1>1, BlockType, DivMod
<1>3. t \in Nat
  BY <1>2, BlockType
<1>4. Turns(x, n) = q /\ IndexAfter(x, n) = x + n - t
  BY DEF Turns, IndexAfter, k
<1> HIDE DEF q, r, t
<1>5. x + n - t = r + 1
  BY <1>1, <1>2, <1>3, BlockType
<1>6. t + (x + n - t) = x + n
  BY <1>1, <1>2, <1>3, BlockType
<1>7. Block * Turns(x, n) = t
  BY <1>4 DEF t
<1> QED BY <1>2, <1>4, <1>5, <1>6, <1>7, BlockType

LEMMA ReadType ==
  ASSUME NEW p \in Blocks, NEW x \in 0 .. Block, NEW n \in Nat
  PROVE  Read(p, x, n) \in Seq(Output) /\ Len(Read(p, x, n)) = n
<1>1. \A i \in 1 .. n : [sponge |-> Turned(p, (x + i - 1) \div Block),
                         at |-> (x + i - 1) % Block] \in Output
  <2> TAKE i \in 1 .. n
  <2>1. x + i - 1 \in Nat
    BY BlockType
  <2>2. (x + i - 1) \div Block \in Nat /\ (x + i - 1) % Block \in 0 .. (Block - 1)
    <3> DEFINE k == x + i - 1
    <3> HIDE DEF k
    <3>1. k \div Block \in Nat /\ k % Block \in 0 .. (Block - 1)
      BY <2>1, BlockType, DivMod DEF k
    <3> QED BY <3>1 DEF k
  <2>3. Turned(p, (x + i - 1) \div Block) \in Blocks
    BY <2>2, TurnedType
  <2> QED BY <2>2, <2>3 DEF Output
<1> DEFINE o(i) == [sponge |-> Turned(p, (x + i - 1) \div Block),
                    at |-> (x + i - 1) % Block]
<1>2. \A i \in 1 .. n : o(i) \in Output
  BY <1>1
<1>3. Read(p, x, n) = [i \in 1 .. n |-> o(i)]
  BY DEF Read
<1> HIDE DEF o
<1>4. [i \in 1 .. n |-> o(i)] \in Seq(Output) /\ Len([i \in 1 .. n |-> o(i)]) = n
  BY <1>2
<1> QED BY <1>3, <1>4

(* What is read on from place x of the state after some permutations is    *)
(* the output from there on.                                               *)
LEMMA ReadContinues ==
  ASSUME NEW m \in Seq(Byte), Final(m) \in Blocks, NEW turns \in Nat,
         NEW x \in 0 .. Block, NEW n \in Nat, NEW i \in 1 .. n
  PROVE  Read(Turned(Final(m), turns), x, n)[i] = OutputOf(m, (Block * turns + x) + i)
<1> DEFINE f == Final(m)
           k == x + i - 1
           u == Block * turns
<1>1. k \in Nat /\ u \in Nat /\ ((u + x) + i) - 1 = u + k
  BY BlockType
<1>2. (u + k) \div Block = turns + (k \div Block) /\ (u + k) % Block = k % Block
      /\ k \div Block \in Nat
  BY <1>1, BlockType, DivAddBlocks, DivMod
<1>3. Turned(Turned(f, turns), k \div Block) = Turned(f, turns + (k \div Block))
  BY <1>2, TurnedTwice
<1>4. Read(Turned(f, turns), x, n)[i] =
        [sponge |-> Turned(Turned(f, turns), k \div Block), at |-> k % Block]
  BY DEF Read
<1>5. OutputOf(m, (u + x) + i) = [sponge |-> Turned(f, (u + k) \div Block), at |-> (u + k) % Block]
  BY <1>1 DEF OutputOf, Final
<1> QED BY <1>2, <1>3, <1>4, <1>5

LEMMA FinalType == \A m \in Seq(Byte) : Final(m) \in Blocks
<1> TAKE m \in Seq(Byte)
<1>1. WholePart(m) \in Seq(Byte) /\ RestOf(m) \in Seq(Byte) /\ Len(RestOf(m)) < Block
  BY Cut
<1>2. LastBlock(RestOf(m)) \in Seq(Byte)
  BY <1>1, LastBlockPads
<1>3. Absorbed(Absorbed(<<>>, WholePart(m)), LastBlock(RestOf(m))) \in Blocks
  <2>1. <<>> \in Blocks
    BY EmptySeq DEF Blocks
  <2> QED BY <1>1, <1>2, <2>1, AbsorbedFacts
<1> QED BY <1>3, ClosedIsFinal

-----------------------------------------------------------------------------
LEMMA BlankGood == Blank \in Session /\ Good(<<>>, Blank)
<1>1. Blank \in Session
  <2>1. <<>> \in Seq(Byte) /\ <<>> \in Seq(Output)
    BY EmptySeq
  <2>2. 0 \in 0 .. Block
    BY BlockType
  <2> QED BY <2>1, <2>2 DEF Blank, Session
<1>2. <<>> \in Seq(Byte) /\ <<>> \in Blocks /\ Len(<<>>) = 0
  BY EmptySeq DEF Blocks
<1>3. WholePart(<<>>) = <<>> /\ RestOf(<<>>) = <<>>
  <2>1. <<>> \o <<>> = <<>>
    BY <1>2, ConcatEmptySeq
  <2>2. (Block * 0) % Block = 0 /\ Block * 0 = 0
    BY WholeBlocks, BlockType
  <2>3. Len(<<>>) % Block = 0 /\ Len(<<>>) < Block
    BY <1>2, <2>2, BlockType
  <2> QED BY <1>2, <2>1, <2>3, CutIsUnique
<1>4. Absorbed(<<>>, <<>>) = <<>>
  <2> DEFINE e == <<>>
  <2>1. e \in Blocks /\ e \in Seq(Byte) /\ Len(e) < Block
    BY <1>2, BlockType
  <2> HIDE DEF e
  <2>2. Absorbed(e, e) = e
    BY <2>1, AbsorbedNothing
  <2> QED BY <2>2 DEF e
<1> QED BY <1>1, <1>2, <1>3, <1>4, BlockType DEF Good, Blank

(* A session that took d and holds what its message leaves over.           *)
LEMMA FedGood ==
  ASSUME NEW p \in Blocks, NEW r \in Session, Good(p, r), ~r.finished,
         NEW d \in Seq(Byte), NEW b \in Seq(Byte), NEW t \in Blocks, Len(b) < Block,
         ~r.squeezing => t = Absorbed(<<>>, WholePart(r.fed \o d)) /\ b = RestOf(r.fed \o d)
  PROVE  Fed(r, d, b) \in Session /\ Good(t, Fed(r, d, b))
<1> DEFINE f == Fed(r, d, b)
<1>1. r.fed \o d \in Seq(Byte)
  BY ConcatProperties DEF Session
<1>2. f \in Session
  BY <1>1 DEF Fed, Session
<1>3. /\ f.buf = b /\ f.fed = r.fed \o d /\ f.given = r.given /\ f.index = r.index
      /\ f.squeezing = r.squeezing /\ f.finished = r.finished
      /\ f.mixed = (r.mixed \/ r.squeezing)
  BY DEF Fed, Session
<1> HIDE DEF f
<1>4. CASE r.squeezing
  <2>1. f.mixed /\ f.squeezing /\ kind # "sha3"
    BY <1>3, <1>4 DEF Good
  <2> QED BY <1>2, <1>3, <2>1 DEF Good, f
<1>5. CASE ~r.squeezing
  <2>1. ~f.squeezing /\ (~f.mixed => ~r.mixed)
    BY <1>3, <1>5
  <2>2. ~r.mixed => f.given = <<>> /\ f.index = 0
    BY <1>3, <1>5 DEF Good
  <2>3. f.given = <<>> => \A i \in 1 .. Len(f.given) : f.given[i] = OutputOf(f.fed, i)
    OBVIOUS
  <2> QED BY <1>2, <1>3, <1>5, <2>1, <2>2, <2>3 DEF Good, f
<1> QED BY <1>4, <1>5

LEMMA BufferedGood ==
  ASSUME NEW p \in Blocks, NEW r \in Session, Good(p, r), ~r.finished,
         NEW d \in Seq(Byte), Len(r.buf) + Len(d) < Block
  PROVE  Fed(r, d, r.buf \o d) \in Session /\ Good(p, Fed(r, d, r.buf \o d))
<1> DEFINE b == r.buf \o d
           w == WholePart(r.fed)
<1>1. r.buf \in Seq(Byte) /\ r.fed \in Seq(Byte)
  BY DEF Session
<1>2. b \in Seq(Byte) /\ Len(b) = Len(r.buf) + Len(d)
  BY <1>1, ConcatProperties
<1>3. w \in Seq(Byte) /\ Len(w) % Block = 0 /\ w \o RestOf(r.fed) = r.fed
  BY <1>1, Cut
<1>4. ASSUME ~r.squeezing
      PROVE  p = Absorbed(<<>>, WholePart(r.fed \o d)) /\ b = RestOf(r.fed \o d)
  <2>1. p = Absorbed(<<>>, w) /\ r.buf = RestOf(r.fed)
    BY <1>4 DEF Good
  <2>2. w \o b = r.fed \o d
    <3>1. (w \o r.buf) \o d = w \o (r.buf \o d)
      BY <1>1, <1>3, JoinThree
    <3> QED BY <1>3, <2>1, <3>1
  <2> HIDE DEF w, b
  <2>3. w = WholePart(w \o b) /\ b = RestOf(w \o b)
    BY <1>2, <1>3, CutIsUnique
  <2> QED BY <2>1, <2>2, <2>3
<1> HIDE DEF b
<1>5. Fed(r, d, b) \in Session /\ Good(p, Fed(r, d, b))
  BY <1>2, <1>4, FedGood
<1> QED BY <1>5 DEF b

\* What update absorbs of d at once, and what it keeps.
Filler(b, d) == SubSeq(d, 1, Fill(b))
Whole(b, d) ==
  SubSeq(d, Fill(b) + 1, Fill(b) + Block * ((Len(d) - Fill(b)) \div Block))
Kept(b, d) ==
  SubSeq(d, Fill(b) + Block * ((Len(d) - Fill(b)) \div Block) + 1, Len(d))

(* It cuts d in three; the first completes the block that waits, if any.   *)
LEMMA ThreeParts ==
  ASSUME NEW b \in Seq(Byte), Len(b) < Block, NEW d \in Seq(Byte),
         Len(b) + Len(d) >= Block
  PROVE  /\ Filler(b, d) \in Seq(Byte) /\ Whole(b, d) \in Seq(Byte)
         /\ Kept(b, d) \in Seq(Byte) /\ Len(Kept(b, d)) < Block
         /\ Len(b \o Filler(b, d)) % Block = 0 /\ Len(Whole(b, d)) % Block = 0
         /\ Filler(b, d) \o (Whole(b, d) \o Kept(b, d)) = d
<1> DEFINE n == Fill(b)
           q == (Len(d) - n) \div Block
           r == (Len(d) - n) % Block
           w == Block * q
           e == SubSeq(d, n + 1, Len(d))
<1>1. Len(b) \in Nat /\ Len(d) \in Nat /\ (b = <<>> <=> Len(b) = 0)
  BY LenProperties
<1>2. n \in 0 .. Len(d) /\ Len(d) - n \in Nat /\ (Len(b) + n = 0 \/ Len(b) + n = Block)
  BY <1>1, BlockType DEF Fill
<1> HIDE DEF n
<1>3. q \in Nat /\ r \in 0 .. (Block - 1) /\ Len(d) - n = w + r
  BY <1>2, BlockType, DivMod
<1> HIDE DEF q, r
<1>4. w \in Nat /\ w % Block = 0
  BY <1>3, WholeBlocks
<1>5. /\ Filler(b, d) = SubSeq(d, 1, n) /\ Whole(b, d) = SubSeq(d, n + 1, n + w)
      /\ Kept(b, d) = SubSeq(d, (n + w) + 1, Len(d))
  BY DEF Filler, Whole, Kept, n, q
<1> HIDE DEF w
<1>6. n \in Nat /\ (n + w) \in 0 .. Len(d) /\ n <= n + w /\ Len(d) - (n + w) = r
  BY <1>1, <1>2, <1>3, <1>4, BlockType
<1>7. /\ SubSeq(d, 1, n) \in Seq(Byte) /\ Len(SubSeq(d, 1, n)) = n
      /\ e \in Seq(Byte) /\ Len(e) = Len(d) - n /\ SubSeq(d, 1, n) \o e = d
  BY ONLY d \in Seq(Byte), <1>2, CutBytes
<1>8. /\ SubSeq(d, (n + w) + 1, Len(d)) \in Seq(Byte)
      /\ Len(SubSeq(d, (n + w) + 1, Len(d))) = r
  <2> DEFINE k == n + w
  <2>1. k \in 0 .. Len(d) /\ Len(d) - k = r
    BY <1>6
  <2> HIDE DEF k
  <2>2. SubSeq(d, k + 1, Len(d)) \in Seq(Byte) /\ Len(SubSeq(d, k + 1, Len(d))) = Len(d) - k
    BY <2>1, CutBounds
  <2> QED BY <2>1, <2>2 DEF k
<1>9. SubSeq(d, n + 1, n + w) \in Seq(Byte) /\ Len(SubSeq(d, n + 1, n + w)) = w
  <2>1. \A i \in n + 1 .. n + w : d[i] \in Byte
    BY <1>1, <1>4, <1>6, ElementOfSeq
  <2>2. /\ SubSeq(d, n + 1, n + w) \in Seq(Byte)
        /\ Len(SubSeq(d, n + 1, n + w)) =
             IF n + 1 <= n + w THEN (n + w) - (n + 1) + 1 ELSE 0
    BY <2>1, <1>4, <1>6, SubSeqProperties
  <2> QED BY <2>2, <1>4, <1>6
<1>10. SubSeq(d, n + 1, n + w) \o SubSeq(d, (n + w) + 1, Len(d)) = e
  <2> DEFINE k == n + w
             l == Len(d)
  <2>1. n + 1 \in 1 .. Len(d) + 1 /\ k \in (n + 1) - 1 .. Len(d) /\ l \in k .. Len(d)
    BY <1>1, <1>4, <1>6
  <2> HIDE DEF k, l
  <2>2. SubSeq(d, n + 1, k) \o SubSeq(d, k + 1, l) = SubSeq(d, n + 1, l)
    BY <2>1, ConcatAdjacentSubSeq
  <2> QED BY <2>2 DEF k, l
<1>11. Len(b \o SubSeq(d, 1, n)) = Len(b) + n
  BY <1>7, ConcatProperties
<1>12. (Len(b) + n) % Block = 0
  <2>1. (Block * 0) % Block = 0 /\ Block * 0 = 0 /\ (Block * 1) % Block = 0 /\ Block * 1 = Block
    BY WholeBlocks, BlockType
  <2> QED BY <1>2, <2>1
<1>13. r < Block
  BY <1>3, BlockType
<1> HIDE DEF e
<1> QED BY <1>4, <1>5, <1>7, <1>8, <1>9, <1>10, <1>11, <1>12, <1>13

LEMMA ProcessedGood ==
  ASSUME NEW p \in Blocks, NEW r \in Session, Good(p, r), ~r.finished,
         NEW d \in Seq(Byte), Len(r.buf) + Len(d) >= Block
  PROVE  LET t == Absorbed(Absorbed(p, r.buf \o Filler(r.buf, d)), Whole(r.buf, d))
             f == Fed(r, d, Kept(r.buf, d))
         IN t \in Blocks /\ f \in Session /\ Good(t, f)
<1> DEFINE b == r.buf
           x == Filler(b, d)
           y == Whole(b, d)
           z == Kept(b, d)
           t == Absorbed(Absorbed(p, b \o x), y)
           w == WholePart(r.fed)
<1>1. b \in Seq(Byte) /\ r.fed \in Seq(Byte) /\ Len(b) < Block
  BY DEF Session, Good
<1>2. /\ x \in Seq(Byte) /\ y \in Seq(Byte) /\ z \in Seq(Byte) /\ Len(z) < Block
      /\ Len(b \o x) % Block = 0 /\ Len(y) % Block = 0 /\ x \o (y \o z) = d
  <2> HIDE DEF b
  <2>1. Len(b) + Len(d) >= Block
    BY DEF b
  <2> QED BY <1>1, <2>1, ThreeParts
<1>3. w \in Seq(Byte) /\ Len(w) % Block = 0 /\ w \o RestOf(r.fed) = r.fed
  BY <1>1, Cut
<1>4. ~r.squeezing => p = Absorbed(<<>>, w) /\ b = RestOf(r.fed)
  BY DEF Good
<1> HIDE DEF w, x, y, z, b
<1>5. b \o x \in Seq(Byte) /\ y \o z \in Seq(Byte)
  BY <1>1, <1>2, ConcatProperties
<1>6. Absorbed(p, b \o x) \in Blocks /\ t \in Blocks
  BY <1>2, <1>5, AbsorbedFacts
<1>7. ASSUME ~r.squeezing
      PROVE  t = Absorbed(<<>>, WholePart(r.fed \o d)) /\ z = RestOf(r.fed \o d)
  <2> DEFINE u == w \o (b \o x)
             v == u \o y
  <2>1. u \in Seq(Byte) /\ Len(u) = Len(w) + Len(b \o x)
    BY <1>3, <1>5, ConcatProperties
  <2>2. Len(u) % Block = 0
    <3>1. Len(w) \in Nat /\ Len(b \o x) \in Nat
      BY <1>3, <1>5, LenProperties
    <3>2. (Len(w) + Len(b \o x)) % Block = Len(b \o x) % Block
      BY <1>3, <3>1, BlockType, ModAddBlocks
    <3> QED BY ONLY <1>2, <2>1, <3>2
  <2>3. <<>> \in Blocks
    BY EmptySeq DEF Blocks
  <2>4. Absorbed(p, b \o x) = Absorbed(<<>>, u)
    <3> DEFINE y1 == b \o x
               p1 == <<>>
    <3>1. y1 \in Seq(Byte) /\ p1 \in Blocks
      BY <1>5, <2>3
    <3> HIDE DEF y1, p1
    <3>2. Absorbed(Absorbed(p1, w), y1) = Absorbed(p1, w \o y1)
      BY <1>3, <3>1, AbsorbedInPieces
    <3> QED BY <1>4, <1>7, <3>2 DEF y1, p1
  <2> HIDE DEF u
  <2>5. v \in Seq(Byte) /\ Len(v) = Len(u) + Len(y)
    BY <1>2, <2>1, ConcatProperties
  <2>6. Len(v) % Block = 0
    <3>1. Len(u) \in Nat /\ Len(y) \in Nat
      BY <1>2, <2>1, LenProperties
    <3>2. (Len(u) + Len(y)) % Block = Len(y) % Block
      BY <2>2, <3>1, BlockType, ModAddBlocks
    <3> QED BY ONLY <1>2, <2>5, <3>2
  <2>7. t = Absorbed(<<>>, v)
    <3> DEFINE p1 == <<>>
    <3>1. p1 \in Blocks
      BY <2>3
    <3> HIDE DEF p1
    <3>2. Absorbed(Absorbed(p1, u), y) = Absorbed(p1, u \o y)
      BY <1>2, <2>1, <2>2, <3>1, AbsorbedInPieces
    <3> QED BY <2>4, <3>2 DEF p1
  <2>8. v \o z = r.fed \o d
    <3>1. v \o z = u \o (y \o z)
      <4>1. u \in Seq(Byte) /\ y \in Seq(Byte) /\ z \in Seq(Byte)
        BY <1>2, <2>1
      <4>2. (u \o y) \o z = u \o (y \o z)
        BY ONLY <4>1, JoinThree
      <4> QED BY <4>2 DEF v
    <3>2. u = (w \o b) \o x
      <4>1. w \in Seq(Byte) /\ b \in Seq(Byte) /\ x \in Seq(Byte)
        BY <1>1, <1>2, <1>3
      <4>2. (w \o b) \o x = w \o (b \o x)
        BY ONLY <4>1, JoinThree
      <4> QED BY <4>2 DEF u
    <3>3. w \o b = r.fed
      BY <1>3, <1>4, <1>7
    <3>4. (r.fed \o x) \o (y \o z) = r.fed \o (x \o (y \o z))
      <4> DEFINE m == r.fed
                 n == y \o z
      <4>1. m \in Seq(Byte) /\ x \in Seq(Byte) /\ n \in Seq(Byte)
        BY <1>1, <1>2, <1>5
      <4> HIDE DEF m, n
      <4>2. (m \o x) \o n = m \o (x \o n)
        BY ONLY <4>1, JoinThree
      <4> QED BY <4>2 DEF m, n
    <3> QED BY <1>2, <3>1, <3>2, <3>3, <3>4
  <2> HIDE DEF v
  <2>9. v = WholePart(v \o z) /\ z = RestOf(v \o z)
    BY <1>2, <2>5, <2>6, CutIsUnique
  <2> QED BY <2>7, <2>8, <2>9
<1> HIDE DEF t
<1>8. Fed(r, d, z) \in Session /\ Good(t, Fed(r, d, z))
  BY <1>2, <1>6, <1>7, FedGood
<1> QED BY <1>6, <1>8 DEF t, x, y, z, b

-----------------------------------------------------------------------------
(* More output, read where the last read stopped, continues the output.    *)
LEMMA StreamContinues ==
  ASSUME NEW m \in Seq(Byte), NEW g \in Seq(Output), NEW turns \in Nat,
         NEW x \in 0 .. Block, NEW n \in Nat, n >= 1,
         Len(g) = Block * turns + x,
         \A i \in 1 .. Len(g) : g[i] = OutputOf(m, i)
  PROVE  LET p == Turned(Final(m), turns)
             h == g \o Read(p, x, n)
         IN /\ h \in Seq(Output)
            /\ \A i \in 1 .. Len(h) : h[i] = OutputOf(m, i)
            /\ \E k \in Nat : /\ Turned(p, Turns(x, n)) = Turned(Final(m), k)
                              /\ Len(h) = Block * k + IndexAfter(x, n)
<1> DEFINE p == Turned(Final(m), turns)
           d == Read(p, x, n)
           h == g \o d
           t == Turns(x, n)
           k == turns + t
           u == Block * turns
           y == IndexAfter(x, n)
<1>1. Final(m) \in Blocks
  BY FinalType
<1>2. p \in Blocks
  BY <1>1, TurnedType
<1>3. t \in Nat /\ y \in 0 .. Block /\ Block * t + y = x + n
  BY IndexCounts
<1>4. d \in Seq(Output) /\ Len(d) = n
  <2> HIDE DEF p
  <2> QED BY <1>2, ReadType
<1>5. \A i \in 1 .. n : d[i] = OutputOf(m, (u + x) + i)
  BY <1>1, ReadContinues
<1>6. Turned(p, t) = Turned(Final(m), k)
  <2> HIDE DEF t
  <2> QED BY <1>1, <1>3, TurnedTwice
<1>7. u \in Nat /\ Len(g) = u + x
  BY WholeBlocks
<1> HIDE DEF d, p
<1>8. /\ h \in Seq(Output) /\ Len(h) = (u + x) + n
      /\ \A i \in 1 .. (u + x) + n : h[i] = IF i <= u + x THEN g[i] ELSE d[i - (u + x)]
  <2>1. /\ g \o d \in Seq(Output) /\ Len(g \o d) = Len(g) + Len(d)
        /\ \A i \in 1 .. Len(g) + Len(d) :
             (g \o d)[i] = IF i <= Len(g) THEN g[i] ELSE d[i - Len(g)]
    BY <1>4, ConcatProperties
  <2> HIDE DEF u
  <2> QED BY <1>4, <1>7, <2>1
<1> HIDE DEF t, y, h
<1>9. k \in Nat /\ Len(h) = Block * k + y
  <2>1. Block * k = u + Block * t
    BY <1>3, BlockType
  <2>2. Block * t \in Nat
    BY <1>3, WholeBlocks
  <2> HIDE DEF u
  <2> QED BY <1>3, <1>7, <1>8, <2>1, <2>2, BlockType
<1> HIDE DEF u, k
<1>10. \A i \in 1 .. Len(h) : h[i] = OutputOf(m, i)
  <2> TAKE i \in 1 .. Len(h)
  <2>1. CASE i <= u + x
    BY <2>1, <1>7, <1>8
  <2>2. CASE ~(i <= u + x)
    <3> DEFINE j == i - (u + x)
    <3>1. j \in 1 .. n /\ (u + x) + j = i
      BY <2>2, <1>7, <1>8, BlockType
    <3> HIDE DEF j
    <3>2. d[j] = OutputOf(m, (u + x) + j)
      BY <1>5, <3>1
    <3>3. h[i] = d[j]
      BY <2>2, <1>8 DEF j
    <3> QED BY <3>1, <3>2, <3>3
  <2> QED BY <2>1, <2>2
<1> QED BY <1>6, <1>8, <1>9, <1>10 DEF p, d, h, t, y

\* The session r after reading n bytes at place x of the state p.
ReadMore(r, p, n) ==
  [r EXCEPT !.squeezing = TRUE, !.index = IndexAfter(r.index, n),
            !.given = @ \o Read(p, r.index, n)]

\* The state a session starts its output from.
Closing(p, r) == Absorbed(p, LastBlock(r.buf))

LEMMA ClosingType ==
  ASSUME NEW p \in Blocks, NEW r \in Session, Good(p, r)
  PROVE  Closing(p, r) \in Blocks
<1>1. r.buf \in Seq(Byte) /\ Len(r.buf) < Block
  BY DEF Session, Good
<1>2. LastBlock(r.buf) \in Seq(Byte)
  BY <1>1, LastBlockPads
<1> QED BY <1>2, AbsorbedFacts DEF Closing

LEMMA ClosingIsFinal ==
  ASSUME NEW p \in Blocks, NEW r \in Session, Good(p, r), ~r.finished, ~r.squeezing
  PROVE  /\ Closing(p, r) = Final(r.fed) /\ Closing(p, r) = Turned(Final(r.fed), 0)
         /\ Block * 0 + 0 = 0
<1>1. p = Absorbed(<<>>, WholePart(r.fed)) /\ r.buf = RestOf(r.fed)
  BY DEF Good
<1>2. r.fed \in Seq(Byte)
  BY DEF Session
<1>3. Closing(p, r) = Final(r.fed)
  BY <1>1, <1>2, ClosedIsFinal DEF Closing
<1>4. Turned(Final(r.fed), 0) = Final(r.fed)
  BY <1>2, FinalType, TurnedType
<1> QED BY <1>3, <1>4, BlockType

LEMMA ReadMoreGood ==
  ASSUME NEW p \in Blocks, NEW r \in Session, kind = "shake", Len(r.buf) < Block,
         NEW n \in Nat, n >= 1,
         ~r.finished,
         ~r.mixed => /\ \E k \in Nat : p = Turned(Final(r.fed), k)
                                       /\ Len(r.given) = Block * k + r.index
                     /\ \A i \in 1 .. Len(r.given) : r.given[i] = OutputOf(r.fed, i)
  PROVE  /\ Turned(p, Turns(r.index, n)) \in Blocks
         /\ ReadMore(r, p, n) \in Session
         /\ Good(Turned(p, Turns(r.index, n)), ReadMore(r, p, n))
<1> DEFINE x == r.index
           f == ReadMore(r, p, n)
           t == Turned(p, Turns(x, n))
           g == r.given \o Read(p, x, n)
<1>1. x \in 0 .. Block /\ r.given \in Seq(Output) /\ r.fed \in Seq(Byte)
  BY DEF Session
<1>2. Turns(x, n) \in Nat /\ IndexAfter(x, n) \in 0 .. Block
  BY <1>1, IndexCounts
<1>3. Read(p, x, n) \in Seq(Output)
  BY <1>1, ReadType
<1>4. t \in Blocks
  BY <1>2, TurnedType
<1>5. g \in Seq(Output)
  BY <1>1, <1>3, ConcatProperties
<1>6. f \in Session
  BY <1>1, <1>2, <1>5 DEF ReadMore, Session
<1>7. /\ f.buf = r.buf /\ f.squeezing /\ f.finished = r.finished /\ f.fed = r.fed
      /\ f.mixed = r.mixed /\ f.given = g /\ f.index = IndexAfter(x, n)
  BY DEF ReadMore, Session
<1>8. ASSUME ~r.mixed
      PROVE  /\ \E k \in Nat : t = Turned(Final(r.fed), k) /\ Len(g) = Block * k + IndexAfter(x, n)
             /\ \A i \in 1 .. Len(g) : g[i] = OutputOf(r.fed, i)
  <2>1. PICK k \in Nat : p = Turned(Final(r.fed), k) /\ Len(r.given) = Block * k + x
    BY <1>8
  <2>2. \A i \in 1 .. Len(r.given) : r.given[i] = OutputOf(r.fed, i)
    BY <1>8
  <2> DEFINE m == r.fed
             v == r.given
             z == Turned(Final(m), k)
             h == v \o Read(z, x, n)
  <2> HIDE DEF x, m, v
  <2>3. /\ m \in Seq(Byte) /\ v \in Seq(Output) /\ Len(v) = Block * k + x
        /\ \A i \in 1 .. Len(v) : v[i] = OutputOf(m, i)
    BY <1>1, <2>1, <2>2 DEF m, v, x
  <2>4. /\ \A i \in 1 .. Len(h) : h[i] = OutputOf(m, i)
        /\ \E j \in Nat : /\ Turned(z, Turns(x, n)) = Turned(Final(m), j)
                          /\ Len(h) = Block * j + IndexAfter(x, n)
    <3>1. /\ m \in Seq(Byte) /\ v \in Seq(Output) /\ k \in Nat /\ x \in 0 .. Block
          /\ n \in Nat /\ n >= 1 /\ Len(v) = Block * k + x
      BY <1>1, <2>3 DEF x
    <3> QED BY ONLY <3>1, <2>3, StreamContinues
  <2>5. p = z
    BY <2>1 DEF z, m
  <2> HIDE DEF z
  <2> QED BY <2>4, <2>5 DEF m, v
<1> HIDE DEF f, t, g, x
<1>9. ~f.mixed => \A i \in 1 .. Len(f.given) : f.given[i] = OutputOf(f.fed, i)
  BY <1>7, <1>8
<1>10. ~f.mixed => \E k \in Nat : t = Turned(Final(f.fed), k) /\ Len(f.given) = Block * k + f.index
  BY <1>7, <1>8
<1>11. Good(t, f)
  BY <1>7, <1>9, <1>10 DEF Good
<1> QED BY <1>4, <1>6, <1>11 DEF f, t, x

LEMMA FirstReadGood ==
  ASSUME NEW p \in Blocks, NEW r \in Session, Good(p, r), kind = "shake",
         ~r.finished, ~r.squeezing, NEW n \in Nat, n >= 1
  PROVE  /\ Turned(Closing(p, r), Turns(r.index, n)) \in Blocks
         /\ ReadMore(r, Closing(p, r), n) \in Session
         /\ Good(Turned(Closing(p, r), Turns(r.index, n)), ReadMore(r, Closing(p, r), n))
<1> DEFINE q == Closing(p, r)
<1>1. q \in Blocks
  BY ClosingType
<1>2. q = Turned(Final(r.fed), 0) /\ Block * 0 + 0 = 0
  BY ClosingIsFinal
<1>3. ~r.mixed => r.given = <<>> /\ r.index = 0
  BY DEF Good
<1>4. Len(<<>>) = 0
  OBVIOUS
<1>5. Len(r.buf) < Block
  BY DEF Good
<1>6. ~r.mixed => /\ \E k \in Nat : q = Turned(Final(r.fed), k)
                                    /\ Len(r.given) = Block * k + r.index
                  /\ \A i \in 1 .. Len(r.given) : r.given[i] = OutputOf(r.fed, i)
  BY <1>2, <1>3, <1>4
<1> HIDE DEF q
<1>7. /\ Turned(q, Turns(r.index, n)) \in Blocks
      /\ ReadMore(r, q, n) \in Session
      /\ Good(Turned(q, Turns(r.index, n)), ReadMore(r, q, n))
  BY <1>1, <1>5, <1>6, ReadMoreGood
<1> QED BY <1>7 DEF q

LEMMA NextReadGood ==
  ASSUME NEW p \in Blocks, NEW r \in Session, Good(p, r), kind = "shake",
         ~r.finished, r.squeezing, NEW n \in Nat, n >= 1
  PROVE  /\ Turned(p, Turns(r.index, n)) \in Blocks
         /\ ReadMore(r, p, n) \in Session
         /\ Good(Turned(p, Turns(r.index, n)), ReadMore(r, p, n))
<1>1. /\ Len(r.buf) < Block
      /\ ~r.mixed => /\ \E k \in Nat : p = Turned(Final(r.fed), k)
                                       /\ Len(r.given) = Block * k + r.index
                     /\ \A i \in 1 .. Len(r.given) : r.given[i] = OutputOf(r.fed, i)
  BY DEF Good
<1> QED BY <1>1, ReadMoreGood

(* What finalize leaves of a session that was not squeezed, and of one     *)
(* that was.                                                               *)
LEMMA FinishedGood ==
  ASSUME NEW p \in Blocks, NEW r \in Session, Good(p, r), ~r.finished,
         kind \in {"sha3", "shake"},
         NEW n \in Nat, n >= 1, NEW x \in 0 .. Block,
         kind = "shake" => x = r.index,
         kind = "sha3" => x = 0,
         NEW y \in 0 .. Block, NEW t \in Blocks
  PROVE  LET f == Finished(r, y, Read(Closing(p, r), x, n))
         IN f \in Session /\ Good(t, f)
<1> DEFINE q == Closing(p, r)
           d == Read(q, x, n)
           g == r.given \o d
           f == Finished(r, y, d)
<1>1. q \in Blocks
  BY ClosingType
<1>2. d \in Seq(Output)
  <2> HIDE DEF q
  <2> QED BY <1>1, ReadType
<1>3. r.given \in Seq(Output) /\ r.fed \in Seq(Byte)
  BY DEF Session
<1>4. g \in Seq(Output)
  <2> HIDE DEF d
  <2> QED BY <1>2, <1>3, ConcatProperties
<1>5. <<>> \in Seq(Byte) /\ Len(<<>>) = 0
  BY EmptySeq
<1>6. ASSUME ~r.mixed, ~r.squeezing
      PROVE  \A i \in 1 .. Len(g) : g[i] = OutputOf(r.fed, i)
  <2>1. q = Turned(Final(r.fed), 0) /\ Block * 0 + 0 = 0
    BY <1>6, ClosingIsFinal
  <2>2. r.given = <<>> /\ x = 0
    BY <1>6 DEF Good
  <2> DEFINE m == r.fed
             v == r.given
             k == 0
             h == v \o Read(Turned(Final(m), k), x, n)
  <2>3. /\ m \in Seq(Byte) /\ v \in Seq(Output) /\ k \in Nat /\ Len(v) = Block * k + x
        /\ \A i \in 1 .. Len(v) : v[i] = OutputOf(m, i)
    BY <1>3, <1>5, <2>1, <2>2
  <2>4. g = h
    BY <2>1
  <2> HIDE DEF m, v, k
  <2>5. \A i \in 1 .. Len(h) : h[i] = OutputOf(m, i)
    BY <2>3, StreamContinues
  <2> HIDE DEF h, g
  <2> QED BY <2>4, <2>5 DEF m
<1> HIDE DEF d, q, g
<1>7. f \in Session
  <2>1. r.given \o d \in Seq(Output)
    BY <1>4 DEF g
  <2> QED BY <1>5, <2>1 DEF Finished, Session
<1>8. /\ f.buf = <<>> /\ f.finished /\ f.fed = r.fed
      /\ (kind = "sha3" => ~f.squeezing)
      /\ f.given = g /\ f.mixed = (r.mixed \/ r.squeezing)
  BY DEF Finished, Session, g
<1> HIDE DEF f
<1>9. ~f.mixed => \A i \in 1 .. Len(f.given) : f.given[i] = OutputOf(f.fed, i)
  BY <1>6, <1>8
<1>10. Len(f.buf) < Block
  BY <1>5, <1>8, BlockType
<1>11. Good(t, f)
  BY <1>8, <1>9, <1>10 DEF Good
<1> QED BY <1>7, <1>11 DEF f, d, q

(* A finalize without a buffer ends the session and gives nothing.         *)
LEMMA EndedGood ==
  ASSUME NEW p \in Blocks, NEW r \in Session, Good(p, r)
  PROVE  LET f == [r EXCEPT !.buf = <<>>, !.finished = TRUE]
         IN f \in Session /\ Good(p, f)
<1> DEFINE f == [r EXCEPT !.buf = <<>>, !.finished = TRUE]
<1>1. <<>> \in Seq(Byte) /\ Len(<<>>) = 0
  BY EmptySeq
<1>2. f \in Session
  BY <1>1 DEF Session
<1>3. /\ f.buf = <<>> /\ f.finished /\ f.squeezing = r.squeezing /\ f.fed = r.fed
      /\ f.given = r.given /\ f.mixed = r.mixed
  BY DEF Session
<1> HIDE DEF f
<1>4. Len(f.buf) < Block
  BY <1>1, <1>3, BlockType
<1>5. Good(p, f)
  BY <1>3, <1>4 DEF Good
<1> QED BY <1>2, <1>5 DEF f

-----------------------------------------------------------------------------
(* A call that leaves every session as it should be keeps the invariant.   *)
LEMMA AllGood ==
  ASSUME IInv, UNCHANGED <<kind, flat>>, ret' \in Rets,
         state' \in [Handles -> Blocks], s' \in [Handles -> Session],
         \A h \in Handles : Good(state'[h], s'[h])
  PROVE  IInv'
<1>1. Typed' /\ flat' \in [Handles -> Handles] /\ OwnState'
  BY DEF IInv, Typed, OwnState
<1>2. \A h \in Handles : Good(state[h], s[h])'
  <2> TAKE h \in Handles
  <2>1. Good(state'[h], s'[h])
    OBVIOUS
  <2>2. kind' = kind
    OBVIOUS
  <2> QED BY <2>1, <2>2 DEF Good, Final, OutputOf, Standard, Suffix
<1> QED BY <1>1, <1>2 DEF IInv

LEMMA LeavesInv ==
  ASSUME IInv, NEW h \in Handles, NEW t \in Blocks, NEW r \in Session, Good(t, r),
         NEW op \in {"init", "update", "squeeze", "finalize", "copy"}, Leaves(h, t, r, op)
  PROVE  IInv'
<1>1. flat[h] = h /\ state \in [Handles -> Blocks] /\ s \in [Handles -> Session]
  BY DEF IInv, OwnState, Typed
<1>2. state' = [state EXCEPT ![h] = t] /\ s' = [s EXCEPT ![h] = r]
  BY <1>1 DEF Leaves
<1>3. state' \in [Handles -> Blocks] /\ s' \in [Handles -> Session]
  BY <1>1, <1>2
<1>4. \A k \in Handles : Good(state'[k], s'[k])
  <2> TAKE k \in Handles
  <2>1. CASE k = h
    <3>1. state'[k] = t /\ s'[k] = r
      BY <1>1, <1>2, <2>1
    <3> QED BY <3>1
  <2>2. CASE k # h
    <3>1. state'[k] = state[k] /\ s'[k] = s[k]
      BY <1>1, <1>2, <2>2
    <3>2. Good(state[k], s[k])
      BY DEF IInv
    <3> QED BY <3>1, <3>2
  <2> QED BY <2>1, <2>2
<1>5. UNCHANGED <<kind, flat>> /\ ret' \in Rets
  BY DEF Leaves, Rets
<1> QED BY <1>3, <1>4, <1>5, AllGood

LEMMA FailsInv ==
  ASSUME IInv, NEW h \in Handles,
         NEW op \in {"init", "update", "squeeze", "finalize", "copy"},
         NEW err \in {"NONE", "INVALID_ARG", "NOT_PERMITTED", "INVALID_DATA"},
         Fails(h, op, err)
  PROVE  IInv'
<1>1. /\ UNCHANGED <<kind, flat, state, s>> /\ ret' \in Rets
  BY DEF Fails, Rets
<1>2. /\ state' \in [Handles -> Blocks] /\ s' \in [Handles -> Session]
      /\ \A k \in Handles : Good(state'[k], s'[k])
  BY <1>1 DEF IInv, Typed
<1> QED BY <1>1, <1>2, AllGood

LEMMA InitInv == Init => IInv
<1> SUFFICES ASSUME Init PROVE IInv
  OBVIOUS
<1>1. Blank \in Session /\ Good(<<>>, Blank)
  BY BlankGood
<1>2. <<>> \in Blocks
  BY EmptySeq DEF Blocks
<1>3. Typed
  BY <1>1, <1>2 DEF Init, Typed, Rets
<1>4. flat \in [Handles -> Handles] /\ OwnState
  BY DEF Init, OwnState
<1>5. \A h \in Handles : Good(state[h], s[h])
  BY <1>1 DEF Init
<1> QED BY <1>3, <1>4, <1>5 DEF IInv

LEMMA InitSessionInv ==
  ASSUME IInv, NEW h \in Handles, InitSession(h)
  PROVE  IInv'
<1>1. <<>> \in Blocks
  BY EmptySeq DEF Blocks
<1>2. flat[h] = h
  BY DEF IInv, OwnState
<1>3. Leaves(h, <<>>, Blank, "init")
  BY <1>2 DEF InitSession, Leaves
<1> QED BY <1>1, <1>3, BlankGood, LeavesInv

LEMMA UpdateInv ==
  ASSUME IInv, NEW h \in Handles, NEW d \in Data, Update(h, d)
  PROVE  IInv'
<1> DEFINE p == state[h]
           r == s[h]
<1>1. /\ p \in Blocks /\ r \in Session /\ Good(p, r) /\ Sponge(h) = p
      /\ d \in Seq(Byte)
  BY Sha3Assumption DEF IInv, Typed, OwnState, Sponge, Byte
<1>2. CASE UpdateRefused(h)
  BY <1>2, FailsInv DEF UpdateRefused
<1>3. CASE d = <<>> /\ UpdateNothing(h)
  BY <1>3, FailsInv DEF UpdateNothing
<1>4. CASE UpdateBuffered(h, d)
  <2>1. /\ ~r.finished /\ Len(r.buf) + Len(d) < Block
        /\ Leaves(h, p, Fed(r, d, r.buf \o d), "update")
    BY <1>1, <1>4 DEF UpdateBuffered, Accepts
  <2> HIDE DEF p, r
  <2>2. Fed(r, d, r.buf \o d) \in Session /\ Good(p, Fed(r, d, r.buf \o d))
    BY <1>1, <2>1, BufferedGood
  <2> QED BY <1>1, <2>1, <2>2, LeavesInv
<1>5. CASE UpdateProcessed(h, d)
  <2> DEFINE t == Absorbed(Absorbed(p, r.buf \o Filler(r.buf, d)), Whole(r.buf, d))
             f == Fed(r, d, Kept(r.buf, d))
  <2>1. /\ ~r.finished /\ Len(r.buf) + Len(d) >= Block
        /\ Leaves(h, t, f, "update")
    BY <1>1, <1>5 DEF UpdateProcessed, Accepts, Filler, Whole, Kept
  <2> HIDE DEF p, r
  <2>2. t \in Blocks /\ f \in Session /\ Good(t, f)
    BY <1>1, <2>1, ProcessedGood
  <2> HIDE DEF t, f
  <2> QED BY <2>1, <2>2, LeavesInv
<1> QED BY <1>2, <1>3, <1>4, <1>5 DEF Update

LEMMA SqueezeInv ==
  ASSUME IInv, NEW h \in Handles, NEW n \in Sizes \ {0}, Squeeze(h, n)
  PROVE  IInv'
<1> DEFINE p == state[h]
           r == s[h]
<1>1. p \in Blocks /\ r \in Session /\ Good(p, r) /\ Sponge(h) = p /\ n \in Nat /\ n >= 1
  BY Sha3Assumption DEF IInv, Typed, OwnState, Sponge
<1>2. CASE SqueezeUnsupported(h)
  BY <1>2, FailsInv DEF SqueezeUnsupported
<1>3. CASE SqueezeRefused(h)
  BY <1>3, FailsInv DEF SqueezeRefused
<1>4. CASE SqueezeFirst(h, n)
  <2> DEFINE t == Turned(Closing(p, r), Turns(r.index, n))
             f == ReadMore(r, Closing(p, r), n)
  <2>1. kind = "shake" /\ ~r.finished /\ ~r.squeezing /\ Leaves(h, t, f, "squeeze")
    BY <1>1, <1>4 DEF SqueezeFirst, Squeezed, Closed, Closing, ReadMore
  <2> HIDE DEF p, r
  <2>2. t \in Blocks /\ f \in Session /\ Good(t, f)
    BY <1>1, <2>1, FirstReadGood
  <2> HIDE DEF t, f
  <2> QED BY <2>1, <2>2, LeavesInv
<1>5. CASE SqueezeMore(h, n)
  <2> DEFINE t == Turned(p, Turns(r.index, n))
             f == ReadMore(r, p, n)
  <2>1. kind = "shake" /\ ~r.finished /\ r.squeezing /\ Leaves(h, t, f, "squeeze")
    BY <1>1, <1>5 DEF SqueezeMore, Squeezed, ReadMore
  <2> HIDE DEF p, r
  <2>2. t \in Blocks /\ f \in Session /\ Good(t, f)
    BY <1>1, <2>1, NextReadGood
  <2> HIDE DEF t, f
  <2> QED BY <2>1, <2>2, LeavesInv
<1> QED BY <1>2, <1>3, <1>4, <1>5 DEF Squeeze

LEMMA FinalizeInv ==
  ASSUME IInv, NEW h \in Handles, NEW n \in Sizes, Finalize(h, n)
  PROVE  IInv'
<1> DEFINE p == state[h]
           r == s[h]
<1>1. /\ p \in Blocks /\ r \in Session /\ Good(p, r) /\ Sponge(h) = p /\ n \in Nat
      /\ kind \in {"sha3", "shake"} /\ state \in [Handles -> Blocks]
      /\ s \in [Handles -> Session]
  BY Sha3Assumption DEF IInv, Typed, OwnState, Sponge
<1>2. CASE FinalizeAgain(h)
  BY <1>2, FailsInv DEF FinalizeAgain
<1>3. CASE FinalizeRefused(h, n)
  BY <1>3, FailsInv DEF FinalizeRefused
<1>4. CASE FinalizeNull(h, n)
  <2> DEFINE f == [r EXCEPT !.buf = <<>>, !.finished = TRUE]
  <2>1. /\ s' = [s EXCEPT ![h] = f] /\ state' = state
        /\ UNCHANGED <<kind, flat>> /\ ret' \in Rets
    BY <1>1, <1>4 DEF FinalizeNull, Rets
  <2>2. f \in Session /\ Good(p, f)
    <3> HIDE DEF p, r
    <3> QED BY <1>1, EndedGood
  <2> HIDE DEF f, r
  <2>3. state' \in [Handles -> Blocks] /\ s' \in [Handles -> Session]
    BY <1>1, <2>1, <2>2
  <2>4. \A k \in Handles : Good(state'[k], s'[k])
    <3> TAKE k \in Handles
    <3>1. CASE k = h
      BY <1>1, <2>1, <2>2, <3>1
    <3>2. CASE k # h
      <4>1. state'[k] = state[k] /\ s'[k] = s[k]
        BY <1>1, <2>1, <3>2
      <4> QED BY <4>1 DEF IInv
    <3> QED BY <3>1, <3>2
  <2> QED BY <2>1, <2>3, <2>4, AllGood
<1>5. CASE FinalizeDelivers(h, n)
  <2> DEFINE q == Closing(p, r)
  <2>0. q \in Blocks
    <3> HIDE DEF p, r
    <3> QED BY <1>1, ClosingType
  <2>1. CASE kind = "shake"
    <3> DEFINE t == Turned(q, Turns(r.index, n))
               f == Finished(r, IndexAfter(r.index, n), Read(q, r.index, n))
    <3>1. ~r.finished /\ n >= 1 /\ Leaves(h, t, f, "finalize")
      BY <1>1, <1>5, <2>1 DEF FinalizeDelivers, SizeOk, Closed, Closing
    <3> HIDE DEF p, r
    <3>2. r.index \in 0 .. Block
      BY <1>1 DEF Session
    <3>3. Turns(r.index, n) \in Nat /\ IndexAfter(r.index, n) \in 0 .. Block
      BY <1>1, <3>1, <3>2, IndexCounts
    <3>4. t \in Blocks
      BY <2>0, <3>3, TurnedType
    <3>5. f \in Session /\ Good(t, f)
      BY <1>1, <2>1, <3>1, <3>2, <3>3, <3>4, FinishedGood
    <3> HIDE DEF t, f
    <3> QED BY <3>1, <3>4, <3>5, LeavesInv
  <2>2. CASE kind # "shake"
    <3> DEFINE f == Finished(r, 0, Read(q, 0, n))
    <3>1. ~r.finished /\ n >= 1 /\ Leaves(h, q, f, "finalize") /\ kind = "sha3"
      BY <1>1, <1>5, <2>2, Sha3Assumption DEF FinalizeDelivers, SizeOk, Closed, Closing
    <3> HIDE DEF p, r
    <3>2. 0 \in 0 .. Block
      BY BlockType
    <3>3. f \in Session /\ Good(q, f)
      BY <1>1, <2>0, <3>1, <3>2, FinishedGood
    <3> HIDE DEF q, f
    <3> QED BY <2>0, <3>1, <3>3, LeavesInv
  <2> QED BY <2>1, <2>2
<1> QED BY <1>2, <1>3, <1>4, <1>5 DEF Finalize

LEMMA CopyInv ==
  ASSUME IInv, NEW from \in Handles, NEW to \in Handles, Copy(from, to)
  PROVE  IInv'
<1>1. /\ flat[to] = to /\ flat \in [Handles -> Handles]
      /\ state[from] \in Blocks /\ s[from] \in Session /\ Good(state[from], s[from])
  BY DEF IInv, Typed, OwnState
<1>2. flat' = flat
  BY <1>1 DEF Copy, CopiedFlat
<1>3. Leaves(to, state[from], s[from], "copy")
  BY <1>1, <1>2 DEF Copy, Leaves
<1> QED BY <1>1, <1>3, LeavesInv

LEMMA NextInv == IInv /\ [Next]_vars => IInv'
<1> SUFFICES ASSUME IInv, [Next]_vars PROVE IInv'
  OBVIOUS
<1>1. CASE UNCHANGED vars
  <2>1. /\ UNCHANGED <<kind, flat, state, s, ret>>
    BY <1>1 DEF vars
  <2>2. /\ state' \in [Handles -> Blocks] /\ s' \in [Handles -> Session] /\ ret' \in Rets
        /\ \A k \in Handles : Good(state'[k], s'[k])
    BY <2>1 DEF IInv, Typed
  <2> QED BY <2>1, <2>2, AllGood
<1>2. ASSUME NEW h \in Handles, InitSession(h) PROVE IInv'
  BY <1>2, InitSessionInv
<1>3. ASSUME NEW h \in Handles, NEW d \in Data, Update(h, d) PROVE IInv'
  BY <1>3, UpdateInv
<1>4. ASSUME NEW h \in Handles, NEW n \in Sizes \ {0}, Squeeze(h, n) PROVE IInv'
  BY <1>4, SqueezeInv
<1>5. ASSUME NEW h \in Handles, NEW n \in Sizes, Finalize(h, n) PROVE IInv'
  BY <1>5, FinalizeInv
<1>6. ASSUME NEW from \in Handles, NEW to \in Handles, Copy(from, to) PROVE IInv'
  BY <1>6, CopyInv
<1> QED BY <1>1, <1>2, <1>3, <1>4, <1>5, <1>6 DEF Next

LEMMA Invariance == Spec => []IInv
<1>1. Init => IInv
  BY InitInv
<1>2. IInv /\ [Next]_vars => IInv'
  BY NextInv
<1> QED BY <1>1, <1>2, PTL DEF Spec

-----------------------------------------------------------------------------
(* Every variable keeps its type; m_shake_index never passes the end of    *)
(* the block.                                                              *)
THEOREM TypeCorrect == Spec => []TypeOK
<1>1. IInv => TypeOK
  BY DEF IInv, Typed, Session, Output, TypeOK
<1> QED BY <1>1, Invariance, PTL

(* The state has taken in the whole blocks of the message and the rest     *)
(* waits, for every cut of every message (sha3.cc:334-380).                *)
THEOREM MessageIsAccounted == Spec => []MessageAccounted
<1>1. IInv => MessageAccounted
  <2> SUFFICES ASSUME IInv, NEW h \in Handles, ~s[h].finished, ~s[h].squeezing
               PROVE  Sponge(h) = Absorbed(<<>>, WholePart(s[h].fed)) /\ s[h].buf = RestOf(s[h].fed)
    BY DEF MessageAccounted, WholePart, RestOf
  <2>1. Good(state[h], s[h]) /\ Sponge(h) = state[h]
    BY DEF IInv, OwnState, Sponge
  <2> QED BY <2>1 DEF Good
<1> QED BY <1>1, Invariance, PTL

(* However output is asked for, in pieces by squeeze or at once by         *)
(* finalize, it is the one FIPS 202 defines (sha3.cc:418-459).             *)
THEOREM StreamIsTheXof == Spec => []StreamIsXof
<1>1. IInv => StreamIsXof
  BY DEF IInv, Good, StreamIsXof
<1> QED BY <1>1, Invariance, PTL

(* A call changes no other session, copies included (sha3.cc:294).         *)
THEOREM OthersAreUntouched == Spec => OthersUntouched
<1> DEFINE A == \A h \in Handles :
                  h # ret'.h => s'[h] = s[h] /\ state'[flat'[h]] = state[flat[h]]
<1>1. ASSUME IInv, IInv', Next PROVE A
  <2> SUFFICES ASSUME NEW k \in Handles, k # ret'.h
               PROVE  s'[k] = s[k] /\ state'[k] = state[k]
    BY <1>1 DEF IInv, OwnState
  <2>0. state \in [Handles -> Blocks] /\ s \in [Handles -> Session]
        /\ \A h \in Handles : flat[h] = h
    BY <1>1 DEF IInv, Typed, OwnState
  <2>1. ASSUME NEW h \in Handles, NEW t, NEW r, NEW op, Leaves(h, t, r, op)
        PROVE  s'[k] = s[k] /\ state'[k] = state[k]
    <3>1. /\ ret'.h = h /\ flat[h] = h
          /\ state' = [state EXCEPT ![flat[h]] = t] /\ s' = [s EXCEPT ![h] = r]
      BY <2>0, <2>1 DEF Leaves
    <3> QED BY <2>0, <3>1
  <2>2. ASSUME NEW h \in Handles, NEW op, NEW err, Fails(h, op, err)
        PROVE  s'[k] = s[k] /\ state'[k] = state[k]
    BY <2>2 DEF Fails
  <2>3. ASSUME NEW h \in Handles, InitSession(h)
        PROVE  s'[k] = s[k] /\ state'[k] = state[k]
    BY <2>0, <2>3 DEF InitSession
  <2>4. ASSUME NEW h \in Handles, NEW d \in Data, Update(h, d)
        PROVE  s'[k] = s[k] /\ state'[k] = state[k]
    BY <2>1, <2>2, <2>4
       DEF Update, UpdateRefused, UpdateNothing, UpdateBuffered, UpdateProcessed
  <2>5. ASSUME NEW h \in Handles, NEW n \in Sizes \ {0}, Squeeze(h, n)
        PROVE  s'[k] = s[k] /\ state'[k] = state[k]
    BY <2>1, <2>2, <2>5
       DEF Squeeze, SqueezeUnsupported, SqueezeRefused, SqueezeFirst, SqueezeMore, Squeezed
  <2>6. ASSUME NEW h \in Handles, NEW n \in Sizes, Finalize(h, n)
        PROVE  s'[k] = s[k] /\ state'[k] = state[k]
    <3>1. ASSUME FinalizeNull(h, n) PROVE s'[k] = s[k] /\ state'[k] = state[k]
      BY <2>0, <3>1 DEF FinalizeNull
    <3>2. ASSUME FinalizeDelivers(h, n) PROVE s'[k] = s[k] /\ state'[k] = state[k]
      BY <2>1, <3>2 DEF FinalizeDelivers
    <3> QED BY <2>2, <2>6, <3>1, <3>2 DEF Finalize, FinalizeAgain, FinalizeRefused
  <2>7. ASSUME NEW from \in Handles, NEW to \in Handles, Copy(from, to)
        PROVE  s'[k] = s[k] /\ state'[k] = state[k]
    BY <2>0, <2>7 DEF Copy
  <2> QED BY <1>1, <2>3, <2>4, <2>5, <2>6, <2>7 DEF Next
<1>2. IInv /\ IInv' /\ [Next]_vars => [A]_vars
  BY <1>1
<1> QED BY <1>2, Invariance, PTL DEF Spec, OthersUntouched
=============================================================================
