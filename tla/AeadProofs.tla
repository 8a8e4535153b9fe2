----------------------------- MODULE AeadProofs -----------------------------
(***************************************************************************)
(* What holds of one handle on CCM, SIV, ChaCha20-Poly1305 or Poly1305,    *)
(* for any keys, IVs, additional data, texts, tag lengths and bounds.      *)
(* What carries the proofs: a Poly1305 object is at every moment the sum   *)
(* of the whole blocks of what it was given and the rest of it (Holds), so *)
(* it does not matter how a message was cut; and masking twice with the    *)
(* same keystream gives the text back.                                     *)
(***************************************************************************)
EXTENDS Aead, SequenceTheorems, TLAPS

-----------------------------------------------------------------------------
(* Cutting a sequence of bytes into blocks.                                *)

\* Division with remainder, as / and % compute it on unsigned operands.
LEMMA DivMod ==
  ASSUME NEW B \in Nat \ {0}, NEW n \in Nat
  PROVE  /\ n \div B \in Nat
         /\ n % B \in 0 .. (B - 1)
         /\ n = (n \div B) * B + (n % B)
BY SMT

\* A quotient and a remainder are determined by the number they make.
LEMMA DivUnique ==
  ASSUME NEW B \in Nat \ {0}, NEW q \in Nat, NEW r \in 0 .. (B - 1)
  PROVE  (q * B + r) \div B = q /\ (q * B + r) % B = r
BY SMT

\* Whole blocks in front count, and change nothing behind them.
LEMMA DivAdd ==
  ASSUME NEW B \in Nat \ {0}, NEW q \in Nat, NEW n \in Nat
  PROVE  /\ (q * B + n) \div B = q + n \div B
         /\ (q * B + n) % B = n % B
<1> DEFINE p == n \div B
           r == n % B
<1>1. p \in Nat /\ r \in 0 .. (B - 1) /\ n = p * B + r
  BY DivMod
<1> HIDE DEF p, r
<1>2. q + p \in Nat /\ q * B + n = (q + p) * B + r
  BY <1>1
<1>3. ((q + p) * B + r) \div B = q + p /\ ((q + p) * B + r) % B = r
  BY <1>1, <1>2, DivUnique
<1>4. QED
  BY <1>2, <1>3 DEF p, r

\* A stretch of two joined sequences that lies in the first, or in the second.
LEMMA CutInFront ==
  ASSUME NEW S, NEW f \in Seq(S), NEW t \in Seq(S),
         NEW a \in Nat \ {0}, NEW b \in Nat, b <= Len(f)
  PROVE  SubSeq(f \o t, a, b) = SubSeq(f, a, b)
<1>1. Len(f) \in Nat
  BY LenProperties
<1>2. CASE b < a
  BY <1>2, SubSeqEmpty
<1>3. CASE ~(b < a)
  <2>1. a \in 1 .. Len(f) /\ b \in 1 .. Len(f)
    BY <1>1, <1>3
  <2>2. QED
    BY <2>1, SubSeqOfConcat1
<1>4. QED
  BY <1>2, <1>3

\* A cut behind the joint is a cut of the second part.
LEMMA CutBehind ==
  ASSUME NEW S, NEW f \in Seq(S), NEW t \in Seq(S), NEW u \in Nat, NEW v \in Nat,
         Len(f) < u, Len(f) <= v, v <= Len(f) + Len(t)
  PROVE  SubSeq(f \o t, u, v) = SubSeq(t, u - Len(f), v - Len(f))
<1>1. Len(f) \in Nat /\ Len(t) \in Nat
  BY LenProperties
<1>2. CASE v < u
  <2>1. u \in Int /\ v \in Int /\ u - Len(f) \in Int /\ v - Len(f) \in Int
        /\ v - Len(f) < u - Len(f)
    BY <1>1, <1>2
  <2>2. SubSeq(f \o t, u, v) = <<>>
    BY <1>2, <2>1, SubSeqEmpty
  <2>3. SubSeq(t, u - Len(f), v - Len(f)) = <<>>
    BY <2>1, SubSeqEmpty
  <2>4. QED
    BY <2>2, <2>3
<1>3. CASE ~(v < u)
  <2>1. u \in Len(f) + 1 .. Len(f) + Len(t) /\ v \in Len(f) + 1 .. Len(f) + Len(t)
    BY <1>1, <1>3
  <2>2. QED
    BY <2>1, SubSeqOfConcat2
<1>4. QED
  BY <1>2, <1>3

\* Joining is associative.
LEMMA Joined ==
  ASSUME NEW S
  PROVE  \A f, g, t \in Seq(S) : (f \o g) \o t = f \o (g \o t)
<1>1. TAKE f, g, t \in Seq(S)
<1>2. QED
  BY ConcatAssociative

\* The two parts of a cut have the expected lengths and make the whole.
LEMMA CutInTwo ==
  ASSUME NEW S, NEW d \in Seq(S), NEW n \in 0 .. Len(d)
  PROVE  /\ SubSeq(d, 1, n) \in Seq(S)
         /\ Len(SubSeq(d, 1, n)) = n
         /\ SubSeq(d, n + 1, Len(d)) \in Seq(S)
         /\ Len(SubSeq(d, n + 1, Len(d))) = Len(d) - n
         /\ SubSeq(d, 1, n) \o SubSeq(d, n + 1, Len(d)) = d
<1>1. \A i \in 1 .. Len(d) : d[i] \in S
  BY ElementOfSeq
<1>2. Len(d) \in Nat
  BY LenProperties
<1>3. SubSeq(d, 1, n) \in Seq(S) /\ Len(SubSeq(d, 1, n)) = n
  BY <1>1, <1>2, SubSeqProperties
<1>4. /\ SubSeq(d, n + 1, Len(d)) \in Seq(S)
      /\ Len(SubSeq(d, n + 1, Len(d))) = Len(d) - n
  BY <1>1, <1>2, SubSeqProperties
<1>5. 1 \in 1 .. Len(d) + 1 /\ n \in 1 - 1 .. Len(d) /\ Len(d) \in n .. Len(d)
  BY <1>2
<1>6. SubSeq(d, 1, n) \o SubSeq(d, n + 1, Len(d)) = SubSeq(d, 1, Len(d))
  BY <1>5, ConcatAdjacentSubSeq
<1>7. QED
  BY <1>3, <1>4, <1>6, SubSeqFull

-----------------------------------------------------------------------------
(* Poly1305.                                                               *)

PolyObject(p) == DOMAIN p = {"acc", "key", "buf", "fin"}

Whole(m) == Len(m) \div Block

Chunk(m, i) == SubSeq(m, (i - 1) * Block + 1, i * Block)

\* The i-th block of a sum, with the r that multiplies what is before it.
Summand(k, b, i) == [blk |-> b, r |-> IF i = 1 THEN NoKey ELSE k]

Summands(S, k) == [blk : S, r : {NoKey, k}]

\* The whole blocks of a message, with the r that each is added under.
Sum(k, m) ==
  [i \in 1 .. Whole(m) |->
    Summand(k, Chunk(m, i), i)]

Rest(m) == SubSeq(m, Whole(m) * Block + 1, Len(m))

\* The object has taken in the message and nothing else.
Holds(p, k, m) == p.key = k /\ p.acc = Sum(k, m) /\ p.buf = Rest(m)

\* A message is its whole blocks and a rest shorter than one.
LEMMA WholeBlocks ==
  ASSUME NEW S, NEW m \in Seq(S)
  PROVE  /\ Len(m) \in Nat /\ Whole(m) \in Nat /\ Whole(m) * Block \in 0 .. Len(m)
         /\ Rest(m) \in Seq(S)
         /\ Len(Rest(m)) = Len(m) % Block /\ Len(Rest(m)) \in 0 .. Block - 1
         /\ Len(m) = Whole(m) * Block + Len(Rest(m))
         /\ SubSeq(m, 1, Whole(m) * Block) \in Seq(S)
         /\ Len(SubSeq(m, 1, Whole(m) * Block)) = Whole(m) * Block
         /\ SubSeq(m, 1, Whole(m) * Block) \o Rest(m) = m
<1> DEFINE len == Len(m)
           q == len \div Block
           r == len % Block
<1>1. len \in Nat /\ Block \in Nat \ {0}
  BY LenProperties, PolyAssumption
<1>2. q \in Nat /\ r \in 0 .. Block - 1 /\ len = q * Block + r
  BY <1>1, DivMod
<1>3. q * Block \in Nat
  BY <1>1, <1>2
<1> HIDE DEF q, r
<1>4. q * Block \in 0 .. len /\ len - q * Block = r
  BY <1>1, <1>2, <1>3
<1>5. /\ SubSeq(m, 1, q * Block) \in Seq(S)
      /\ Len(SubSeq(m, 1, q * Block)) = q * Block
      /\ SubSeq(m, q * Block + 1, len) \in Seq(S)
      /\ Len(SubSeq(m, q * Block + 1, len)) = len - q * Block
      /\ SubSeq(m, 1, q * Block) \o SubSeq(m, q * Block + 1, len) = m
  BY <1>4, CutInTwo
<1>6. Whole(m) = q /\ Rest(m) = SubSeq(m, q * Block + 1, len)
  BY DEF Whole, Rest, q
<1>7. QED
  BY <1>1, <1>2, <1>4, <1>5, <1>6 DEF r

\* A whole block is a sequence of bytes.
LEMMA ChunkIsSeq ==
  ASSUME NEW S, NEW m \in Seq(S)
  PROVE  \A i \in 1 .. Whole(m) : Chunk(m, i) \in Seq(S)
<1>1. TAKE i \in 1 .. Whole(m)
<1> DEFINE w == Whole(m)
           a == (i - 1) * Block
           b == i * Block
           wb == w * Block
<1>2. Len(m) \in Nat /\ w \in Nat /\ wb \in 0 .. Len(m) /\ Block \in Nat
  BY WholeBlocks, PolyAssumption
<1>3. a \in Nat /\ b \in Nat /\ b <= wb
  <2>1. i - 1 \in Nat /\ i \in Nat /\ w - i \in Nat
    BY <1>2
  <2>2. (w - i) * Block \in Nat /\ (w - i) * Block = w * Block - i * Block
    BY <1>2, <2>1
  <2>3. a \in Nat /\ b \in Nat
    BY <1>2, <2>1
  <2>4. QED
    BY <1>2, <2>2, <2>3
<1>4. Chunk(m, i) = SubSeq(m, a + 1, b)
  BY Zenon DEF Chunk
<1> HIDE DEF a, b, wb, w
<1>5. \A j \in 1 .. Len(m) : m[j] \in S
  BY ElementOfSeq
<1>6. SubSeq(m, a + 1, b) \in Seq(S)
  <2>1. \A j \in a + 1 .. b : j \in 1 .. Len(m)
    BY <1>2, <1>3
  <2>2. a + 1 \in Int /\ b \in Int
    BY <1>3
  <2>3. \A j \in a + 1 .. b : m[j] \in S
    BY <1>5, <2>1
  <2>4. QED
    BY <2>2, <2>3, SubSeqProperties
<1>7. QED
  BY <1>4, <1>6

\* The sum of a message has a summand for each whole block.
LEMMA SumIsSeq ==
  ASSUME NEW S, NEW m \in Seq(S), NEW k
  PROVE  /\ Sum(k, m) \in Seq(Summands(Seq(S), k))
         /\ Len(Sum(k, m)) = Whole(m)
         /\ \A i \in 1 .. Whole(m) :
              Sum(k, m)[i] = Summand(k, Chunk(m, i), i)
<1> DEFINE w == Whole(m)
           E == Summands(Seq(S), k)
<1>1. w \in Nat
  BY WholeBlocks
<1>2. \A i \in 1 .. w : Summand(k, Chunk(m, i), i) \in E
  BY ChunkIsSeq DEF Summand, Summands
<1>3. Sum(k, m) = [i \in 1 .. w |-> Summand(k, Chunk(m, i), i)]
  BY Zenon DEF Sum
<1> HIDE DEF w, E
<1>4. Sum(k, m) \in Seq(E) /\ Len(Sum(k, m)) = w
  <2>1. Sum(k, m) \in [1 .. w -> E]
    BY <1>2, <1>3
  <2>2. QED
    BY <1>1, <2>1
<1>5. \A i \in 1 .. w :
        Sum(k, m)[i] = Summand(k, Chunk(m, i), i)
  BY <1>3
<1>6. QED
  BY <1>4, <1>5 DEF w, E

\* The blocks of a message and what is added to it.
LEMMA SumOfJoin ==
  ASSUME NEW S, NEW m \in Seq(S), NEW d \in Seq(S)
  PROVE  /\ Rest(m) \o d \in Seq(S)
         /\ Whole(Rest(m) \o d) \in Nat
         /\ Whole(m \o d) = Whole(m) + Whole(Rest(m) \o d)
         /\ Rest(m \o d) = Rest(Rest(m) \o d)
         /\ \A i \in 1 .. Whole(m) : Chunk(m \o d, i) = Chunk(m, i)
         /\ \A i \in 1 .. Whole(Rest(m) \o d) :
              Chunk(m \o d, Whole(m) + i) = Chunk(Rest(m) \o d, i)
<1> DEFINE all == Rest(m) \o d
<1>0. all = Rest(m) \o d
  OBVIOUS
<1> HIDE DEF all
<1> DEFINE w == Whole(m)
           n == Len(all) \div Block
           f == SubSeq(m, 1, w * Block)
<1>1. /\ Block \in Nat \ {0} /\ Len(m) \in Nat /\ w \in Nat /\ w * Block \in 0 .. Len(m)
      /\ Rest(m) \in Seq(S) /\ f \in Seq(S) /\ Len(f) = w * Block /\ f \o Rest(m) = m
  BY WholeBlocks, PolyAssumption
<1>2. all \in Seq(S) /\ Len(all) \in Nat
  BY <1>0, <1>1, ConcatProperties, LenProperties
<1>3. n \in Nat /\ n * Block \in 0 .. Len(all)
  <2> DEFINE x == Len(all) % Block
  <2>1. n \in Nat /\ x \in 0 .. Block - 1 /\ Len(all) = n * Block + x
    BY <1>1, <1>2, DivMod
  <2>2. n * Block \in Nat
    BY <1>1, <2>1
  <2> HIDE DEF n, x
  <2>3. QED
    BY <1>1, <2>1, <2>2
<1> DEFINE rest == Rest(m)
<1> HIDE DEF f, w, rest
<1>4. m \o d = f \o all
  <2>1. f \in Seq(S) /\ rest \in Seq(S) /\ f \o rest = m /\ all = rest \o d
    BY <1>0, <1>1 DEF rest
  <2>2. (f \o rest) \o d = f \o (rest \o d)
    <3>1. d \in Seq(S)
      OBVIOUS
    <3>2. QED
      <4>1. \A x, y, z \in Seq(S) : (x \o y) \o z = x \o (y \o z)
        BY Joined
      <4>2. \A y, z \in Seq(S) : (f \o y) \o z = f \o (y \o z)
        BY <4>1, <2>1
      <4>3. \A z \in Seq(S) : (f \o rest) \o z = f \o (rest \o z)
        BY <4>2, <2>1
      <4>4. QED
        BY <3>1, <4>3
  <2>3. QED
    BY <2>1, <2>2
<1>5. Len(m \o d) = w * Block + Len(all)
  <2>1. f \in Seq(S) /\ all \in Seq(S)
    BY <1>1, <1>2
  <2>2. Len(f \o all) = Len(f) + Len(all)
    BY ONLY <2>1, ConcatProperties
  <2>3. QED
    BY <1>1, <1>4, <2>2
<1>6. Whole(m \o d) = w + n
  <2>1. (w * Block + Len(all)) \div Block = w + Len(all) \div Block
    BY <1>1, <1>2, DivAdd
  <2>2. QED
    BY <1>5, <2>1 DEF Whole
<1> HIDE DEF n
<1>7. Rest(m \o d) = SubSeq(all, n * Block + 1, Len(all))
  <2>1. (w + n) * Block + 1 = w * Block + (n * Block + 1)
    BY <1>1, <1>3
  <2> DEFINE a == n * Block + 1
             wb == w * Block
  <2>2. a \in Nat \ {0} /\ Len(all) <= Len(all) /\ wb = Len(f)
    <3>1. n * Block \in Nat
      BY ONLY <1>2, <1>3
    <3>2. QED
      BY ONLY <1>1, <1>2, <3>1
  <2> HIDE DEF a, wb
  <2>3. SubSeq(f \o all, wb + a, wb + Len(all)) = SubSeq(all, a, Len(all))
    <3> DEFINE l == Len(all)
    <3>1. /\ f \in Seq(S) /\ all \in Seq(S) /\ wb = Len(f) /\ a \in Nat \ {0}
          /\ l \in Nat /\ l <= Len(all)
      BY <1>1, <1>2, <2>2
    <3> DEFINE u == wb + a
               v == wb + l
    <3>2. /\ u \in Nat /\ v \in Nat /\ Len(f) < u /\ Len(f) <= v /\ v <= Len(f) + Len(all)
          /\ u - Len(f) = a /\ v - Len(f) = l
      BY <1>1, <3>1
    <3> HIDE DEF l, u, v
    <3>3. SubSeq(f \o all, u, v) = SubSeq(all, u - Len(f), v - Len(f))
      BY ONLY <3>1, <3>2, CutBehind
    <3>4. QED
      BY <3>2, <3>3 DEF l, u, v
  <2>4. QED
    BY <1>4, <1>5, <1>6, <2>1, <2>3, Zenon DEF Rest, a, wb
<1>8. ASSUME NEW i \in 1 .. w
      PROVE  SubSeq(m \o d, (i - 1) * Block + 1, i * Block)
               = SubSeq(m, (i - 1) * Block + 1, i * Block)
  <2>1. (i - 1) * Block \in Nat /\ i * Block \in Nat
    BY <1>1
  <2>2. i * Block <= w * Block
    <3>1. (w - i) \in Nat
      BY <1>1
    <3>2. (w - i) * Block \in Nat /\ (w - i) * Block = w * Block - i * Block
      BY <1>1, <3>1
    <3>3. QED
      BY <1>1, <2>1, <3>2
  <2> DEFINE a == (i - 1) * Block
             b == i * Block
             wb == w * Block
  <2> HIDE DEF a, b, wb
  <2>3. a + 1 \in Nat \ {0} /\ b \in Nat /\ b <= Len(m)
    <3>1. a \in Nat /\ b \in Nat /\ b <= wb
      BY <2>1, <2>2 DEF a, b, wb
    <3>2. wb \in 0 .. Len(m) /\ Len(m) \in Nat
      BY <1>1 DEF wb
    <3>3. QED
      BY ONLY <3>1, <3>2
  <2>4. QED
    BY <2>3, CutInFront DEF a, b
<1>9. ASSUME NEW i \in 1 .. n
      PROVE  SubSeq(m \o d, ((w + i) - 1) * Block + 1, (w + i) * Block)
               = SubSeq(all, (i - 1) * Block + 1, i * Block)
  <2>1. (i - 1) * Block \in Nat /\ i * Block \in Nat
    BY <1>1
  <2>2. i * Block <= n * Block
    <3>1. (n - i) \in Nat
      BY <1>3
    <3>2. (n - i) * Block \in Nat /\ (n - i) * Block = n * Block - i * Block
      BY <1>1, <1>3, <3>1
    <3>3. QED
      BY <1>3, <2>1, <3>2
  <2>3. (i - 1) * Block + 1 \in Nat \ {0} /\ i * Block <= Len(all)
    BY <1>2, <1>3, <2>1, <2>2
  <2>4. /\ ((w + i) - 1) * Block + 1 = w * Block + ((i - 1) * Block + 1)
        /\ (w + i) * Block = w * Block + i * Block
    BY <1>1, <1>3
  <2>6. SubSeq(f \o all, w * Block + ((i - 1) * Block + 1), w * Block + i * Block)
          = SubSeq(all, (i - 1) * Block + 1, i * Block)
    <3> DEFINE wb == w * Block
               a == (i - 1) * Block + 1
               b == i * Block
               u == wb + a
               v == wb + b
    <3>1. /\ f \in Seq(S) /\ all \in Seq(S) /\ wb = Len(f) /\ a \in Nat \ {0}
          /\ b \in Nat /\ b <= Len(all)
      BY <1>1, <1>2, <2>1, <2>3
    <3>2. /\ u \in Nat /\ v \in Nat /\ Len(f) < u /\ Len(f) <= v /\ v <= Len(f) + Len(all)
          /\ u - Len(f) = a /\ v - Len(f) = b
      BY <1>1, <3>1
    <3> HIDE DEF wb, a, b, u, v
    <3>3. SubSeq(f \o all, u, v) = SubSeq(all, u - Len(f), v - Len(f))
      BY ONLY <3>1, <3>2, CutBehind
    <3>4. QED
      BY <3>2, <3>3 DEF wb, a, b, u, v
  <2>7. QED
    BY <1>4, <2>4, <2>6
<1>10. QED
  <2>1. n = Whole(all) /\ Rest(all) = SubSeq(all, n * Block + 1, Len(all))
    BY DEF n, Whole, Rest
  <2>2. \A i \in 1 .. w : Chunk(m \o d, i) = Chunk(m, i)
    BY <1>8, Zenon DEF Chunk
  <2>3. \A i \in 1 .. n : Chunk(m \o d, w + i) = Chunk(all, i)
    <3>1. TAKE i \in 1 .. n
    <3>2. SubSeq(m \o d, ((w + i) - 1) * Block + 1, (w + i) * Block)
            = SubSeq(all, (i - 1) * Block + 1, i * Block)
      BY <1>9
    <3>3. QED
      BY <3>2, Zenon DEF Chunk
  <2>4. /\ all \in Seq(S) /\ Whole(all) \in Nat /\ Whole(m \o d) = w + Whole(all)
        /\ Rest(m \o d) = Rest(all)
    BY <1>2, <1>3, <1>6, <1>7, <2>1, Zenon
  <2>5. \A i \in 1 .. Whole(all) : Chunk(m \o d, w + i) = Chunk(all, i)
    BY <2>1, <2>3, Zenon
  <2>6. QED
    BY <2>2, <2>4, <2>5, Zenon DEF w, all

\* What is joined to an accumulator, one block after the other.
LEMMA AbsorbIs ==
  ASSUME NEW S, NEW blocks \in Seq(S), NEW k, NEW acc \in Seq(Summands(S, k))
  PROVE  /\ Absorb(acc, k, blocks) \in Seq(Summands(S, k))
         /\ Len(Absorb(acc, k, blocks)) = Len(acc) + Len(blocks)
         /\ \A i \in 1 .. Len(acc) : Absorb(acc, k, blocks)[i] = acc[i]
         /\ \A i \in 1 .. Len(blocks) :
              Absorb(acc, k, blocks)[Len(acc) + i]
                = Summand(k, blocks[i], Len(acc) + i)
<1> DEFINE w == Len(acc)
           n == Len(blocks)
           E == Summands(S, k)
<1>0. w \in Nat /\ n \in Nat /\ DOMAIN blocks = 1 .. n
  BY LenProperties
<1> DEFINE add == [i \in 1 .. n |->
                    [blk |-> blocks[i], r |-> IF acc = <<>> /\ i = 1 THEN NoKey ELSE k]]
<1>1. Absorb(acc, k, blocks) = acc \o add
  BY <1>0, Zenon DEF Absorb
<1>2. acc = <<>> <=> w = 0
  BY EmptySeq
<1>3. add \in Seq(E) /\ Len(add) = n
  <2>1. ASSUME NEW i \in 1 .. n
        PROVE  [blk |-> blocks[i], r |-> IF acc = <<>> /\ i = 1 THEN NoKey ELSE k] \in E
    <3>1. blocks[i] \in S
      BY ElementOfSeq
    <3>2. QED
      BY <3>1 DEF Summands
  <2>2. add \in [1 .. n -> E]
    BY <2>1
  <2> HIDE DEF E, n, add
  <2>3. QED
    BY <1>0, <2>2
<1> HIDE DEF w, n
<1>4. \A i \in 1 .. n :
        add[i] = Summand(k, blocks[i], w + i)
  <2>1. TAKE i \in 1 .. n
  <2>2. acc = <<>> /\ i = 1 <=> w + i = 1
    BY <1>0, <1>2
  <2>3. add[i] = [blk |-> blocks[i], r |-> IF acc = <<>> /\ i = 1 THEN NoKey ELSE k]
    OBVIOUS
  <2>4. QED
    BY <2>2, <2>3 DEF Summand
<1>5. acc \in Seq(E) /\ Len(acc) = w
  BY DEF w
<1> HIDE DEF add, E
<1>6. /\ acc \o add \in Seq(E)
      /\ Len(acc \o add) = w + n
      /\ \A i \in 1 .. w + n : (acc \o add)[i] = IF i <= w THEN acc[i] ELSE add[i - w]
  BY <1>3, <1>5, ConcatProperties
<1>7. \A i \in 1 .. w : (acc \o add)[i] = acc[i]
  <2> DEFINE h == acc \o add
  <2>1. \A i \in 1 .. w + n : h[i] = IF i <= w THEN acc[i] ELSE add[i - w]
    BY <1>6
  <2> HIDE DEF h
  <2>2. \A i \in 1 .. w : h[i] = acc[i]
    BY ONLY <1>0, <2>1
  <2>3. QED
    BY <2>2 DEF h
<1>8. ASSUME NEW i \in 1 .. n
      PROVE  (acc \o add)[w + i] = add[i]
  <2>1. w + i \in 1 .. w + n /\ ~(w + i <= w) /\ (w + i) - w = i
    BY <1>0
  <2>2. QED
    BY <1>6, <2>1
<1>9. \A i \in 1 .. n :
        (acc \o add)[w + i] = Summand(k, blocks[i], w + i)
  BY <1>4, <1>8
<1>10. QED
  BY <1>1, <1>6, <1>7, <1>9, Zenon DEF w, n, E

\* Updating an object that holds a message adds to the message.
LEMMA UpdateHolds ==
  ASSUME NEW S, NEW m \in Seq(S), NEW d \in Seq(S), NEW k,
         NEW p, PolyObject(p), Holds(p, k, m)
  PROVE  /\ Holds(PolyUpdate(p, d), k, m \o d)
         /\ PolyObject(PolyUpdate(p, d))
         /\ PolyUpdate(p, d).fin = p.fin
<1> DEFINE all == Rest(m) \o d
<1>0. all = Rest(m) \o d
  OBVIOUS
<1> HIDE DEF all
<1> DEFINE n == Whole(all)
           w == Whole(m)
           blocks == [i \in 1 .. n |-> Chunk(all, i)]
<1>1. /\ n \in Nat
      /\ Whole(m \o d) = w + n
      /\ Rest(m \o d) = Rest(all)
      /\ \A i \in 1 .. w : Chunk(m \o d, i) = Chunk(m, i)
      /\ \A i \in 1 .. n : Chunk(m \o d, w + i) = Chunk(all, i)
  <2>1. \A i \in 1 .. n : Chunk(m \o d, w + i) = Chunk(all, i)
    BY <1>0, SumOfJoin, SMT
  <2>2. \A i \in 1 .. w : Chunk(m \o d, i) = Chunk(m, i)
    BY SumOfJoin, Zenon
  <2>3. n \in Nat /\ Whole(m \o d) = w + n /\ Rest(m \o d) = Rest(all)
    BY <1>0, SumOfJoin, Zenon
  <2>4. QED
    BY <2>1, <2>2, <2>3, Zenon
<1>2. w \in Nat
  BY WholeBlocks
<1>3. p.key = k /\ p.acc = Sum(k, m) /\ p.buf = Rest(m)
  BY DEF Holds
<1>4. blocks \in Seq(Seq(S)) /\ Len(blocks) = n
  <2>1. all \in Seq(S)
    BY <1>0, SumOfJoin
  <2>2. \A i \in 1 .. n : Chunk(all, i) \in Seq(S)
    BY <2>1, ChunkIsSeq
  <2> HIDE DEF n
  <2>3. QED
    BY <1>1, <2>2
<1>5. PolyUpdate(p, d)
        = [p EXCEPT !.acc = Absorb(@, p.key, blocks), !.buf = Rest(all)]
  BY <1>0, <1>3, Zenon DEF PolyUpdate, Whole, Chunk, Rest
<1>6. \A i \in 1 .. n : blocks[i] = Chunk(all, i)
  OBVIOUS
<1> HIDE DEF n, blocks, w
<1>7. /\ PolyUpdate(p, d).acc = Absorb(p.acc, p.key, blocks)
      /\ PolyUpdate(p, d).buf = Rest(all)
      /\ PolyUpdate(p, d).key = p.key
      /\ PolyUpdate(p, d).fin = p.fin
      /\ PolyObject(PolyUpdate(p, d))
  BY <1>5 DEF PolyObject
<1> DEFINE acc == Sum(k, m)
<1> DEFINE E == Summands(Seq(S), k)
<1>8. /\ acc \in Seq(E) /\ Len(acc) = w
      /\ \A i \in 1 .. w : acc[i] = Summand(k, Chunk(m, i), i)
  BY SumIsSeq, Zenon DEF w
<1> HIDE DEF acc
<1> DEFINE joined == Absorb(acc, k, blocks)
<1>9. /\ joined \in Seq(E) /\ Len(joined) = w + n
      /\ \A i \in 1 .. w : joined[i] = acc[i]
      /\ \A i \in 1 .. n :
           joined[w + i] = Summand(k, blocks[i], w + i)
  <2>1. acc \in Seq(Summands(Seq(S), k)) /\ Len(acc) = w
    BY <1>8
  <2>2. /\ joined \in Seq(E)
        /\ Len(joined) = Len(acc) + Len(blocks)
        /\ \A i \in 1 .. Len(acc) : joined[i] = acc[i]
    BY ONLY <1>4, <2>1, AbsorbIs
  <2>3. \A i \in 1 .. Len(blocks) :
          joined[Len(acc) + i] = Summand(k, blocks[i], Len(acc) + i)
    <3> DEFINE B == Seq(S)
    <3>1. blocks \in Seq(B) /\ acc \in Seq(Summands(B, k))
      BY <1>4, <2>1
    <3> HIDE DEF B
    <3>2. QED
      BY <3>1, AbsorbIs, SMT
  <2>4. QED
    BY <1>4, <2>1, <2>2, <2>3, Zenon
<1> HIDE DEF joined
<1>11. ASSUME NEW i \in 1 .. w + n
       PROVE  joined[i] = Summand(k, Chunk(m \o d, i), i)
  <2>1. CASE i <= w
    <3>1. i \in 1 .. w
      BY <1>2, <2>1
    <3>2. QED
      BY <1>1, <1>8, <1>9, <3>1
  <2>2. CASE ~(i <= w)
    <3>1. i - w \in 1 .. n /\ w + (i - w) = i
      BY <1>1, <1>2, <2>2
    <3>2. blocks[i - w] = Chunk(m \o d, i)
      BY <1>1, <1>6, <3>1
    <3>3. joined[i] = Summand(k, blocks[i - w], i)
      BY <1>9, <3>1
    <3>4. QED
      BY <3>2, <3>3
  <2>3. QED
    BY <2>1, <2>2
<1>12. joined = Sum(k, m \o d)
  <2>1. m \o d \in Seq(S)
    BY ConcatProperties
  <2>2. /\ Sum(k, m \o d) \in Seq(E) /\ Len(Sum(k, m \o d)) = Whole(m \o d)
        /\ \A i \in 1 .. Whole(m \o d) :
             Sum(k, m \o d)[i] = Summand(k, Chunk(m \o d, i), i)
    BY <2>1, SumIsSeq, Zenon
  <2> DEFINE g == Sum(k, m \o d)
  <2>3. g \in Seq(E) /\ Len(g) = Len(joined) /\ \A i \in 1 .. Len(g) : joined[i] = g[i]
    BY <1>1, <1>9, <1>11, <2>2
  <2> HIDE DEF g, E
  <2>4. joined = g
    BY <1>9, <2>3, SeqEqual
  <2>5. QED
    BY <2>4 DEF g
<1>13. QED
  BY <1>1, <1>3, <1>7, <1>12, Zenon DEF Holds, acc, joined

\* A key given to an object with nothing in it.
LEMMA NothingHeld ==
  ASSUME NEW k, NEW p, p.key = k, p.acc = <<>>, p.buf = <<>>
  PROVE  Holds(p, k, <<>>)
<1>1. Len(<<>>) = 0 /\ Whole(<<>>) = 0
  BY PolyAssumption, DivMod DEF Whole
<1>2. Sum(k, <<>>) = <<>>
  BY <1>1 DEF Sum
<1>3. Rest(<<>>) = <<>>
  BY <1>1 DEF Rest
<1>4. QED
  BY <1>2, <1>3 DEF Holds

\* Where the i-th block of a message ends, and the block, a short one included.
End(m, i) == IF i * Block < Len(m) THEN i * Block ELSE Len(m)

MacBlock(m, i) == SubSeq(m, (i - 1) * Block + 1, End(m, i))

\* The blocks of a MAC are the whole blocks and the rest, if there is one.
LEMMA MacBlocks ==
  ASSUME NEW S, NEW m \in Seq(S)
  PROVE  /\ (Len(m) + Block - 1) \div Block
              = IF Rest(m) = <<>> THEN Whole(m) ELSE Whole(m) + 1
         /\ \A i \in 1 .. Whole(m) : MacBlock(m, i) = Chunk(m, i)
         /\ Rest(m) # <<>> => MacBlock(m, Whole(m) + 1) = Rest(m)
<1> DEFINE q == Whole(m)
           R == Len(Rest(m))
           len == Len(m)
<1>1. /\ len \in Nat /\ q \in Nat /\ q * Block \in Nat /\ R \in 0 .. Block - 1
      /\ len = q * Block + R /\ Block \in Nat \ {0} /\ Rest(m) \in Seq(S)
  BY WholeBlocks, PolyAssumption
<1>2. Rest(m) = <<>> <=> R = 0
  BY <1>1, EmptySeq
<1>3. (len + Block - 1) \div Block = IF Rest(m) = <<>> THEN q ELSE q + 1
  <2>1. CASE R = 0
    <3>1. Block - 1 \in 0 .. Block - 1 /\ len + Block - 1 = q * Block + (Block - 1)
      BY <1>1, <2>1
    <3> HIDE DEF q, len
    <3>2. (q * Block + (Block - 1)) \div Block = q
      BY <1>1, <3>1, DivUnique
    <3>3. QED
      BY <1>2, <2>1, <3>1, <3>2, Zenon
  <2>2. CASE R # 0
    <3>1. /\ R - 1 \in 0 .. Block - 1 /\ q + 1 \in Nat
          /\ len + Block - 1 = (q + 1) * Block + (R - 1)
      BY <1>1, <2>2
    <3> HIDE DEF q, len, R
    <3>2. ((q + 1) * Block + (R - 1)) \div Block = q + 1
      BY <1>1, <3>1, DivUnique
    <3>3. QED
      BY <1>2, <2>2, <3>1, <3>2, Zenon
  <2>3. QED
    BY <2>1, <2>2
<1>4. ASSUME NEW i \in 1 .. q
      PROVE  MacBlock(m, i) = Chunk(m, i)
  <2>1. i * Block \in Nat /\ i * Block <= q * Block
    <3>1. i \in Nat /\ q - i \in Nat
      BY <1>1
    <3>2. (q - i) * Block \in Nat /\ (q - i) * Block = q * Block - i * Block
      BY <1>1, <3>1
    <3>3. i * Block \in Nat
      BY <1>1, <3>1
    <3> HIDE DEF q
    <3>4. QED
      BY <1>1, <3>2, <3>3
  <2>2. End(m, i) = i * Block
    <3> DEFINE ib == i * Block
               qb == q * Block
    <3>1. ib \in Nat /\ qb \in Nat /\ ib <= qb /\ len = qb + R /\ R \in Nat
      BY <1>1, <2>1
    <3>2. End(m, i) = IF ib < len THEN ib ELSE len
      BY DEF End
    <3> HIDE DEF ib, qb, len, R
    <3>3. End(m, i) = ib
      BY <3>1, <3>2
    <3>4. QED
      BY <3>3 DEF ib
  <2>3. QED
    BY <2>2, Zenon DEF MacBlock, Chunk
<1>5. ASSUME Rest(m) # <<>>
      PROVE  MacBlock(m, q + 1) = Rest(m)
  <2>1. (q + 1) - 1 = q /\ (q + 1) * Block = q * Block + Block
    BY <1>1
  <2>2. End(m, q + 1) = len
    <3> DEFINE qb == q * Block
    <3>1. qb \in Nat /\ len = qb + R /\ R \in 0 .. Block - 1 /\ Block \in Nat
      BY <1>1
    <3>2. End(m, q + 1) = IF qb + Block < len THEN qb + Block ELSE len
      BY <2>1 DEF End
    <3> HIDE DEF qb, len, R, q
    <3>3. QED
      BY <3>1, <3>2
  <2>3. MacBlock(m, q + 1) = SubSeq(m, q * Block + 1, len)
    BY <2>1, <2>2, Zenon DEF MacBlock
  <2>4. QED
    BY <2>3, Zenon DEF Rest
<1>6. QED
  BY <1>3, <1>4, <1>5

\* The tag of an object that has taken in a message is the message's.
LEMMA TagOfHeld ==
  ASSUME NEW S, NEW m \in Seq(S), NEW k, NEW p, Holds(p, k, m)
  PROVE  PolyTag(p) = PolyMac(k, m)
<1> DEFINE q == Whole(m)
           n == (Len(m) + Block - 1) \div Block
           last == LastBlock(p)
           acc == Sum(k, m)
           B == Seq(S)
           E == Summands(B, k)
           sum == Absorb(acc, k, last)
           mac == [i \in 1 .. n |-> Summand(k, MacBlock(m, i), i)]
<1>1. p.key = k /\ p.acc = acc /\ p.buf = Rest(m) /\ q \in Nat /\ Rest(m) \in B
  BY WholeBlocks DEF Holds
<1>2. PolyTag(p) = [acc |-> sum, key |-> k]
  BY <1>1, Zenon DEF PolyTag
<1>3. PolyMac(k, m) = [acc |-> mac, key |-> k]
  BY DEF PolyMac, Summand, MacBlock, End
<1>4. /\ n = IF Rest(m) = <<>> THEN q ELSE q + 1
      /\ \A i \in 1 .. q : MacBlock(m, i) = Chunk(m, i)
      /\ Rest(m) # <<>> => MacBlock(m, q + 1) = Rest(m)
  BY MacBlocks
<1>5. n \in Nat
  <2> HIDE DEF n, q
  <2>1. QED
    BY <1>1, <1>4
<1>6. acc \in Seq(E) /\ Len(acc) = q /\ \A i \in 1 .. q : acc[i] = Summand(k, Chunk(m, i), i)
  BY SumIsSeq, Zenon
<1>7. last = IF Rest(m) = <<>> THEN <<>> ELSE <<Rest(m)>>
  BY <1>1, Zenon DEF LastBlock
<1>8. last \in Seq(B) /\ Len(last) = n - q /\ (Rest(m) # <<>> => last[1] = Rest(m))
  <2> HIDE DEF last, n, q, B
  <2>1. CASE Rest(m) = <<>>
    BY <1>1, <1>4, <1>7, <2>1, EmptySeq
  <2>2. CASE Rest(m) # <<>>
    BY <1>1, <1>4, <1>7, <2>2
  <2>3. QED
    BY <2>1, <2>2
<1> HIDE DEF n, q, last, acc, B, E
<1>9. /\ sum \in Seq(E)
      /\ Len(sum) = Len(acc) + Len(last)
      /\ \A i \in 1 .. Len(acc) : sum[i] = acc[i]
  <2>1. acc \in Seq(Summands(B, k)) /\ last \in Seq(B)
    BY <1>6, <1>8 DEF E
  <2>2. QED
    BY ONLY <2>1, AbsorbIs DEF E
<1>10. \A i \in 1 .. Len(last) : sum[Len(acc) + i] = Summand(k, last[i], Len(acc) + i)
  <2>1. acc \in Seq(Summands(B, k)) /\ last \in Seq(B)
    BY <1>6, <1>8 DEF E
  <2>2. QED
    BY ONLY <2>1, AbsorbIs
<1> HIDE DEF sum
<1>11. Len(sum) = n
  BY <1>1, <1>5, <1>6, <1>8, <1>9
<1>12. ASSUME NEW i \in 1 .. n
       PROVE  sum[i] = Summand(k, MacBlock(m, i), i)
  <2>1. CASE i \in 1 .. q
    <3>1. sum[i] = acc[i]
      BY <1>6, <1>9, <2>1
    <3>2. QED
      BY <1>4, <1>6, <2>1, <3>1
  <2>2. CASE i \notin 1 .. q
    <3>1. Rest(m) # <<>> /\ i = q + 1 /\ Len(last) = 1
      BY <1>1, <1>4, <1>5, <1>8, <2>2
    <3>2. sum[q + 1] = Summand(k, last[1], q + 1)
      BY <1>6, <1>10, <3>1
    <3>3. QED
      BY <1>4, <1>8, <3>1, <3>2, Zenon
  <2>3. QED
    BY <2>1, <2>2
<1>13. sum = mac
  <2>1. sum \in Seq(E) /\ Len(sum) = n /\ n \in Nat
    BY <1>5, <1>9, <1>11
  <2>2. sum = [i \in 1 .. n |-> sum[i]]
    BY <2>1, LenProperties
  <2>3. QED
    BY <1>12, <2>2
<1>14. QED
  BY <1>2, <1>3, <1>13

-----------------------------------------------------------------------------
(* Bytes.                                                                  *)

RawBytes == [b : Nat, ks : {{}}]

Bytes(d) == RawBytes \cup {d[i] : i \in DOMAIN d}

IsBytes(d) == d \in Seq(Bytes(d))

\* Numbers as bytes no keystream has masked.
LEMMA RawIsBytes ==
  ASSUME NEW m \in Seq(Nat)
  PROVE  /\ Raw(m) \in Seq(RawBytes) /\ Len(Raw(m)) = Len(m)
         /\ \A i \in 1 .. Len(m) : Raw(m)[i] = [b |-> m[i], ks |-> {}]
<1>1. Len(m) \in Nat /\ \A i \in 1 .. Len(m) : m[i] \in Nat
  BY LenProperties, ElementOfSeq
<1>2. Raw(m) \in [1 .. Len(m) -> RawBytes]
  BY <1>1 DEF Raw, RawBytes
<1>3. Raw(m) \in Seq(RawBytes) /\ Len(Raw(m)) = Len(m)
  BY <1>1, <1>2
<1>4. QED
  BY <1>3 DEF Raw

\* Unmasked bytes are bytes.
LEMMA BytesAreBytes ==
  ASSUME NEW d \in Seq(RawBytes)
  PROVE  IsBytes(d)
<1>1. RawBytes \subseteq Bytes(d)
  BY DEF Bytes
<1>2. QED
  BY <1>1, SeqMonotonic DEF IsBytes

\* Zeros are unmasked bytes, none if fewer than one is asked for.
LEMMA ZerosAre ==
  ASSUME NEW n \in Int
  PROVE  Zeros(n) \in Seq(RawBytes) /\ Len(Zeros(n)) = IF n > 0 THEN n ELSE 0
<1> DEFINE z == [i \in 1 .. n |-> 0]
<1>1. z \in Seq(Nat) /\ Len(z) = IF n > 0 THEN n ELSE 0
  <2>1. CASE n > 0
    <3>1. z \in [1 .. n -> Nat] /\ n \in Nat
      BY <2>1
    <3> HIDE DEF z
    <3>2. z \in Seq(Nat) /\ Len(z) = n
      BY <3>1
    <3>3. QED
      BY <2>1, <3>2
  <2>2. CASE ~(n > 0)
    <3>1. z = <<>>
      BY <2>2
    <3> HIDE DEF z
    <3>2. QED
      BY <2>2, <3>1, EmptySeq
  <2>3. QED
    BY <2>1, <2>2
<1>2. Zeros(n) = Raw(z)
  BY Zenon DEF Zeros
<1> HIDE DEF z
<1>3. QED
  BY <1>1, <1>2, RawIsBytes

\* The bytes of two joined sequences of numbers.
LEMMA RawOfJoin ==
  ASSUME NEW m \in Seq(Nat), NEW d \in Seq(Nat)
  PROVE  Raw(m \o d) = Raw(m) \o Raw(d)
<1> DEFINE f == Raw(m \o d)
           g == Raw(m)
           h == Raw(d)
<1>1. /\ m \o d \in Seq(Nat) /\ Len(m \o d) = Len(m) + Len(d)
      /\ \A i \in 1 .. Len(m) + Len(d) :
           (m \o d)[i] = IF i <= Len(m) THEN m[i] ELSE d[i - Len(m)]
  BY ConcatProperties
<1>2. /\ f \in Seq(RawBytes) /\ Len(f) = Len(m) + Len(d)
      /\ \A i \in 1 .. Len(m) + Len(d) : f[i] = [b |-> (m \o d)[i], ks |-> {}]
  BY <1>1, RawIsBytes
<1>3. /\ g \in Seq(RawBytes) /\ Len(g) = Len(m)
      /\ \A i \in 1 .. Len(m) : g[i] = [b |-> m[i], ks |-> {}]
  BY RawIsBytes
<1>4. /\ h \in Seq(RawBytes) /\ Len(h) = Len(d)
      /\ \A i \in 1 .. Len(d) : h[i] = [b |-> d[i], ks |-> {}]
  BY RawIsBytes
<1> HIDE DEF f, g, h
<1>5. /\ g \o h \in Seq(RawBytes) /\ Len(g \o h) = Len(m) + Len(d)
      /\ \A i \in 1 .. Len(m) + Len(d) :
           (g \o h)[i] = IF i <= Len(m) THEN g[i] ELSE h[i - Len(m)]
  <2>1. /\ g \o h \in Seq(RawBytes) /\ Len(g \o h) = Len(g) + Len(h)
        /\ \A i \in 1 .. Len(g) + Len(h) :
             (g \o h)[i] = IF i <= Len(g) THEN g[i] ELSE h[i - Len(g)]
    <3>1. g \in Seq(RawBytes) /\ h \in Seq(RawBytes)
      BY <1>3, <1>4
    <3>2. QED
      BY ONLY <3>1, ConcatProperties
  <2>2. QED
    BY <1>3, <1>4, <2>1
<1>6. Len(m) \in Nat /\ Len(d) \in Nat
  BY LenProperties
<1>7. ASSUME NEW i \in 1 .. Len(m) + Len(d)
      PROVE  f[i] = (g \o h)[i]
  <2>1. CASE i <= Len(m)
    BY <1>1, <1>2, <1>3, <1>5, <1>6, <2>1
  <2>2. CASE ~(i <= Len(m))
    <3>1. i - Len(m) \in 1 .. Len(d)
      BY <1>6, <2>2
    <3>2. QED
      BY <1>1, <1>2, <1>4, <1>5, <2>2, <3>1
  <2>3. QED
    BY <2>1, <2>2
<1>8. f = g \o h
  BY <1>2, <1>5, <1>7, SeqEqual
<1>9. QED
  BY <1>8 DEF f, g, h

\* Masking keeps bytes bytes, and their number.
LEMMA XoredIsBytes ==
  ASSUME NEW d, IsBytes(d), NEW name
  PROVE  IsBytes(Xored(d, name)) /\ Len(Xored(d, name)) = Len(d)
<1> DEFINE x == Xored(d, name)
<1>1. Len(d) \in Nat /\ DOMAIN d = 1 .. Len(d)
  BY LenProperties DEF IsBytes
<1>2. DOMAIN x = 1 .. Len(d) /\ x = [i \in 1 .. Len(d) |-> x[i]]
  BY <1>1 DEF Xored
<1> HIDE DEF x
<1>3. \A i \in 1 .. Len(d) : x[i] \in Bytes(x)
  BY <1>2 DEF Bytes
<1>4. x \in [1 .. Len(d) -> Bytes(x)]
  BY <1>2, <1>3
<1>5. x \in Seq(Bytes(x)) /\ Len(x) = Len(d)
  BY <1>1, <1>4
<1>6. QED
  BY <1>5 DEF IsBytes, x

\* A byte masked with a keystream byte.
Masked(e, n) == [e EXCEPT !.ks = (@ \ {n}) \cup ({n} \ @)]

\* A mask taken on and off.
LEMMA MaskTwice ==
  ASSUME NEW v, NEW n
  PROVE  /\ Masked([b |-> v, ks |-> {}], n) = [b |-> v, ks |-> {n}]
         /\ Masked([b |-> v, ks |-> {n}], n) = [b |-> v, ks |-> {}]
<1>1. ({} \ {n}) \cup ({n} \ {}) = {n} /\ ({n} \ {n}) \cup ({n} \ {n}) = {}
  OBVIOUS
<1>2. QED
  BY <1>1 DEF Masked

\* Masking twice with the same keystream.
LEMMA XoredTwice ==
  ASSUME NEW d \in Seq(RawBytes), NEW name
  PROVE  Xored(Xored(d, name), name) = d
<1> DEFINE x == Xored(d, name)
           y == Xored(x, name)
<1>1. /\ Len(d) \in Nat /\ DOMAIN d = 1 .. Len(d) /\ d = [i \in 1 .. Len(d) |-> d[i]]
      /\ \A i \in 1 .. Len(d) : d[i] \in RawBytes
  BY LenProperties, ElementOfSeq
<1>2. /\ DOMAIN x = 1 .. Len(d)
      /\ \A i \in 1 .. Len(d) : x[i] = Masked(d[i], name[i])
  BY <1>1 DEF Xored, Masked
<1>3. y = [i \in DOMAIN x |-> Masked(x[i], name[i])]
  BY Zenon DEF Xored, Masked
<1> HIDE DEF x, y
<1>4. ASSUME NEW i \in 1 .. Len(d)
      PROVE  y[i] = d[i]
  <2>1. PICK v \in Nat : d[i] = [b |-> v, ks |-> {}]
    BY <1>1 DEF RawBytes
  <2> DEFINE n == name[i]
  <2>2. x[i] = [b |-> v, ks |-> {n}]
    BY <1>2, <2>1, MaskTwice, Zenon
  <2>3. y[i] = Masked(x[i], n)
    BY <1>2, <1>3
  <2>4. QED
    BY <2>1, <2>2, <2>3, MaskTwice, Zenon
<1>5. y = [i \in 1 .. Len(d) |-> y[i]]
  BY <1>2, <1>3
<1>6. y = d
  BY <1>1, <1>4, <1>5
<1>7. QED
  BY <1>6 DEF y, x

-----------------------------------------------------------------------------
(* What ChaCha20-Poly1305 authenticates.                                   *)

\* A number of bytes that is one of whole blocks.
Blocks(n) == \E q \in Nat : n = q * Block

\* Whole blocks and whole blocks are whole blocks.
LEMMA BlocksAdd ==
  ASSUME NEW m, NEW n, Blocks(m), Blocks(n)
  PROVE  Blocks(m + n)
<1>1. PICK p \in Nat : m = p * Block
  BY DEF Blocks
<1>2. PICK q \in Nat : n = q * Block
  BY DEF Blocks
<1>3. p + q \in Nat /\ m + n = (p + q) * Block
  BY <1>1, <1>2, PolyAssumption
<1>4. QED
  BY <1>3 DEF Blocks

\* The padding completes a block.
LEMMA PadFills ==
  ASSUME NEW n \in Nat
  PROVE  /\ ChaPad(n) \in Seq(RawBytes)
         /\ Len(ChaPad(n)) \in Nat
         /\ Blocks(n + Len(ChaPad(n)))
<1> DEFINE q == n \div Block
           r == n % Block
           x == (Block - r) % Block
<1>1. Block \in Nat \ {0} /\ q \in Nat /\ r \in 0 .. Block - 1 /\ n = q * Block + r
  BY PolyAssumption, DivMod
<1>2. x \in Nat /\ Blocks(n + x)
  <2>1. CASE r = 0
    <3>1. Block - r = 1 * Block + 0 /\ 0 \in 0 .. Block - 1
      BY <1>1, <2>1
    <3>2. (1 * Block + 0) % Block = 0
      BY <1>1, <3>1, DivUnique
    <3>3. x = 0
      BY <3>1, <3>2
    <3> HIDE DEF x, q, r
    <3>4. n + x = q * Block
      BY <1>1, <2>1, <3>3
    <3>5. QED
      BY <1>1, <3>3, <3>4 DEF Blocks
  <2>2. CASE r # 0
    <3>1. Block - r = 0 * Block + (Block - r) /\ Block - r \in 0 .. Block - 1
      BY <1>1, <2>2
    <3>2. (0 * Block + (Block - r)) % Block = Block - r
      BY <1>1, <3>1, DivUnique
    <3>3. x = Block - r
      BY <3>1, <3>2
    <3> HIDE DEF x, q, r
    <3>4. n + x = (q + 1) * Block /\ q + 1 \in Nat
      BY <1>1, <3>3
    <3>5. QED
      BY <1>1, <2>2, <3>3, <3>4 DEF Blocks
  <2>3. QED
    BY <2>1, <2>2
<1>3. ChaPad(n) = Zeros(x)
  BY Zenon DEF ChaPad
<1> HIDE DEF x
<1>4. Zeros(x) \in Seq(RawBytes) /\ Len(Zeros(x)) = x
  BY <1>2, ZerosAre
<1>5. QED
  BY <1>2, <1>3, <1>4, Zenon

\* The lengths fill whole blocks.
LEMMA LengthsFill ==
  ASSUME NEW o, o.aadLen \in Nat, o.inLen \in Nat
  PROVE  ChaLengths(o) \in Seq(RawBytes) /\ Blocks(Len(ChaLengths(o)))
<1> DEFINE h == Block \div 2
           a == Raw(<<o.aadLen>>)
           y == Zeros(h - 1)
           c == Raw(<<o.inLen>>)
           z == Zeros(Block - h - 1)
<1>1. ChaLengths(o) = a \o y \o c \o z
  BY Zenon DEF ChaLengths
<1>2. Block \in Nat \ {0} /\ h \in Nat /\ h <= Block
  BY PolyAssumption
<1>3. /\ a \in Seq(RawBytes) /\ Len(a) = 1
      /\ c \in Seq(RawBytes) /\ Len(c) = 1
  <2>1. <<o.aadLen>> \in Seq(Nat) /\ <<o.inLen>> \in Seq(Nat)
    OBVIOUS
  <2>2. Len(<<o.aadLen>>) = 1 /\ Len(<<o.inLen>>) = 1
    OBVIOUS
  <2>3. QED
    BY <2>1, <2>2, RawIsBytes
<1>4. /\ y \in Seq(RawBytes) /\ Len(y) = IF h - 1 > 0 THEN h - 1 ELSE 0
      /\ z \in Seq(RawBytes) /\ Len(z) = IF Block - h - 1 > 0 THEN Block - h - 1 ELSE 0
  <2>1. h - 1 \in Int /\ Block - h - 1 \in Int
    BY <1>2
  <2> HIDE DEF h
  <2>2. QED
    BY <2>1, ZerosAre
<1>5. Block > 1 => h >= 1 /\ Block - h >= 1
  BY <1>2
<1> HIDE DEF a, y, c, z, h
<1>6. /\ a \o y \o c \o z \in Seq(RawBytes)
      /\ Len(a \o y \o c \o z) = Len(a) + Len(y) + Len(c) + Len(z)
  <2>1. a \o y \in Seq(RawBytes) /\ Len(a \o y) = Len(a) + Len(y)
    BY <1>3, <1>4, ConcatProperties
  <2>2. (a \o y) \o c \in Seq(RawBytes) /\ Len((a \o y) \o c) = Len(a \o y) + Len(c)
    BY <1>3, <2>1, ConcatProperties
  <2>3. /\ ((a \o y) \o c) \o z \in Seq(RawBytes)
        /\ Len(((a \o y) \o c) \o z) = Len((a \o y) \o c) + Len(z)
    BY <1>4, <2>2, ConcatProperties
  <2>4. QED
    BY <2>1, <2>2, <2>3, Zenon
<1>7. Blocks(Len(a) + Len(y) + Len(c) + Len(z))
  <2>1. CASE Block > 1
    <3>1. Len(a) + Len(y) + Len(c) + Len(z) = 1 * Block
      BY <1>2, <1>3, <1>4, <1>5, <2>1
    <3>2. QED
      BY <3>1 DEF Blocks
  <2>2. CASE ~(Block > 1)
    <3>1. Block = 1 /\ Len(a) + Len(y) + Len(c) + Len(z) \in Nat
      BY <1>2, <1>3, <1>4, <2>2
    <3> DEFINE l == Len(a) + Len(y) + Len(c) + Len(z)
    <3> HIDE DEF l
    <3>2. l \in Nat /\ l = l * Block
      BY <3>1 DEF l
    <3>3. QED
      BY <3>2 DEF Blocks, l
  <2>3. QED
    BY <2>1, <2>2
<1>8. QED
  BY <1>1, <1>6, <1>7, Zenon

\* Whole blocks leave no rest in the buffer.
LEMMA NothingLeft ==
  ASSUME NEW S, NEW m \in Seq(S), Blocks(Len(m))
  PROVE  Rest(m) = <<>>
<1>1. PICK q \in Nat : Len(m) = q * Block
  BY DEF Blocks
<1>2. (q * Block + 0) % Block = 0
  BY PolyAssumption, DivUnique
<1>3. q * Block + 0 = q * Block
  BY PolyAssumption
<1>4. Len(m) % Block = 0
  BY <1>1, <1>2, <1>3
<1>5. Rest(m) \in Seq(S) /\ Len(Rest(m)) = 0
  BY <1>4, WholeBlocks
<1>6. QED
  BY <1>5, EmptySeq

\* The message whose code is the tag: the additional data and the ciphertext,
\* each padded, and their lengths.
ChaMessage(a, c) ==
  Raw(a) \o ChaPad(Len(a)) \o c \o ChaPad(Len(c))
    \o ChaLengths([aadLen |-> Len(a), inLen |-> Len(c)])

\* What one call of encrypt or decrypt adds to the additional data.
ChaSum(a, c) ==
  ChaPad(Len(a)) \o c \o ChaPad(Len(c))
    \o ChaLengths([aadLen |-> Len(a), inLen |-> Len(c)])

\* What is authenticated is the additional data and what one call of
\* encrypt or decrypt adds, in whole blocks.
LEMMA MessageIs ==
  ASSUME NEW S, RawBytes \subseteq S, NEW a \in Seq(Nat), NEW c \in Seq(S)
  PROVE  /\ Raw(a) \in Seq(S) /\ ChaSum(a, c) \in Seq(S)
         /\ ChaMessage(a, c) = Raw(a) \o ChaSum(a, c)
         /\ ChaMessage(a, c) \in Seq(S)
         /\ Rest(ChaMessage(a, c)) = <<>>
<1> DEFINE f == Raw(a)
           p == ChaPad(Len(a))
           q == ChaPad(Len(c))
           l == ChaLengths([aadLen |-> Len(a), inLen |-> Len(c)])
<1>1. Len(a) \in Nat /\ Len(c) \in Nat
  BY LenProperties
<1>2. f \in Seq(RawBytes) /\ Len(f) = Len(a)
  BY RawIsBytes
<1>3. /\ p \in Seq(RawBytes) /\ Len(p) \in Nat /\ Blocks(Len(a) + Len(p))
      /\ q \in Seq(RawBytes) /\ Len(q) \in Nat /\ Blocks(Len(c) + Len(q))
  BY <1>1, PadFills
<1>4. l \in Seq(RawBytes) /\ Blocks(Len(l))
  BY <1>1, LengthsFill
<1>5. f \in Seq(S) /\ p \in Seq(S) /\ q \in Seq(S) /\ l \in Seq(S)
  <2> HIDE DEF f, p, q, l
  <2>1. QED
    BY <1>2, <1>3, <1>4, SeqMonotonic
<1>6. ChaMessage(a, c) = (((f \o p) \o c) \o q) \o l
  BY Zenon DEF ChaMessage
<1>7. ChaSum(a, c) = ((p \o c) \o q) \o l
  BY Zenon DEF ChaSum
<1> HIDE DEF f, p, q, l
<1>8. /\ p \o c \in Seq(S) /\ (p \o c) \o q \in Seq(S) /\ ((p \o c) \o q) \o l \in Seq(S)
      /\ f \o p \in Seq(S)
  BY <1>5, ConcatProperties
<1>9. (((f \o p) \o c) \o q) \o l = f \o (((p \o c) \o q) \o l)
  <2>1. (f \o p) \o c = f \o (p \o c)
    <3>1. f \in Seq(S) /\ p \in Seq(S) /\ c \in Seq(S)
      BY <1>5
    <3>2. QED
      BY ONLY <3>1, Joined
  <2> DEFINE x == p \o c
             y == x \o q
  <2>2. x \in Seq(S) /\ y \in Seq(S)
    BY <1>8
  <2> HIDE DEF x, y
  <2>3. (f \o x) \o q = f \o (x \o q)
    <3>1. f \in Seq(S) /\ x \in Seq(S) /\ q \in Seq(S)
      BY <1>5, <2>2
    <3>2. QED
      BY ONLY <3>1, Joined
  <2>4. (f \o y) \o l = f \o (y \o l)
    <3>1. f \in Seq(S) /\ y \in Seq(S) /\ l \in Seq(S)
      BY <1>5, <2>2
    <3>2. QED
      BY ONLY <3>1, Joined
  <2>5. QED
    BY <2>1, <2>3, <2>4, Zenon DEF x, y
<1>10. /\ (((f \o p) \o c) \o q) \o l \in Seq(S)
       /\ Len((((f \o p) \o c) \o q) \o l) = (Len(a) + Len(p)) + (Len(c) + Len(q)) + Len(l)
  <2>1. f \o p \in Seq(S) /\ Len(f \o p) = Len(f) + Len(p)
    BY <1>5, ConcatProperties
  <2>2. (f \o p) \o c \in Seq(S) /\ Len((f \o p) \o c) = Len(f \o p) + Len(c)
    BY <2>1, ConcatProperties
  <2>3. ((f \o p) \o c) \o q \in Seq(S) /\ Len(((f \o p) \o c) \o q) = Len((f \o p) \o c) + Len(q)
    BY <1>5, <2>2, ConcatProperties
  <2>4. /\ (((f \o p) \o c) \o q) \o l \in Seq(S)
        /\ Len((((f \o p) \o c) \o q) \o l) = Len(((f \o p) \o c) \o q) + Len(l)
    BY <1>5, <2>3, ConcatProperties
  <2>5. Len(l) \in Nat
    BY <1>5, LenProperties
  <2>6. QED
    BY <1>1, <1>2, <1>3, <2>1, <2>2, <2>3, <2>4, <2>5
<1>11. Blocks((Len(a) + Len(p)) + (Len(c) + Len(q)) + Len(l))
  BY <1>3, <1>4, BlocksAdd
<1>12. ChaMessage(a, c) \in Seq(S) /\ Blocks(Len(ChaMessage(a, c)))
  BY <1>6, <1>10, <1>11, Zenon
<1>13. Rest(ChaMessage(a, c)) = <<>>
  BY <1>12, NothingLeft
<1>14. QED
  BY <1>5, <1>6, <1>7, <1>8, <1>9, <1>12, <1>13, Zenon DEF f

-----------------------------------------------------------------------------
(* The inductive invariant.                                                *)

CcmObject(o) == DOMAIN o = {"st", "key", "iv", "tagLen", "flags", "aad", "tag"}

SivObject(o) == DOMAIN o = {"mac", "ctr", "iv", "aads", "temp"}

ChaObject(o) ==
  /\ DOMAIN o = {"key", "iv", "ctr", "aadLen", "inLen", "poly"}
  /\ PolyObject(o.poly)

Handle ==
  /\ kind \in Kinds
  /\ arch \in {"ref", "zen4"}
  /\ kind \in {"ccm", "siv"} => arch = "ref"
  /\ touched \in BOOLEAN /\ burnt \in BOOLEAN
  /\ kind = "ccm" => CcmObject(obj)
  /\ kind = "siv" => SivObject(obj)
  /\ kind = "chachapoly" => ChaObject(obj)
  /\ kind = "poly1305" => PolyObject(obj)

SessionShape ==
  /\ DOMAIN s = {"on", "stale", "key", "iv", "aads", "aad", "dir", "text", "out", "taken"}
  /\ s.on \in BOOLEAN /\ s.stale \in BOOLEAN /\ s.taken \in BOOLEAN
  /\ s.dir \in {"none", "encrypt", "decrypt"}
  /\ s.aads \in Seq(Aads) /\ s.aad \in Seq(Nat)
  /\ s.on /\ kind # "poly1305" => s.key \in Keys
  /\ ~s.on => s.dir = "none"
  /\ s.dir = "none" => ~s.taken
  /\ s.dir = "encrypt" => s.text \in Plaintexts
  /\ s.dir # "none" => IsBytes(s.text)
  /\ kind = "poly1305" => s.dir = "none" /\ s.text \in Seq(Nat)

\* Nothing in the object would get into the next message.
Fresh(ar, p) == p.buf = <<>> /\ (ar = "zen4" => p.acc = <<>>)

CcmInv ==
  /\ burnt => obj.flags = 0
  /\ ~touched => obj.aad = <<>>
  /\ s.on => /\ obj.key = s.key /\ obj.iv = s.iv
             /\ Len(s.aads) <= 1
             /\ s.aads = <<>> => s.aad = <<>>
  /\ Proper => /\ obj.aad = s.aad
               /\ s.dir # "none" /\ ~s.taken =>
                    obj.tag = CcmTag(s.key, s.iv, obj.flags, s.aad, Plain)

\* The CMACs of the additional data.
Cmacs(k, as) == [i \in DOMAIN as |-> <<k, as[i]>>]

SivInv ==
  /\ ~touched => obj.aads = <<>>
  /\ Proper => /\ obj.mac = s.key /\ obj.ctr = s.key /\ obj.iv = s.iv
               /\ ~s.taken => obj.aads = Cmacs(s.key, s.aads)
               /\ s.dir # "none" /\ ~s.taken => obj.temp = SivTag(s.key, s.aads, Plain)

ChaInv ==
  /\ ~touched => Fresh(arch, obj.poly)
  /\ Proper => /\ obj.key = s.key /\ obj.iv = s.iv
               /\ s.dir = "none" =>
                    /\ obj.ctr = 0 /\ obj.aadLen = Len(s.aad) /\ obj.inLen = 0
                    /\ ~obj.poly.fin
                    /\ Holds(obj.poly, <<s.key, s.iv, 0>>, Raw(s.aad))
               /\ s.dir # "none" /\ ~s.taken =>
                    Holds(obj.poly, <<s.key, s.iv, 0>>, ChaMessage(s.aad, Cipher))

PolyInv ==
  /\ ~touched => Fresh(arch, obj)
  /\ Proper => /\ obj.key = s.key
               /\ ~obj.fin => Holds(obj, s.key, Raw(s.text))

KindInv ==
  /\ kind = "ccm" => CcmInv
  /\ kind # "ccm" => ~burnt
  /\ kind = "siv" => SivInv
  /\ kind = "chachapoly" => ChaInv
  /\ kind = "poly1305" => PolyInv

\* The i-th byte of the keystream, for a key and a nonce.
NameAt(kd, k, v, i) ==
  CASE kd = "ccm" -> CcmStream([key |-> k, iv |-> v], i)
    [] kd = "siv" -> SivStream([ctr |-> k], v, i)
    [] kd = "chachapoly" -> ChaStream([key |-> k, iv |-> v, ctr |-> 1], i)

Covered(kd, d, k, v) == Xored(d, [i \in DOMAIN d |-> NameAt(kd, k, v, i)])

Nonce == IF kind = "siv" /\ s.dir = "encrypt" THEN SivTag(s.key, s.aads, s.text) ELSE s.iv

TextInv == Proper /\ s.dir # "none" => s.out = Covered(kind, s.text, s.key, Nonce)

TagFor(kd, n, k, v, as, a, m, c) ==
  CASE kd = "ccm" -> CcmTag(k, v, n, a, m)
    [] kd = "siv" -> SivTag(k, as, m)
    [] kd = "chachapoly" -> ChaTag(k, v, a, c)

SentInv ==
  sent.some =>
    /\ kind # "poly1305"
    /\ sent.plain \in Plaintexts
    /\ sent.text = Covered(kind, sent.plain, sent.key,
                           IF kind = "siv" THEN sent.tag ELSE sent.iv)
    /\ sent.tag = TagFor(kind, sent.len, sent.key, sent.iv, sent.aads, sent.aad,
                        sent.plain, sent.text)

\* SIV accepts a text whose synthetic IV is the IV it was given.
Accepted ==
  Proper /\ kind = "siv" /\ s.dir = "decrypt" /\ ret.op = "decrypt" =>
    (ret.err = "NONE" <=> SivTag(s.key, s.aads, s.out) = s.iv)

IInv ==
  /\ Handle /\ SessionShape /\ KindInv /\ TextInv /\ SentInv
  /\ TagOfSession /\ Accepted

-----------------------------------------------------------------------------
(* What a step leaves alone.                                               *)

\* Only two calls deliver a tag.
LEMMA NoTag ==
  ASSUME ret'.op \notin {"getTag", "macFinalize"}
  PROVE  TagOfSession'
BY DEF TagOfSession, TagDelivered

\* Only decrypt gives a verdict.
LEMMA NoVerdict ==
  ASSUME ret'.op # "decrypt"
  PROVE  Accepted'
BY DEF Accepted

\* A call that sends nothing.
LEMMA NothingNewSent ==
  ASSUME SentInv, UNCHANGED <<kind, sent>>
  PROVE  SentInv'
BY DEF SentInv

\* A session without text.
LEMMA NoText ==
  ASSUME s'.dir = "none"
  PROVE  TextInv'
BY DEF TextInv

\* A call that leaves the session alone leaves its text.
LEMMA SameText ==
  ASSUME TextInv, UNCHANGED <<kind, s>>
  PROVE  TextInv'
BY DEF TextInv, Nonce, Proper

\* A call that leaves the session alone.
LEMMA SameSession ==
  ASSUME SessionShape, UNCHANGED <<kind, s>>
  PROVE  SessionShape'
BY DEF SessionShape

\* The end of a session.
LEMMA NoSessionShape ==
  ASSUME s' = NoSession
  PROVE  SessionShape' /\ ~s'.on /\ s'.dir = "none"
<1>1. <<>> \in Seq(Aads) /\ <<>> \in Seq(Nat)
  OBVIOUS
<1>2. QED
  BY <1>1 DEF SessionShape, NoSession

\* The beginning of a session.
LEMMA NewSessionShape ==
  ASSUME NEW b \in BOOLEAN, NEW k, NEW v,
         s' = [NoSession EXCEPT !.on = TRUE, !.stale = b, !.key = k, !.iv = v],
         kind' # "poly1305" => k \in Keys
  PROVE  /\ SessionShape'
         /\ s'.on /\ s'.stale = b /\ s'.key = k /\ s'.iv = v
         /\ s'.aads = <<>> /\ s'.aad = <<>> /\ s'.dir = "none"
         /\ s'.text = <<>> /\ ~s'.taken
<1>1. <<>> \in Seq(Aads) /\ <<>> \in Seq(Nat)
  OBVIOUS
<1>2. QED
  BY <1>1 DEF SessionShape, NoSession

-----------------------------------------------------------------------------
(* Init.                                                                   *)

\* Init of CCM keeps the additional data and, without an IV, the flags.
LEMMA CcmInitIs ==
  ASSUME NEW o, CcmObject(o), NEW k, NEW v, NEW r, r = CcmInit(o, k, v)
  PROVE  /\ CcmObject(r.obj) /\ r.obj.aad = o.aad
         /\ r.err # "NONE" \/ v = NoIv => r.obj.flags = o.flags
         /\ r.err = "NONE" /\ k # NoKey => r.obj.key = k
BY DEF CcmInit, CcmSetKey, CcmSetIv, CcmObject, Done

\* Init of SIV keeps the CMACs of additional data.
LEMMA SivInitIs ==
  ASSUME NEW o, SivObject(o), NEW k, NEW v, NEW r, r = SivInit(o, k, v)
  PROVE  /\ SivObject(r.obj) /\ r.obj.aads = o.aads
         /\ r.err = "NONE" /\ k # NoKey => r.obj.mac = k /\ r.obj.ctr = k
BY DEF SivInit, SivSetIv, SivObject, Done

\* A fresh Poly1305 object holds nothing after init; a used one may not.
LEMMA PolyInitIs ==
  ASSUME arch \in {"ref", "zen4"}, NEW p, PolyObject(p), NEW k, NEW q, q = PolyInit(arch, p, k)
  PROVE  /\ PolyObject(q) /\ ~q.fin /\ q.key = k
         /\ Fresh(arch, p) => Fresh(arch, q) /\ Holds(q, k, <<>>)
<1>1. PolyObject(q) /\ ~q.fin /\ q.key = k
  BY DEF PolyInit, PolyObject
<1>2. Fresh(arch, p) => q.buf = <<>> /\ q.acc = <<>>
  BY DEF PolyInit, PolyObject, Fresh
<1>3. QED
  BY <1>1, <1>2, NothingHeld DEF Fresh

\* So for ChaCha20-Poly1305, under the key of the first keystream block.
LEMMA ChaInitIs ==
  ASSUME arch \in {"ref", "zen4"}, NEW o, ChaObject(o), NEW k, NEW v,
         NEW r, r = ChaInit(arch, o, k, v)
  PROVE  /\ ChaObject(r.obj)
         /\ Fresh(arch, o.poly) => Fresh(arch, r.obj.poly)
         /\ r.err = "NONE" =>
              /\ r.obj.key = k /\ r.obj.iv = v /\ r.obj.ctr = 0
              /\ r.obj.aadLen = 0 /\ r.obj.inLen = 0 /\ ~r.obj.poly.fin
              /\ Fresh(arch, o.poly) => Holds(r.obj.poly, <<k, v, 0>>, <<>>)
<1> DEFINE c == [ChaSetIv(o, v) EXCEPT !.key = k, !.aadLen = 0, !.inLen = 0]
           q == PolyInit(arch, o.poly, <<k, v, 0>>)
<1>1. PolyObject(o.poly)
  BY DEF ChaObject
<1> DEFINE d == ChaSetIv(o, v)
<1>2. /\ d.key = o.key /\ d.iv = v /\ d.ctr = 0 /\ d.aadLen = o.aadLen
      /\ d.inLen = o.inLen /\ d.poly = o.poly
      /\ ChaObject(d)
  BY DEF ChaSetIv, ChaObject
<1> HIDE DEF d
<1>3. /\ c.key = k /\ c.iv = d.iv /\ c.ctr = d.ctr /\ c.aadLen = 0
      /\ c.inLen = 0 /\ c.poly = d.poly
      /\ DOMAIN c = {"key", "iv", "ctr", "aadLen", "inLen", "poly"}
  BY <1>2 DEF ChaObject, d
<1> HIDE DEF c
<1>4. ChaPolyKey(c) = <<k, v, 0>>
  BY <1>2, <1>3 DEF ChaPolyKey
<1> DEFINE e == ChaSetKey(arch, d, k)
<1>5. e = [c EXCEPT !.poly = PolyInit(arch, @, ChaPolyKey(c))]
  BY Zenon DEF ChaSetKey, c, d
<1>6. /\ e.key = c.key /\ e.iv = c.iv /\ e.ctr = c.ctr /\ e.aadLen = c.aadLen
      /\ e.inLen = c.inLen /\ e.poly = PolyInit(arch, c.poly, ChaPolyKey(c))
      /\ DOMAIN e = {"key", "iv", "ctr", "aadLen", "inLen", "poly"}
  BY <1>5, <1>3
<1> HIDE DEF e
<1>7. /\ e.key = k /\ e.iv = v /\ e.ctr = 0 /\ e.aadLen = 0 /\ e.inLen = 0 /\ e.poly = q
  BY <1>2, <1>4, <1>6, <1>3, Zenon
<1>8. PolyObject(q) /\ ~q.fin
      /\ (Fresh(arch, o.poly) => Fresh(arch, q) /\ Holds(q, <<k, v, 0>>, <<>>))
  BY <1>1, PolyInitIs
<1> HIDE DEF q
<1>9. CASE v = NoIv \/ v = BadIv
  <2>1. r.obj = o /\ r.err # "NONE"
    BY <1>9 DEF ChaInit, Done
  <2>2. QED
    BY <2>1
<1>10. CASE ~(v = NoIv \/ v = BadIv) /\ k \in {NoKey, BadKey}
  <2>1. r.obj = d /\ r.err # "NONE"
    BY <1>10 DEF ChaInit, Done, d
  <2>2. QED
    BY <1>2, <2>1
<1>11. CASE ~(v = NoIv \/ v = BadIv) /\ k \notin {NoKey, BadKey}
  <2>1. r.obj = e
    BY <1>11 DEF ChaInit, Done, e, d
  <2>2. QED
    BY <1>6, <1>8, <1>7, <2>1 DEF ChaObject
<1>12. QED
  BY <1>9, <1>10, <1>11

\* init keeps the invariant.
LEMMA InitCallIInv ==
  ASSUME IInv, kind # "poly1305", NEW k, NEW v, InitCall(k, v)
  PROVE  IInv'
<1> DEFINE r == IF k = NoKey /\ v = NoIv THEN Done(obj, "NONE") ELSE InitOf(k, v)
           begins == r.err = "NONE" /\ k \in Keys /\ (v # NoIv \/ kind = "siv")
<1>1. /\ obj' = r.obj
      /\ s' = IF begins
              THEN [NoSession EXCEPT !.on = TRUE, !.stale = touched, !.key = k,
                                     !.iv = r.obj.iv]
              ELSE NoSession
      /\ burnt' = (burnt /\ ~(r.err = "NONE" /\ v # NoIv))
      /\ ret'.op = "init"
      /\ UNCHANGED <<kind, arch, touched, sent>>
  BY DEF InitCall, Returned
<1>2. Handle /\ SessionShape /\ KindInv /\ SentInv
  BY DEF IInv
<1>3. /\ NoKey \notin Keys /\ arch \in {"ref", "zen4"} /\ touched \in BOOLEAN /\ burnt \in BOOLEAN
      /\ kind \in Kinds
  BY <1>2, AeadAssumption DEF Handle
<1>4. r = IF k = NoKey /\ v = NoIv THEN [obj |-> obj, err |-> "NONE", out |-> <<>>]
          ELSE InitOf(k, v)
  BY DEF Done
<1>5. r.obj.iv = obj'.iv
  BY <1>1
<1> HIDE DEF r
<1>6. /\ SessionShape' /\ s'.dir = "none"
      /\ s'.on <=> begins
      /\ begins => /\ s'.stale = touched /\ s'.key = k /\ s'.iv = obj'.iv
                   /\ s'.aads = <<>> /\ s'.aad = <<>> /\ s'.text = <<>> /\ ~s'.taken
  <2>1. CASE begins
    <3>1. /\ s' = [NoSession EXCEPT !.on = TRUE, !.stale = touched, !.key = k, !.iv = obj'.iv]
          /\ k \in Keys
      BY <1>1, <1>5, <2>1
    <3>2. QED
      BY <1>3, <2>1, <3>1, NewSessionShape
  <2>2. CASE ~begins
    BY <1>1, <2>2, NoSessionShape
  <2>3. QED
    BY <2>1, <2>2
<1>7. Proper' <=> begins /\ ~touched
  BY <1>1, <1>6 DEF Proper
<1>8. Handle' /\ KindInv'
  <2>1. CASE kind = "ccm"
    <3>1. CcmObject(obj) /\ CcmInv
      BY <1>2, <2>1 DEF Handle, KindInv
    <3>2. r.obj = obj \/ r = CcmInit(obj, k, v)
      BY <1>4, <2>1 DEF InitOf
    <3>3. k = NoKey /\ v = NoIv => r.obj = obj
      BY <1>4
    <3>4. CcmObject(obj') /\ obj'.aad = obj.aad
      BY <1>1, <3>1, <3>2, CcmInitIs
    <3>5. burnt' => burnt /\ obj'.flags = obj.flags
      <4>1. burnt' => burnt /\ (r.err # "NONE" \/ v = NoIv)
        BY <1>1, <1>3
      <4>2. r = CcmInit(obj, k, v) => (r.err # "NONE" \/ v = NoIv => r.obj.flags = obj.flags)
        BY <3>1, CcmInitIs
      <4>3. QED
        BY <1>1, <3>2, <4>1, <4>2
    <3>6. begins => obj'.key = k
      BY <1>1, <1>3, <1>4, <2>1, <3>1, CcmInitIs DEF InitOf
    <3>7. CcmInv'
      <4>1. burnt' => obj'.flags = 0
        BY <3>1, <3>5 DEF CcmInv
      <4>2. ~touched => obj'.aad = <<>>
        BY <3>1, <3>4 DEF CcmInv
      <4>3. s'.on => obj'.key = s'.key /\ obj'.iv = s'.iv /\ s'.aads = <<>> /\ s'.aad = <<>>
        BY <1>6, <3>6
      <4>4. Len(<<>>) <= 1
        OBVIOUS
      <4>5. Proper' => obj'.aad = s'.aad
        BY <1>6, <1>7, <4>2
      <4>6. QED
        BY <1>1, <1>6, <4>1, <4>2, <4>3, <4>4, <4>5 DEF CcmInv
    <3>8. QED
      BY <1>1, <1>2, <2>1, <3>4, <3>7 DEF Handle, KindInv
  <2>2. CASE kind = "siv"
    <3>1. SivObject(obj) /\ SivInv /\ ~burnt
      BY <1>2, <2>2 DEF Handle, KindInv
    <3>2. r.obj = obj \/ r = SivInit(obj, k, v)
      BY <1>4, <2>2 DEF InitOf
    <3>3. SivObject(obj') /\ obj'.aads = obj.aads
      BY <1>1, <3>1, <3>2, SivInitIs
    <3>4. begins => obj'.mac = k /\ obj'.ctr = k
      BY <1>1, <1>3, <1>4, <2>2, <3>1, SivInitIs DEF InitOf
    <3>5. begins => Cmacs(s'.key, s'.aads) = <<>>
      BY <1>6 DEF Cmacs
    <3>6. SivInv'
      BY <1>1, <1>6, <1>7, <3>1, <3>3, <3>4, <3>5 DEF SivInv
    <3>7. QED
      BY <1>1, <1>2, <2>2, <3>1, <3>3, <3>6 DEF Handle, KindInv
  <2>3. CASE kind = "chachapoly"
    <3>1. ChaObject(obj) /\ ChaInv /\ ~burnt
      BY <1>2, <2>3 DEF Handle, KindInv
    <3>2. r.obj = obj \/ r = ChaInit(arch, obj, k, v)
      BY <1>4, <2>3 DEF InitOf
    <3>3. ChaObject(obj') /\ (Fresh(arch, obj.poly) => Fresh(arch, obj'.poly))
      <4>1. CASE r.obj = obj
        BY <1>1, <3>1, <4>1
      <4>2. CASE r = ChaInit(arch, obj, k, v)
        <5>1. ChaObject(r.obj) /\ (Fresh(arch, obj.poly) => Fresh(arch, r.obj.poly))
          BY <1>3, <3>1, <4>2, ChaInitIs, Zenon
        <5>2. QED
          BY <1>1, <5>1
      <4>3. QED
        BY <3>2, <4>1, <4>2
    <3>4. begins =>
            /\ obj'.key = k /\ obj'.ctr = 0
            /\ obj'.aadLen = 0 /\ obj'.inLen = 0 /\ ~obj'.poly.fin
            /\ Fresh(arch, obj.poly) => Holds(obj'.poly, <<k, obj'.iv, 0>>, <<>>)
      <4>1. begins => r = ChaInit(arch, obj, k, v) /\ r.err = "NONE"
        BY <1>3, <1>4, <2>3 DEF InitOf
      <4>2. ASSUME begins
            PROVE  /\ r.obj.key = k /\ r.obj.iv = v /\ r.obj.ctr = 0
                   /\ r.obj.aadLen = 0 /\ r.obj.inLen = 0 /\ ~r.obj.poly.fin
                   /\ Fresh(arch, obj.poly) => Holds(r.obj.poly, <<k, v, 0>>, <<>>)
        BY <1>3, <3>1, <4>1, <4>2, ChaInitIs, Zenon
      <4>3. QED
        BY <1>1, <4>2
    <3>5. begins => Raw(s'.aad) = <<>> /\ Len(s'.aad) = 0
      BY <1>6 DEF Raw
    <3>6. ChaInv'
      <4>1. ~touched' => Fresh(arch', obj'.poly)
        BY <1>1, <3>1, <3>3 DEF ChaInv, Fresh
      <4>2. QED
        BY <1>1, <1>6, <1>7, <3>1, <3>4, <3>5, <4>1 DEF ChaInv, Fresh
    <3>7. QED
      BY <1>1, <1>2, <2>3, <3>1, <3>3, <3>6 DEF Handle, KindInv
  <2>4. QED
    BY <1>3, <2>1, <2>2, <2>3 DEF Kinds
<1>9. QED
  BY <1>1, <1>2, <1>6, <1>8, NoTag, NoVerdict, NothingNewSent, NoText DEF IInv

-----------------------------------------------------------------------------
(* Tag length and additional data.                                         *)

\* setTagLength keeps the invariant.
LEMMA SetTagLengthIInv ==
  ASSUME IInv, kind # "poly1305", NEW n, SetTagLength(n)
  PROVE  IInv'
<1> DEFINE r == IF kind = "ccm" THEN CcmSetTagLength(obj, n)
                ELSE Done(obj, IF n = SivTagLen THEN "NONE" ELSE "INVALID_SIZE")
<1>1. /\ obj' = r.obj /\ ret'.op = "setTagLength"
      /\ UNCHANGED <<kind, arch, s, touched, burnt, sent>>
  BY DEF SetTagLength, Returned
<1>2. Handle /\ SessionShape /\ KindInv /\ TextInv /\ SentInv
  BY DEF IInv
<1>3. Proper' <=> Proper
  BY <1>1 DEF Proper
<1>4. Handle' /\ KindInv'
  <2>1. CASE kind = "ccm"
    <3>1. CcmObject(obj) /\ CcmInv
      BY <1>2, <2>1 DEF Handle, KindInv
    <3>2. /\ CcmObject(obj') /\ obj'.key = obj.key /\ obj'.iv = obj.iv
          /\ obj'.flags = obj.flags /\ obj'.aad = obj.aad /\ obj'.tag = obj.tag
      BY <1>1, <2>1, <3>1 DEF CcmSetTagLength, CcmObject, Done
    <3>3. CcmInv'
      BY <1>1, <1>3, <3>1, <3>2 DEF CcmInv, Plain
    <3>4. QED
      BY <1>1, <1>2, <2>1, <3>2, <3>3 DEF Handle, KindInv
  <2>2. CASE kind # "ccm"
    <3>1. obj' = obj
      BY <1>1, <2>2 DEF Done
    <3>2. QED
      BY <1>1, <1>2, <1>3, <2>2, <3>1
      DEF Handle, KindInv, SivInv, ChaInv, PolyInv, Plain, Cipher
  <2>3. QED
    BY <2>1, <2>2
<1>5. QED
  BY <1>1, <1>2, <1>4, NoTag, NoVerdict, NothingNewSent, SameText, SameSession DEF IInv

\* The CMAC of one more additional data.
LEMMA AppendOfCmacs ==
  ASSUME NEW as \in Seq(Aads), NEW k, NEW a \in Aads
  PROVE  Append(Cmacs(k, as), <<k, a>>) = Cmacs(k, Append(as, a))
<1> DEFINE f == Cmacs(k, as)
           t == Append(as, a)
           g == Cmacs(k, t)
           n == Len(as)
           E == {<<k, x>> : x \in Aads}
           h == Append(f, <<k, a>>)
<1>1. n \in Nat /\ DOMAIN as = 1 .. n /\ \A i \in 1 .. n : as[i] \in Aads
  BY LenProperties, ElementOfSeq
<1>2. /\ t \in Seq(Aads) /\ Len(t) = n + 1 /\ DOMAIN t = 1 .. n + 1
      /\ \A i \in 1 .. n : t[i] = as[i]
      /\ t[n + 1] = a
  <2>1. /\ t \in Seq(Aads) /\ Len(t) = n + 1
        /\ \A i \in 1 .. n : t[i] = as[i]
        /\ t[n + 1] = a
    <3>1. \A S : \A q \in Seq(S), e \in S :
            /\ Append(q, e) \in Seq(S) /\ Len(Append(q, e)) = Len(q) + 1
            /\ \A i \in 1 .. Len(q) : Append(q, e)[i] = q[i]
            /\ Append(q, e)[Len(q) + 1] = e
      BY ONLY AppendProperties
    <3>2. as \in Seq(Aads) /\ a \in Aads
      OBVIOUS
    <3>3. QED
      BY ONLY <3>1, <3>2, Zenon
  <2> HIDE DEF t, n
  <2>2. QED
    BY <1>1, <2>1, LenProperties
<1>3. f \in [1 .. n -> E] /\ \A i \in 1 .. n : f[i] = <<k, as[i]>>
  BY <1>1 DEF Cmacs
<1>4. \A i \in 1 .. n + 1 : t[i] \in Aads
  BY <1>2, ElementOfSeq
<1> HIDE DEF t
<1>5. g \in [1 .. n + 1 -> E] /\ \A i \in 1 .. n + 1 : g[i] = <<k, t[i]>>
  BY <1>2, <1>4 DEF Cmacs
<1> HIDE DEF f, g, n, E
<1>6. f \in Seq(E) /\ Len(f) = n
  BY <1>1, <1>3
<1>7. g \in Seq(E) /\ Len(g) = n + 1
  BY <1>1, <1>5
<1>8. <<k, a>> \in E
  BY DEF E
<1>9. /\ h \in Seq(E) /\ Len(h) = n + 1
      /\ \A i \in 1 .. n : h[i] = f[i]
      /\ h[n + 1] = <<k, a>>
  BY <1>6, <1>8, AppendProperties
<1> HIDE DEF h
<1>10. ASSUME NEW i \in 1 .. n + 1
       PROVE  h[i] = g[i]
  <2>1. CASE i \in 1 .. n
    BY <1>2, <1>3, <1>5, <1>9, <2>1
  <2>2. CASE i = n + 1
    BY <1>2, <1>5, <1>9, <2>2
  <2>3. QED
    BY <1>1, <2>1, <2>2
<1>11. h = g
  BY <1>7, <1>9, <1>10, SeqEqual
<1>12. QED
  BY <1>11 DEF h, g, f, t

\* setAad keeps the invariant.
LEMMA SetAadIInv ==
  ASSUME IInv, kind # "poly1305", NEW a \in Aads \cup {<<>>}, SetAad(a)
  PROVE  IInv'
<1> DEFINE r == IF a = <<>> THEN Done(obj, "NONE") ELSE SetAadOf(a)
           more == Len(s.aads) < IF kind = "ccm" THEN 1 ELSE MaxAads
           goesOn == s.on /\ s.dir = "none" /\ r.err = "NONE" /\ more
<1>1. /\ obj' = r.obj /\ ret'.op = "setAad"
      /\ s' = IF a = <<>> THEN s
              ELSE IF goesOn
              THEN [s EXCEPT !.aads = Append(@, a), !.aad = @ \o a]
              ELSE NoSession
      /\ touched' = (touched \/ (a # <<>> /\ r.err = "NONE"))
      /\ UNCHANGED <<kind, arch, burnt, sent>>
  BY DEF SetAad, Returned
<1>2. Handle /\ SessionShape /\ KindInv /\ TextInv /\ SentInv
  BY DEF IInv
<1>3. CASE a = <<>>
  <2>1. obj' = obj /\ s' = s /\ (touched' <=> touched) /\ touched' \in BOOLEAN
    BY <1>1, <1>2, <1>3 DEF Done, Handle
  <2>2. Handle' /\ KindInv'
    <3>1. Proper' <=> Proper
      BY <1>1, <2>1 DEF Proper
    <3>2. Handle'
      BY <1>1, <1>2, <2>1 DEF Handle
    <3>3. KindInv'
      BY <1>1, <1>2, <2>1, <3>1
      DEF KindInv, CcmInv, SivInv, ChaInv, PolyInv, Fresh, Plain, Cipher
    <3>4. QED
      BY <3>2, <3>3
  <2>3. QED
    BY <1>1, <1>2, <2>1, <2>2, NoTag, NoVerdict, NothingNewSent, SameText, SameSession
    DEF IInv
<1>4. CASE a # <<>>
  <2>1. r = SetAadOf(a) /\ a \in Aads /\ a \in Seq(Nat) /\ kind \in {"ccm", "siv", "chachapoly"}
    BY <1>2, <1>4, AeadAssumption DEF Handle, Kinds
  <2> HIDE DEF r
  <2>2. /\ touched' \in BOOLEAN /\ touched \in BOOLEAN
        /\ ~touched' => ~touched /\ r.err # "NONE"
    BY <1>1, <1>2, <1>4 DEF Handle
  <2>3. /\ s'.on <=> goesOn
        /\ s'.dir = "none" /\ SessionShape'
        /\ goesOn => /\ s'.stale = s.stale /\ s'.key = s.key /\ s'.iv = s.iv
                     /\ s'.aads = Append(s.aads, a) /\ s'.aad = s.aad \o a
                     /\ s'.taken = s.taken
    <3>1. CASE goesOn
      <4>1. s' = [s EXCEPT !.aads = Append(@, a), !.aad = @ \o a]
        BY <1>1, <1>4, <3>1
      <4>2. Append(s.aads, a) \in Seq(Aads) /\ s.aad \o a \in Seq(Nat)
        BY <1>2, <2>1 DEF SessionShape
      <4>3. /\ DOMAIN s' = DOMAIN s
            /\ s'.on = s.on /\ s'.stale = s.stale /\ s'.key = s.key /\ s'.iv = s.iv
            /\ s'.aads = Append(s.aads, a) /\ s'.aad = s.aad \o a
            /\ s'.taken = s.taken /\ s'.dir = s.dir /\ s'.text = s.text
        BY <1>2, <4>1 DEF SessionShape
      <4>4. SessionShape'
        BY <1>1, <1>2, <3>1, <4>2, <4>3 DEF SessionShape
      <4>5. QED
        BY <3>1, <4>3, <4>4
    <3>2. CASE ~goesOn
      BY <1>1, <1>4, <3>2, NoSessionShape
    <3>3. QED
      BY <3>1, <3>2
  <2>4. Handle' /\ KindInv'
    <3>1. CASE kind = "ccm"
      <4>1. CcmObject(obj) /\ CcmInv
        BY <1>2, <3>1 DEF Handle, KindInv
      <4>2. /\ CcmObject(obj') /\ obj'.key = obj.key /\ obj'.iv = obj.iv
            /\ obj'.flags = obj.flags /\ obj'.aad = a /\ r.err = "NONE"
        BY <1>1, <2>1, <3>1, <4>1 DEF SetAadOf, CcmSetAad, CcmObject, Done
      <4>3. goesOn => s.aads = <<>> /\ s.aad = <<>>
        <5>1. goesOn => Len(s.aads) < 1 /\ s.aads \in Seq(Aads)
          BY <1>2, <3>1 DEF SessionShape
        <5>2. s.aads \in Seq(Aads) /\ Len(s.aads) < 1 => s.aads = <<>>
          OBVIOUS
        <5>3. QED
          BY <4>1, <5>1, <5>2 DEF CcmInv
      <4>4. goesOn => s'.aads = <<a>> /\ s'.aad = a
        <5>1. Append(<<>>, a) = <<a>> /\ <<>> \o a = a
          BY <2>1
        <5> HIDE DEF goesOn
        <5>2. QED
          BY <2>3, <4>3, <5>1
      <4>5. CcmInv'
        <5>1. burnt' => obj'.flags = 0
          BY <1>1, <4>1, <4>2 DEF CcmInv
        <5>2. Len(<<a>>) <= 1 /\ <<a>> # <<>>
          OBVIOUS
        <5>3. goesOn => s.on
          OBVIOUS
        <5>4. goesOn => obj'.key = s'.key /\ obj'.iv = s'.iv
          BY <2>3, <4>1, <4>2, <5>3 DEF CcmInv
        <5> HIDE DEF goesOn
        <5>5. Proper' => goesOn
          BY <2>3 DEF Proper
        <5>6. QED
          BY <2>2, <2>3, <4>2, <4>4, <5>1, <5>2, <5>4, <5>5 DEF CcmInv
      <4>6. QED
        BY <1>1, <1>2, <2>2, <3>1, <4>2, <4>5 DEF Handle, KindInv
    <3>2. CASE kind = "siv"
      <4>1. SivObject(obj) /\ SivInv /\ ~burnt
        BY <1>2, <3>2 DEF Handle, KindInv
      <4>2. /\ SivObject(obj') /\ obj'.mac = obj.mac /\ obj'.ctr = obj.ctr
            /\ obj'.iv = obj.iv
            /\ r.err # "NONE" => obj'.aads = obj.aads
            /\ r.err = "NONE" => obj'.aads = Append(obj.aads, <<obj.mac, a>>)
        BY <1>1, <2>1, <3>2, <4>1 DEF SetAadOf, SivSetAad, SivObject, Done
      <4>3. Proper' => goesOn /\ Proper
        BY <1>1, <2>3, <3>2 DEF Proper
      <4>4. goesOn => ~s.taken /\ r.err = "NONE"
        BY <1>2 DEF SessionShape
      <4>5. Append(Cmacs(s.key, s.aads), <<s.key, a>>) = Cmacs(s.key, Append(s.aads, a))
        BY <1>2, <2>1, AppendOfCmacs DEF SessionShape
      <4> HIDE DEF goesOn
      <4>6. SivInv'
        BY <2>2, <2>3, <4>1, <4>2, <4>3, <4>4, <4>5 DEF SivInv
      <4>7. QED
        BY <1>1, <1>2, <2>2, <3>2, <4>1, <4>2, <4>6 DEF Handle, KindInv
    <3>3. CASE kind = "chachapoly"
      <4>1. ChaObject(obj) /\ ChaInv /\ ~burnt
        BY <1>2, <3>3 DEF Handle, KindInv
      <4> DEFINE p == PolyUpdate(obj.poly, Raw(a))
      <4>2. PolyObject(obj.poly) /\ PolyObject(p) /\ p.fin = obj.poly.fin
        BY <4>1 DEF ChaObject, PolyObject, PolyUpdate
      <4>3. /\ ChaObject(obj')
            /\ r.err # "NONE" => obj' = obj
            /\ r.err = "NONE" => /\ obj'.poly = p /\ obj'.aadLen = obj.aadLen + Len(a)
                                 /\ obj'.key = obj.key /\ obj'.iv = obj.iv
                                 /\ obj'.ctr = obj.ctr /\ obj'.inLen = obj.inLen
        <5> HIDE DEF p
        <5>1. r = IF obj.poly.fin THEN Done(obj, "BAD_STATE")
                  ELSE Done([obj EXCEPT !.poly = p, !.aadLen = @ + Len(a)], "NONE")
          BY <2>1, <3>3 DEF SetAadOf, ChaSetAad, p
        <5>2. CASE obj.poly.fin
          <6>1. r.obj = obj /\ r.err # "NONE"
            BY <5>1, <5>2 DEF Done
          <6>2. QED
            BY <1>1, <4>1, <6>1
        <5>3. CASE ~obj.poly.fin
          <6>1. r.obj = [obj EXCEPT !.poly = p, !.aadLen = @ + Len(a)] /\ r.err = "NONE"
            BY <5>1, <5>3 DEF Done
          <6>2. QED
            BY <1>1, <4>1, <4>2, <6>1 DEF ChaObject
        <5>4. QED
          BY <5>2, <5>3
      <4>4. Proper' => goesOn /\ Proper /\ s.dir = "none" /\ r.err = "NONE"
        BY <1>1, <2>3, <3>3 DEF Proper
      <4>5. Proper' => /\ ~p.fin /\ Holds(p, <<s.key, s.iv, 0>>, Raw(s.aad \o a))
                       /\ obj.aadLen = Len(s.aad)
        <5>1. s.aad \in Seq(Nat)
          BY <1>2 DEF SessionShape
        <5>2. Raw(s.aad) \in Seq(RawBytes) /\ Raw(a) \in Seq(RawBytes)
          BY <2>1, <5>1, RawIsBytes
        <5>3. Proper' => /\ Holds(obj.poly, <<s.key, s.iv, 0>>, Raw(s.aad)) /\ ~obj.poly.fin
                         /\ obj.aadLen = Len(s.aad)
          BY <4>1, <4>4 DEF ChaInv
        <5>4. Proper' => Holds(p, <<s.key, s.iv, 0>>, Raw(s.aad) \o Raw(a))
          BY <4>2, <5>2, <5>3, UpdateHolds
        <5>5. QED
          BY <2>1, <4>2, <5>1, <5>3, <5>4, RawOfJoin
      <4>6. Len(s.aad \o a) = Len(s.aad) + Len(a)
        BY <1>2, <2>1 DEF SessionShape
      <4> HIDE DEF p, goesOn
      <4>7. ~touched' => Fresh(arch', obj'.poly)
        BY <1>1, <2>2, <4>1, <4>3 DEF ChaInv
      <4>8. ChaInv'
        BY <2>3, <4>1, <4>3, <4>4, <4>5, <4>6, <4>7 DEF ChaInv
      <4>9. QED
        BY <1>1, <1>2, <2>2, <3>3, <4>1, <4>3, <4>8 DEF Handle, KindInv
    <3>4. QED
      BY <2>1, <3>1, <3>2, <3>3
  <2>5. QED
    BY <1>1, <1>2, <2>3, <2>4, NoTag, NoVerdict, NothingNewSent, NoText DEF IInv
<1>5. QED
  BY <1>3, <1>4

-----------------------------------------------------------------------------
(* Encrypt and decrypt.                                                    *)

\* No keystream has masked a plaintext.
LEMMA PlaintextsAreRaw ==
  ASSUME NEW d \in Plaintexts
  PROVE  d \in Seq(RawBytes)
<1>1. PICK m \in Texts : d = Raw(m)
  BY DEF Plaintexts
<1>2. m \in Seq(Nat)
  BY AeadAssumption
<1>3. QED
  BY <1>1, <1>2, RawIsBytes

\* What comes in is bytes.
LEMMA ReceivedIsBytes ==
  ASSUME SentInv, NEW d \in Received
  PROVE  IsBytes(d)
<1>1. CASE d \in Plaintexts
  BY <1>1, PlaintextsAreRaw, BytesAreBytes
<1>2. CASE d \notin Plaintexts
  <2>1. sent.some /\ d = sent.text
    BY <1>2 DEF Received
  <2>2. PICK v : d = Covered(kind, sent.plain, sent.key, v)
    BY <2>1 DEF SentInv
  <2>3. IsBytes(sent.plain)
    BY <2>1, PlaintextsAreRaw, BytesAreBytes DEF SentInv
  <2>4. QED
    BY <2>2, <2>3, XoredIsBytes DEF Covered
<1>3. QED
  BY <1>1, <1>2

\* What comes out is as many.
LEMMA CoveredIsBytes ==
  ASSUME NEW d, IsBytes(d), NEW kd, NEW k, NEW v
  PROVE  IsBytes(Covered(kd, d, k, v)) /\ Len(Covered(kd, d, k, v)) = Len(d)
BY XoredIsBytes DEF Covered

\* The keystream of CCM depends on key and IV alone.
LEMMA CcmCover ==
  ASSUME NEW d, NEW o
  PROVE  Xored(d, [i \in DOMAIN d |-> CcmStream(o, i)]) = Covered("ccm", d, o.key, o.iv)
<1>1. \A i : CcmStream(o, i) = NameAt("ccm", o.key, o.iv, i)
  BY DEF CcmStream, NameAt
<1>2. QED
  BY <1>1, Zenon DEF Covered

\* That of SIV on the half key for CTR and the synthetic IV.
LEMMA SivCover ==
  ASSUME NEW d, NEW o, NEW q
  PROVE  Xored(d, [i \in DOMAIN d |-> SivStream(o, q, i)]) = Covered("siv", d, o.ctr, q)
<1>1. \A i : SivStream(o, q, i) = NameAt("siv", o.ctr, q, i)
  BY DEF SivStream, NameAt
<1>2. QED
  BY <1>1, Zenon DEF Covered

\* That of ChaCha20 on key, IV and counter, which is 1 for a first text.
LEMMA ChaCover ==
  ASSUME NEW d, NEW o, o.ctr = 1
  PROVE  Xored(d, [i \in DOMAIN d |-> ChaStream(o, i)])
           = Covered("chachapoly", d, o.key, o.iv)
<1>1. \A i : ChaStream(o, i) = NameAt("chachapoly", o.key, o.iv, i)
  BY DEF ChaStream, NameAt
<1>2. QED
  BY <1>1, Zenon DEF Covered

\* CCM fails and burns its flags, or leaves text and tag of the message.
LEMMA CcmCryptIs ==
  ASSUME NEW o, CcmObject(o), NEW d, NEW dir, NEW r, r = CcmCrypt(o, d, dir)
  PROVE  /\ CcmObject(r.obj)
         /\ r.obj.key = o.key /\ r.obj.iv = o.iv /\ r.obj.aad = o.aad
         /\ r.err # "TAG_MISMATCH"
         /\ r.err = "INVALID_DATA" \/ o.flags = 0 => r.obj.flags = 0 /\ r.err # "NONE"
         /\ r.err # "INVALID_DATA" => r.obj.flags = o.flags
         /\ r.err = "NONE" =>
              /\ r.out = Covered("ccm", d, o.key, o.iv)
              /\ r.obj.tag = CcmTag(o.key, o.iv, o.flags, o.aad,
                                   IF dir = "encrypt" THEN d ELSE r.out)
<1> DEFINE out == Covered("ccm", d, o.key, o.iv)
           plain == IF dir = "encrypt" THEN d ELSE out
           t == CcmTag(o.key, o.iv, o.flags, o.aad, plain)
           fails == o.flags = 0 \/ Len(d) > CcmRoom[o.iv]
<1>1. r = IF ~CcmReady(o) THEN Done(o, "BAD_STATE")
          ELSE IF fails THEN Wrote(CcmBurnt(o), "INVALID_DATA", Zeros(Len(d)))
          ELSE Wrote([o EXCEPT !.tag = t], "NONE", out)
  BY CcmCover DEF CcmCrypt
<1> HIDE DEF out, t
<1>2. CASE ~CcmReady(o)
  <2>1. r.obj = o /\ r.err = "BAD_STATE"
    BY <1>1, <1>2 DEF Done
  <2>2. o.flags = 0 => r.obj.flags = 0
    BY <2>1
  <2>3. QED
    BY <2>1, <2>2
<1>3. CASE CcmReady(o) /\ fails
  <2>1. r.obj = CcmBurnt(o) /\ r.err = "INVALID_DATA"
    BY <1>1, <1>3 DEF Wrote
  <2>2. CcmObject(CcmBurnt(o)) /\ CcmBurnt(o).flags = 0 /\ CcmBurnt(o).key = o.key
        /\ CcmBurnt(o).iv = o.iv /\ CcmBurnt(o).aad = o.aad
    BY DEF CcmBurnt, CcmObject
  <2>3. QED
    BY <2>1, <2>2
<1>4. CASE CcmReady(o) /\ ~fails
  <2>1. r.obj = [o EXCEPT !.tag = t] /\ r.err = "NONE" /\ r.out = out
    BY <1>1, <1>4 DEF Wrote
  <2>2. CcmObject(r.obj) /\ r.obj.flags = o.flags /\ r.obj.key = o.key
        /\ r.obj.iv = o.iv /\ r.obj.aad = o.aad /\ r.obj.tag = t
    BY <2>1 DEF CcmObject
  <2>3. o.flags # 0
    BY <1>4
  <2>4. QED
    BY <2>1, <2>2, <2>3 DEF out, t
<1>5. QED
  BY <1>2, <1>3, <1>4

\* SIV leaves the synthetic IV, and for decryption compares it.
LEMMA SivCryptIs ==
  ASSUME NEW o, SivObject(o), NEW d, NEW dir, NEW r, r = SivCrypt(o, d, dir)
  PROVE  /\ SivObject(r.obj)
         /\ r.obj.mac = o.mac /\ r.obj.ctr = o.ctr /\ r.obj.iv = o.iv
         /\ r.obj.aads = o.aads
         /\ o.mac # NoKey =>
              /\ r.out = Covered("siv", d, o.ctr, IF dir = "encrypt" THEN S2V(o, d) ELSE o.iv)
              /\ r.obj.temp = S2V(o, IF dir = "encrypt" THEN d ELSE r.out)
              /\ dir = "encrypt" => r.err = "NONE"
              /\ dir # "encrypt" => (r.err = "NONE" <=> S2V(o, r.out) = o.iv)
<1>1. CASE dir = "encrypt"
  <2> DEFINE q == S2V(o, d)
             out == Covered("siv", d, o.ctr, q)
  <2>1. r = IF o.mac = NoKey THEN Done(o, "BAD_STATE")
            ELSE Wrote([o EXCEPT !.temp = q], "NONE", out)
    BY <1>1, SivCover DEF SivCrypt, SivEncrypt
  <2> HIDE DEF out, q
  <2>2. CASE o.mac = NoKey
    <3>1. r.obj = o
      BY <2>1, <2>2 DEF Done
    <3>2. QED
      BY <2>2, <3>1
  <2>3. CASE o.mac # NoKey
    <3>1. r.obj = [o EXCEPT !.temp = q] /\ r.err = "NONE" /\ r.out = out
      BY <2>1, <2>3 DEF Wrote
    <3>2. SivObject(r.obj) /\ r.obj.mac = o.mac /\ r.obj.ctr = o.ctr /\ r.obj.iv = o.iv
          /\ r.obj.aads = o.aads /\ r.obj.temp = q
      BY <3>1 DEF SivObject
    <3>3. QED
      BY <1>1, <3>1, <3>2 DEF out, q
  <2>4. QED
    BY <2>2, <2>3
<1>2. CASE dir # "encrypt"
  <2> DEFINE m == Covered("siv", d, o.ctr, o.iv)
             q == S2V(o, m)
  <2>1. r = IF o.mac = NoKey THEN Wrote(o, "BAD_STATE", m)
            ELSE Wrote([o EXCEPT !.temp = q], IF q = o.iv THEN "NONE" ELSE "TAG_MISMATCH", m)
    BY <1>2, SivCover DEF SivCrypt, SivDecrypt
  <2> HIDE DEF m, q
  <2>2. CASE o.mac = NoKey
    <3>1. r.obj = o
      BY <2>1, <2>2 DEF Wrote
    <3>2. QED
      BY <2>2, <3>1
  <2>3. CASE o.mac # NoKey
    <3>1. r.obj = [o EXCEPT !.temp = q] /\ (r.err = "NONE" <=> q = o.iv) /\ r.out = m
      BY <2>1, <2>3 DEF Wrote
    <3>2. SivObject(r.obj) /\ r.obj.mac = o.mac /\ r.obj.ctr = o.ctr /\ r.obj.iv = o.iv
          /\ r.obj.aads = o.aads /\ r.obj.temp = q
      BY <3>1 DEF SivObject
    <3>3. QED
      BY <1>2, <3>1, <3>2 DEF m, q
  <2>4. QED
    BY <2>2, <2>3
<1>3. QED
  BY <1>1, <1>2

\* The side of the text that ChaCha20-Poly1305 authenticates.
CipherOf(dir, d, out) == IF dir = "encrypt" THEN out ELSE d

\* ChaCha20-Poly1305 leaves a Poly1305 object that holds the message.
LEMMA ChaCryptIs ==
  ASSUME ChaObject(obj), NEW d, IsBytes(d), NEW dir, NEW r, r = ChaCrypt(obj, d, dir),
         s.aad \in Seq(Nat), NEW k,
         obj.ctr = 0, obj.inLen = 0, obj.aadLen = Len(s.aad), ~obj.poly.fin,
         Holds(obj.poly, k, Raw(s.aad))
  PROVE  /\ r.obj.key = obj.key /\ r.obj.iv = obj.iv
         /\ r.err = "NONE"
         /\ r.out = Covered("chachapoly", d, obj.key, obj.iv)
         /\ Holds(r.obj.poly, k, ChaMessage(s.aad, CipherOf(dir, d, r.out)))
         /\ r.obj.poly.buf = <<>>
<1> DEFINE c == [obj EXCEPT !.ctr = @ + 1, !.inLen = @ + Len(d)]
           out == Covered("chachapoly", d, obj.key, obj.iv)
           text == IF dir = "encrypt" THEN out ELSE d
           sum == ChaSum(s.aad, text)
           p == PolyUpdate(obj.poly, sum)
<1>1. Len(d) \in Nat
  BY LenProperties DEF IsBytes
<1>2. /\ c.key = obj.key /\ c.iv = obj.iv /\ c.ctr = 1 /\ c.aadLen = Len(s.aad)
      /\ c.inLen = Len(d) /\ c.poly = obj.poly
      /\ DOMAIN c = {"key", "iv", "ctr", "aadLen", "inLen", "poly"}
  BY <1>1 DEF ChaObject
<1> HIDE DEF c
<1>3. Xored(d, [i \in DOMAIN d |-> ChaStream(c, i)]) = out
  BY <1>2, ChaCover
<1>4. IsBytes(out) /\ Len(out) = Len(d)
  BY CoveredIsBytes
<1>5. IsBytes(text) /\ Len(text) = Len(d)
  BY <1>4
<1>6. ChaLengths(c) = ChaLengths([aadLen |-> Len(s.aad), inLen |-> Len(text)])
  BY <1>2, <1>5 DEF ChaLengths
<1>7. ChaPad(c.aadLen) \o (IF dir = "encrypt" THEN out ELSE d)
        \o ChaPad(c.inLen) \o ChaLengths(c) = sum
  BY <1>2, <1>5, <1>6 DEF ChaSum
<1> HIDE DEF out, sum
<1>8. r = IF obj.poly.fin THEN Wrote(c, "BAD_STATE", out)
          ELSE Wrote([c EXCEPT !.poly = PolyUpdate(@, sum)], "NONE", out)
  <2>1. r = IF obj.poly.fin
            THEN Wrote(c, "BAD_STATE", Xored(d, [i \in DOMAIN d |-> ChaStream(c, i)]))
            ELSE Wrote([c EXCEPT !.poly = PolyUpdate(@, ChaPad(c.aadLen)
                          \o (IF dir = "encrypt"
                              THEN Xored(d, [i \in DOMAIN d |-> ChaStream(c, i)]) ELSE d)
                          \o ChaPad(c.inLen) \o ChaLengths(c))],
                       "NONE", Xored(d, [i \in DOMAIN d |-> ChaStream(c, i)]))
    BY Zenon DEF ChaCrypt, c
  <2>2. QED
    BY <1>3, <1>7, <2>1, Zenon
<1>9. r.obj = [c EXCEPT !.poly = PolyUpdate(@, sum)] /\ r.err = "NONE" /\ r.out = out
  BY <1>8 DEF Wrote
<1>10. r.obj.key = obj.key /\ r.obj.iv = obj.iv /\ r.obj.poly = p
  BY <1>2, <1>9
<1> DEFINE S == Bytes(text)
<1>11. RawBytes \subseteq S /\ text \in Seq(S)
  BY <1>5 DEF Bytes, IsBytes
<1> HIDE DEF S, text
<1>12. /\ Raw(s.aad) \in Seq(S) /\ sum \in Seq(S)
       /\ ChaMessage(s.aad, text) = Raw(s.aad) \o sum
       /\ Rest(ChaMessage(s.aad, text)) = <<>>
  BY <1>11, MessageIs DEF sum
<1>13. PolyObject(obj.poly)
  BY DEF ChaObject
<1>14. Holds(p, k, ChaMessage(s.aad, text))
  BY <1>12, <1>13, UpdateHolds
<1>15. p.buf = <<>>
  BY <1>12, <1>14 DEF Holds
<1>16. text = CipherOf(dir, d, r.out)
  BY <1>9 DEF text, CipherOf
<1>17. QED
  BY <1>9, <1>10, <1>14, <1>15, <1>16 DEF out

\* Whatever the call finds, the object keeps its shape.
LEMMA ChaCryptKeeps ==
  ASSUME NEW o, ChaObject(o), NEW d, NEW dir, NEW r, r = ChaCrypt(o, d, dir)
  PROVE  ChaObject(r.obj)
<1> DEFINE c == [o EXCEPT !.ctr = @ + 1, !.inLen = @ + Len(d)]
           out == Xored(d, [i \in DOMAIN d |-> ChaStream(c, i)])
           sum == ChaPad(c.aadLen) \o (IF dir = "encrypt" THEN out ELSE d)
                  \o ChaPad(c.inLen) \o ChaLengths(c)
           p == PolyUpdate(c.poly, sum)
<1>1. ChaObject(c) /\ c.poly = o.poly
  BY DEF ChaObject
<1>2. PolyObject(p)
  BY <1>1 DEF ChaObject, PolyObject, PolyUpdate
<1>3. r.obj = c \/ r.obj = [c EXCEPT !.poly = PolyUpdate(@, sum)]
  BY DEF ChaCrypt, Wrote
<1> HIDE DEF c, out, sum, p
<1>4. ChaObject([c EXCEPT !.poly = PolyUpdate(@, sum)])
  BY <1>1, <1>2 DEF ChaObject, p
<1>5. QED
  BY <1>1, <1>3, <1>4

\* encrypt and decrypt keep the invariant.
LEMMA CryptIInv ==
  ASSUME IInv, kind # "poly1305", NEW dir \in {"encrypt", "decrypt"}, NEW d,
         dir = "encrypt" => d \in Plaintexts, d \in Received,
         Crypt(d, dir)
  PROVE  IInv'
<1> DEFINE r == CryptOf(d, dir)
           whole == s.on /\ s.dir = "none" /\ r.err \in {"NONE", "TAG_MISMATCH"}
           clean == whole /\ ~s.stale
<1>1. /\ obj' = r.obj /\ ret'.op = dir /\ ret'.err = r.err
      /\ s' = IF whole THEN [s EXCEPT !.dir = dir, !.text = d, !.out = r.out]
                       ELSE NoSession
      /\ touched' = CASE kind \in {"ccm", "siv"} -> touched
                      [] kind = "chachapoly" /\ arch = "ref" -> ~clean
                      [] OTHER -> TRUE
      /\ burnt' = (burnt \/ (kind = "ccm" /\ r.err = "INVALID_DATA"))
      /\ UNCHANGED <<kind, arch, sent>>
  BY DEF Crypt, Returned, TouchedBy
<1>2. Handle /\ SessionShape /\ KindInv /\ TextInv /\ SentInv
  BY DEF IInv
<1>3. /\ kind \in {"ccm", "siv", "chachapoly"} /\ arch \in {"ref", "zen4"}
      /\ touched \in BOOLEAN /\ burnt \in BOOLEAN
  BY <1>2 DEF Handle, Kinds
<1>4. touched' \in BOOLEAN /\ burnt' \in BOOLEAN
  BY <1>1, <1>3
<1>5. IsBytes(d)
  BY <1>2, ReceivedIsBytes
<1> HIDE DEF r
<1>6. /\ SessionShape'
      /\ s'.on <=> whole
      /\ s'.dir # "none" <=> whole
      /\ whole => /\ s'.stale = s.stale /\ s'.key = s.key /\ s'.iv = s.iv
                  /\ s'.aads = s.aads /\ s'.aad = s.aad /\ s'.taken = s.taken
                  /\ s'.dir = dir /\ s'.text = d /\ s'.out = r.out
                  /\ ~s.taken /\ s.on /\ s.dir = "none"
                  /\ s.key \in Keys
  <2>1. CASE whole
    <3>1. s' = [s EXCEPT !.dir = dir, !.text = d, !.out = r.out]
      BY <1>1, <2>1
    <3>2. /\ DOMAIN s' = DOMAIN s
          /\ s'.on = s.on /\ s'.stale = s.stale /\ s'.key = s.key /\ s'.iv = s.iv
          /\ s'.aads = s.aads /\ s'.aad = s.aad
          /\ s'.taken = s.taken /\ s'.dir = dir /\ s'.text = d /\ s'.out = r.out
      BY <1>2, <3>1 DEF SessionShape
    <3>3. ~s.taken /\ s.on /\ s.dir = "none" /\ s.key \in Keys
      BY <1>2, <2>1 DEF SessionShape
    <3>4. SessionShape'
      BY <1>1, <1>2, <1>5, <3>2, <3>3 DEF SessionShape
    <3>5. QED
      BY <2>1, <3>2, <3>3, <3>4
  <2>2. CASE ~whole
    BY <1>1, <2>2, NoSessionShape
  <2>3. QED
    BY <2>1, <2>2
<1>7. Proper' => whole /\ Proper
  BY <1>1, <1>6 DEF Proper
<1>8. Plain' = (IF dir = "encrypt" THEN d ELSE r.out) \/ ~whole
  BY <1>6 DEF Plain
<1>9. Cipher' = CipherOf(dir, d, r.out) \/ ~whole
  BY <1>6 DEF Cipher, CipherOf
<1>10. s.key # NoKey \/ ~whole
  BY <1>6, AeadAssumption
<1> DEFINE nonce == IF kind = "siv" /\ dir = "encrypt" THEN SivTag(s.key, s.aads, d) ELSE s.iv
<1>11. /\ Handle' /\ KindInv'
       /\ Proper' => r.out = Covered(kind, d, s.key, nonce)
       /\ Accepted'
  <2>1. CASE kind = "ccm"
    <3>1. CcmObject(obj) /\ CcmInv
      BY <1>2, <2>1 DEF Handle, KindInv
    <3>2. r = CcmCrypt(obj, d, dir)
      BY <2>1 DEF CryptOf, r
    <3>3. /\ CcmObject(obj')
          /\ obj'.key = obj.key /\ obj'.iv = obj.iv /\ obj'.aad = obj.aad
          /\ r.err # "TAG_MISMATCH"
          /\ r.err = "INVALID_DATA" \/ obj.flags = 0 => obj'.flags = 0 /\ r.err # "NONE"
          /\ r.err = "NONE" =>
               /\ obj'.flags = obj.flags
               /\ r.out = Covered("ccm", d, obj.key, obj.iv)
               /\ obj'.tag = CcmTag(obj.key, obj.iv, obj.flags, obj.aad,
                                    IF dir = "encrypt" THEN d ELSE r.out)
      BY <1>1, <3>1, <3>2, CcmCryptIs
    <3>4. touched' = touched
      BY <1>1, <2>1
    <3>5. burnt' => obj'.flags = 0
      BY <1>1, <1>3, <3>1, <3>3 DEF CcmInv
    <3>6. Proper' => obj.key = s.key /\ obj.iv = s.iv /\ obj.aad = s.aad /\ r.err = "NONE"
      BY <1>6, <1>7, <3>1, <3>3 DEF CcmInv
    <3>7. nonce = s.iv
      BY <2>1
    <3> HIDE DEF nonce
    <3>8. Proper' => r.out = Covered(kind, d, s.key, nonce)
      BY <2>1, <3>3, <3>6, <3>7
    <3>9. CcmInv'
      <4>1. ~touched' => obj'.aad = <<>>
        BY <3>1, <3>3, <3>4 DEF CcmInv
      <4>2. s'.on => /\ obj'.key = s'.key /\ obj'.iv = s'.iv /\ Len(s'.aads) <= 1
                     /\ s'.aads = <<>> => s'.aad = <<>>
        BY <1>6, <3>1, <3>3 DEF CcmInv
      <4>3. Proper' => /\ obj'.aad = s'.aad
                       /\ obj'.tag = CcmTag(s'.key, s'.iv, obj'.flags, s'.aad, Plain')
        BY <1>6, <1>7, <1>8, <3>3, <3>6
      <4> HIDE DEF whole, clean
      <4>4. QED
        BY <3>5, <4>1, <4>2, <4>3 DEF CcmInv
    <3>10. Accepted'
      BY <1>1, <2>1 DEF Accepted
    <3>11. QED
      BY <1>1, <1>2, <1>4, <2>1, <3>3, <3>8, <3>9, <3>10 DEF Handle, KindInv
  <2>2. CASE kind = "siv"
    <3>1. SivObject(obj) /\ SivInv /\ ~burnt
      BY <1>2, <2>2 DEF Handle, KindInv
    <3>2. r = SivCrypt(obj, d, dir)
      BY <2>2 DEF CryptOf, r
    <3>3. /\ SivObject(obj')
          /\ obj'.mac = obj.mac /\ obj'.ctr = obj.ctr /\ obj'.iv = obj.iv
          /\ obj'.aads = obj.aads
          /\ obj.mac # NoKey =>
               /\ r.out = Covered("siv", d, obj.ctr,
                                  IF dir = "encrypt" THEN S2V(obj, d) ELSE obj.iv)
               /\ obj'.temp = S2V(obj, IF dir = "encrypt" THEN d ELSE r.out)
               /\ dir # "encrypt" => (r.err = "NONE" <=> S2V(obj, r.out) = obj.iv)
      BY <1>1, <3>1, <3>2, SivCryptIs
    <3>4. touched' = touched /\ ~burnt'
      BY <1>1, <2>2, <3>1
    <3>5. Proper' => /\ obj.mac = s.key /\ obj.ctr = s.key /\ obj.iv = s.iv
                     /\ obj.aads = Cmacs(s.key, s.aads) /\ obj.mac # NoKey
      BY <1>6, <1>7, <1>10, <3>1 DEF SivInv
    <3>6. ASSUME NEW m, Proper' PROVE S2V(obj, m) = SivTag(s.key, s.aads, m)
      BY <3>5, <3>6 DEF S2V, SivTag, Cmacs
    <3>7. Proper' => r.out = Covered(kind, d, s.key, nonce)
      BY <2>2, <3>3, <3>5, <3>6
    <3>8. SivInv'
      <4>1. ~touched' => obj'.aads = <<>>
        BY <3>1, <3>3, <3>4 DEF SivInv
      <4>2. Proper' => /\ obj'.mac = s'.key /\ obj'.ctr = s'.key /\ obj'.iv = s'.iv
                       /\ obj'.aads = Cmacs(s'.key, s'.aads)
        BY <1>6, <1>7, <3>3, <3>5
      <4>3. Proper' => obj'.temp = SivTag(s'.key, s'.aads, Plain')
        BY <1>6, <1>7, <1>8, <3>3, <3>5, <3>6
      <4> HIDE DEF whole, clean
      <4>4. QED
        BY <4>1, <4>2, <4>3 DEF SivInv
    <3>9. Accepted'
      BY <1>1, <1>6, <1>7, <3>3, <3>5, <3>6 DEF Accepted
    <3>10. QED
      BY <1>1, <1>2, <1>4, <2>2, <3>3, <3>4, <3>7, <3>8, <3>9 DEF Handle, KindInv
  <2>3. CASE kind = "chachapoly"
    <3>1. ChaObject(obj) /\ ChaInv /\ ~burnt
      BY <1>2, <2>3 DEF Handle, KindInv
    <3>2. r = ChaCrypt(obj, d, dir)
      BY <2>3 DEF CryptOf, r
    <3>3. ChaObject(obj')
      BY <1>1, <3>1, <3>2, ChaCryptKeeps
    <3>4. ~burnt' /\ (~touched' => arch = "ref" /\ clean)
      BY <1>1, <1>3, <2>3, <3>1
    <3>5. ASSUME whole, Proper
          PROVE  /\ obj'.key = s.key /\ obj'.iv = s.iv
                 /\ r.out = Covered("chachapoly", d, s.key, s.iv)
                 /\ Holds(obj'.poly, <<s.key, s.iv, 0>>,
                          ChaMessage(s.aad, CipherOf(dir, d, r.out)))
                 /\ obj'.poly.buf = <<>>
      <4>1. /\ obj.key = s.key /\ obj.iv = s.iv
            /\ obj.ctr = 0 /\ obj.aadLen = Len(s.aad) /\ obj.inLen = 0
            /\ ~obj.poly.fin
            /\ Holds(obj.poly, <<s.key, s.iv, 0>>, Raw(s.aad))
        BY <1>6, <3>1, <3>5 DEF ChaInv
      <4>2. s.aad \in Seq(Nat)
        BY <1>2 DEF SessionShape
      <4>3. /\ r.obj.key = obj.key /\ r.obj.iv = obj.iv
            /\ r.out = Covered("chachapoly", d, obj.key, obj.iv)
            /\ Holds(r.obj.poly, <<s.key, s.iv, 0>>,
                     ChaMessage(s.aad, CipherOf(dir, d, r.out)))
            /\ r.obj.poly.buf = <<>>
        <5> DEFINE k == <<s.key, s.iv, 0>>
        <5>1. Holds(obj.poly, k, Raw(s.aad))
          BY <4>1
        <5> HIDE DEF k
        <5>2. /\ r.obj.key = obj.key /\ r.obj.iv = obj.iv
              /\ r.out = Covered("chachapoly", d, obj.key, obj.iv)
              /\ Holds(r.obj.poly, k, ChaMessage(s.aad, CipherOf(dir, d, r.out)))
              /\ r.obj.poly.buf = <<>>
          BY ONLY <1>5, <3>1, <3>2, <4>1, <4>2, <5>1, ChaCryptIs
        <5>3. QED
          BY <5>2 DEF k
      <4>4. QED
        BY <1>1, <4>1, <4>3
    <3>6. nonce = s.iv
      BY <2>3
    <3>7. clean => Proper
      BY DEF Proper
    <3> HIDE DEF nonce
    <3>8. Proper' => r.out = Covered(kind, d, s.key, nonce)
      BY <1>7, <2>3, <3>5, <3>6
    <3>9. ChaInv'
      <4>1. ~touched' => Fresh(arch', obj'.poly)
        BY <1>1, <3>4, <3>5, <3>7 DEF Fresh
      <4>2. Proper' => /\ obj'.key = s'.key /\ obj'.iv = s'.iv
                       /\ s'.dir # "none"
                       /\ Holds(obj'.poly, <<s'.key, s'.iv, 0>>, ChaMessage(s'.aad, Cipher'))
        BY <1>6, <1>7, <1>9, <3>5
      <4> HIDE DEF whole, clean
      <4>3. QED
        BY <4>1, <4>2 DEF ChaInv
    <3>10. Accepted'
      BY <1>1, <2>3 DEF Accepted
    <3>11. QED
      BY <1>1, <1>2, <1>4, <2>3, <3>1, <3>3, <3>4, <3>8, <3>9, <3>10 DEF Handle, KindInv
  <2>4. QED
    BY <1>3, <2>1, <2>2, <2>3
<1>12. Nonce' = nonce \/ ~whole
  BY <1>1, <1>6 DEF Nonce
<1>13. TextInv'
  <2> HIDE DEF nonce
  <2>1. QED
    BY <1>1, <1>6, <1>7, <1>11, <1>12 DEF TextInv
<1>14. TagOfSession' /\ SentInv'
  BY <1>1, <1>2, NoTag, NothingNewSent
<1>15. QED
  BY <1>6, <1>11, <1>13, <1>14 DEF IInv

-----------------------------------------------------------------------------
(* The tag.                                                                *)

\* CCM delivers at the length in its flags.
LEMMA CcmGetTagIs ==
  ASSUME NEW o, CcmObject(o), NEW n, NEW r, r = CcmGetTag(o, n)
  PROVE  /\ CcmObject(r.obj)
         /\ r.obj.key = o.key /\ r.obj.iv = o.iv /\ r.obj.aad = o.aad
         /\ r.obj.flags = o.flags
         /\ r.err # "NONE" => r.obj = o
         /\ r.err = "NONE" => n \in CcmTagLens /\ n = o.flags /\ r.out = o.tag
<1>1. CASE n \notin CcmTagLens \/ n # o.flags
  <2>1. r.obj = o /\ r.err = "INVALID_ARG"
    BY <1>1 DEF CcmGetTag, Done
  <2>2. QED
    BY <2>1
<1>2. CASE n \in CcmTagLens /\ n = o.flags
  <2>1. r.obj = [o EXCEPT !.tag = CcmZero] /\ r.err = "NONE" /\ r.out = o.tag
    BY <1>2 DEF CcmGetTag, Wrote
  <2>2. QED
    BY <1>2, <2>1 DEF CcmObject
<1>3. QED
  BY <1>1, <1>2

\* SIV delivers and forgets the additional data.
LEMMA SivGetTagIs ==
  ASSUME NEW o, SivObject(o), NEW n, NEW r, r = SivGetTag(o, n)
  PROVE  /\ SivObject(r.obj)
         /\ r.obj.mac = o.mac /\ r.obj.ctr = o.ctr /\ r.obj.iv = o.iv
         /\ r.err # "NONE" => r.obj = o
         /\ r.err = "NONE" => r.obj.aads = <<>> /\ r.out = o.temp
<1>1. CASE n # SivTagLen
  <2>1. r.obj = o /\ r.err = "INVALID_SIZE"
    BY <1>1 DEF SivGetTag, Done
  <2>2. QED
    BY <2>1
<1>2. CASE n = SivTagLen
  <2>1. r.obj = [o EXCEPT !.temp = SivZero, !.aads = <<>>] /\ r.err = "NONE" /\ r.out = o.temp
    BY <1>2 DEF SivGetTag, Wrote
  <2>2. QED
    BY <2>1 DEF SivObject
<1>3. QED
  BY <1>1, <1>2

\* ChaCha20-Poly1305 delivers what its Poly1305 object makes.
LEMMA ChaGetTagIs ==
  ASSUME arch \in {"ref", "zen4"}, NEW o, ChaObject(o), NEW n, NEW r, r = ChaGetTag(arch, o, n)
  PROVE  /\ ChaObject(r.obj)
         /\ r.obj.key = o.key /\ r.obj.iv = o.iv
         /\ arch = "ref" => r.obj.poly.buf = o.poly.buf
         /\ r.err # "NONE" => r.obj = o
         /\ r.err = "NONE" => r.out = PolyTag(o.poly)
<1> DEFINE p == PolyFinalized(arch, o.poly)
<1>1. PolyObject(p) /\ (arch = "ref" => p.buf = o.poly.buf)
  BY DEF ChaObject, PolyObject, PolyFinalized
<1>2. CASE o.poly.fin \/ (arch = "ref" /\ n # Block)
  <2>1. r.obj = o /\ r.err # "NONE"
    BY <1>2 DEF ChaGetTag, Done
  <2>2. QED
    BY <2>1
<1>3. CASE ~(o.poly.fin \/ (arch = "ref" /\ n # Block))
  <2>1. r.obj = [o EXCEPT !.poly = PolyFinalized(arch, @)] /\ r.err = "NONE"
        /\ r.out = PolyTag(o.poly)
    BY <1>3 DEF ChaGetTag, Wrote
  <2> HIDE DEF p
  <2>2. r.obj.poly = p /\ r.obj.key = o.key /\ r.obj.iv = o.iv /\ ChaObject(r.obj)
    BY <1>1, <2>1 DEF ChaObject, p
  <2>3. QED
    BY <1>1, <2>1, <2>2
<1>4. QED
  BY <1>2, <1>3

\* The first tag of a proper message is that of the algorithm.
LEMMA DeliveredTag ==
  ASSUME IInv, kind # "poly1305", NEW n, Proper, s.dir # "none", ~s.taken,
         GetTagOf(n).err = "NONE"
  PROVE  GetTagOf(n).out = TagFor(kind, n, s.key, s.iv, s.aads, s.aad, Plain, Cipher)
<1> DEFINE r == GetTagOf(n)
<1>1. Handle /\ SessionShape /\ KindInv /\ TextInv
  BY DEF IInv
<1>2. CASE kind = "ccm"
  <2>1. CcmObject(obj) /\ CcmInv
    BY <1>1, <1>2 DEF Handle, KindInv
  <2>2. r = CcmGetTag(obj, n)
    BY <1>2 DEF GetTagOf
  <2>3. n = obj.flags /\ r.out = obj.tag
    BY <2>1, <2>2, CcmGetTagIs
  <2>4. QED
    BY <1>2, <2>1, <2>3 DEF CcmInv, TagFor
<1>3. CASE kind = "siv"
  <2>1. SivObject(obj) /\ SivInv
    BY <1>1, <1>3 DEF Handle, KindInv
  <2>2. r = SivGetTag(obj, n)
    BY <1>3 DEF GetTagOf
  <2>3. r.out = obj.temp
    BY <2>1, <2>2, SivGetTagIs
  <2>4. QED
    BY <1>3, <2>1, <2>3 DEF SivInv, TagFor
<1>4. CASE kind = "chachapoly"
  <2>1. ChaObject(obj) /\ ChaInv /\ arch \in {"ref", "zen4"}
    BY <1>1, <1>4 DEF Handle, KindInv
  <2>2. r = ChaGetTag(arch, obj, n)
    BY <1>4 DEF GetTagOf
  <2>3. r.out = PolyTag(obj.poly)
    BY <2>1, <2>2, ChaGetTagIs
  <2> DEFINE k == <<s.key, s.iv, 0>>
  <2>4. Holds(obj.poly, k, ChaMessage(s.aad, Cipher))
    BY <2>1 DEF ChaInv
  <2>5. IsBytes(Cipher) /\ s.aad \in Seq(Nat)
    <3>1. IsBytes(s.text) /\ s.aad \in Seq(Nat)
      BY <1>1 DEF SessionShape
    <3>2. s.out = Covered(kind, s.text, s.key, Nonce)
      BY <1>1 DEF TextInv
    <3>3. QED
      BY <3>1, <3>2, CoveredIsBytes DEF Cipher
  <2> DEFINE S == Bytes(Cipher)
  <2>6. RawBytes \subseteq S /\ Cipher \in Seq(S)
    BY <2>5 DEF Bytes, IsBytes
  <2> HIDE DEF S, k
  <2>7. ChaMessage(s.aad, Cipher) \in Seq(S)
    BY <2>5, <2>6, MessageIs
  <2>8. r.out = PolyMac(k, ChaMessage(s.aad, Cipher))
    BY <2>3, <2>4, <2>7, TagOfHeld
  <2>9. ChaTag(s.key, s.iv, s.aad, Cipher) = PolyMac(k, ChaMessage(s.aad, Cipher))
    BY Zenon DEF ChaTag, ChaMessage, k
  <2>10. QED
    BY <1>4, <2>8, <2>9 DEF TagFor
<1>5. QED
  BY <1>1, <1>2, <1>3, <1>4 DEF Handle, Kinds

\* getTag keeps the invariant.
LEMMA GetTagIInv ==
  ASSUME IInv, kind # "poly1305", NEW n, GetTag(n)
  PROVE  IInv'
<1> DEFINE r == GetTagOf(n)
           first == s.on /\ s.dir # "none" /\ ~s.taken
           done == r.err = "NONE"
<1>1. /\ obj' = r.obj /\ ret'.op = "getTag" /\ ret'.err = r.err /\ ret'.len = n
      /\ UNCHANGED <<kind, arch, burnt>>
  BY DEF GetTag, Returned
<1>2. done => /\ tag' = r.out
              /\ s' = IF first THEN [s EXCEPT !.taken = TRUE] ELSE NoSession
              /\ touched' = (kind # "siv" /\ (touched \/ arch = "zen4"))
              /\ sent' = IF first /\ s.dir = "encrypt" /\ Proper
                         THEN [some |-> TRUE, key |-> s.key, iv |-> s.iv,
                               aads |-> s.aads, aad |-> s.aad,
                               plain |-> s.text, text |-> s.out, len |-> n, tag |-> r.out]
                         ELSE sent
  BY DEF GetTag
<1>3. ~done => UNCHANGED <<s, touched, sent>>
  BY DEF GetTag
<1>4. Handle /\ SessionShape /\ KindInv /\ TextInv /\ SentInv
  BY DEF IInv
<1>5. /\ kind \in {"ccm", "siv", "chachapoly"} /\ arch \in {"ref", "zen4"}
      /\ touched \in BOOLEAN
  BY <1>4 DEF Handle, Kinds
<1>6. first /\ Proper /\ done =>
        r.out = TagFor(kind, n, s.key, s.iv, s.aads, s.aad, Plain, Cipher)
  BY DeliveredTag
<1>7. ~done => obj' = obj
  <2>1. kind = "ccm" => CcmObject(obj) /\ r = CcmGetTag(obj, n)
    BY <1>4 DEF Handle, GetTagOf
  <2>2. kind = "siv" => SivObject(obj) /\ r = SivGetTag(obj, n)
    BY <1>4 DEF Handle, GetTagOf
  <2>3. kind = "chachapoly" => ChaObject(obj) /\ r = ChaGetTag(arch, obj, n)
    BY <1>4 DEF Handle, GetTagOf
  <2> HIDE DEF r
  <2>4. kind = "ccm" => (r.err # "NONE" => r.obj = obj)
    BY <2>1, CcmGetTagIs
  <2>5. kind = "siv" => (r.err # "NONE" => r.obj = obj)
    BY <2>2, SivGetTagIs
  <2>6. kind = "chachapoly" => (r.err # "NONE" => r.obj = obj)
    BY <1>5, <2>3, ChaGetTagIs
  <2>7. QED
    BY <1>1, <1>5, <2>4, <2>5, <2>6
<1>8. CASE ~done
  <2>1. s' = s /\ touched' = touched /\ sent' = sent /\ obj' = obj
    BY <1>3, <1>7, <1>8
  <2>2. (Proper' <=> Proper) /\ ret'.err # "NONE"
    BY <1>1, <1>8, <2>1 DEF Proper
  <2>3. Handle' /\ KindInv'
    BY <1>1, <1>4, <2>1, <2>2
    DEF Handle, KindInv, CcmInv, SivInv, ChaInv, PolyInv, Plain, Cipher
  <2>4. TagOfSession'
    BY <2>2 DEF TagOfSession, TagDelivered
  <2>5. QED
    BY <1>1, <1>4, <2>1, <2>3, <2>4, NoVerdict, NothingNewSent, SameText, SameSession DEF IInv
<1>9. CASE done
  <2>1. touched' \in BOOLEAN /\ (~touched' => kind = "siv" \/ (~touched /\ arch = "ref"))
    BY <1>2, <1>5, <1>9
  <2>2. /\ SessionShape'
        /\ s'.on <=> first
        /\ s'.taken <=> first
        /\ s'.dir # "none" <=> first
        /\ first => /\ s'.stale = s.stale /\ s'.key = s.key /\ s'.iv = s.iv
                    /\ s'.aads = s.aads /\ s'.aad = s.aad /\ s'.dir = s.dir
                    /\ s'.text = s.text /\ s'.out = s.out
    <3>1. CASE first
      <4>1. s' = [s EXCEPT !.taken = TRUE]
        BY <1>2, <1>9, <3>1
      <4>2. /\ DOMAIN s' = DOMAIN s
            /\ s'.on = s.on /\ s'.stale = s.stale /\ s'.key = s.key /\ s'.iv = s.iv
            /\ s'.aads = s.aads /\ s'.aad = s.aad /\ s'.dir = s.dir
            /\ s'.text = s.text /\ s'.out = s.out /\ s'.taken = TRUE
        BY <1>4, <4>1 DEF SessionShape
      <4>3. SessionShape'
        BY <1>1, <1>4, <3>1, <4>2 DEF SessionShape
      <4>4. QED
        BY <3>1, <4>2, <4>3
    <3>2. CASE ~first
      <4>1. s' = NoSession
        BY <1>2, <1>9, <3>2
      <4>2. ~s'.taken
        BY <4>1 DEF NoSession
      <4>3. QED
        BY <3>2, <4>1, <4>2, NoSessionShape
    <3>3. QED
      BY <3>1, <3>2
  <2>3. Proper' => first /\ Proper
    BY <1>1, <2>2 DEF Proper
  <2>4. Handle' /\ KindInv'
    <3>1. CASE kind = "ccm"
      <4>1. CcmObject(obj) /\ CcmInv /\ r = CcmGetTag(obj, n) /\ arch = "ref"
        BY <1>4, <3>1 DEF Handle, KindInv, GetTagOf
      <4> HIDE DEF r
      <4>2. /\ CcmObject(obj') /\ obj'.key = obj.key /\ obj'.iv = obj.iv
            /\ obj'.aad = obj.aad /\ obj'.flags = obj.flags
        BY <1>1, <4>1, CcmGetTagIs
      <4> HIDE DEF first, done
      <4>3. first => s.on
        BY DEF first
      <4>4. CcmInv'
        <5>1. burnt' => obj'.flags = 0
          BY <1>1, <4>1, <4>2 DEF CcmInv
        <5>2. ~touched' => obj'.aad = <<>>
          BY <2>1, <3>1, <4>1, <4>2 DEF CcmInv
        <5>3. s'.on => /\ obj'.key = s'.key /\ obj'.iv = s'.iv /\ Len(s'.aads) <= 1
                       /\ s'.aads = <<>> => s'.aad = <<>>
          BY <2>2, <4>1, <4>2, <4>3 DEF CcmInv
        <5>4. Proper' => obj'.aad = s'.aad /\ s'.taken
          BY <2>2, <2>3, <4>1, <4>2 DEF CcmInv
        <5>5. QED
          BY <5>1, <5>2, <5>3, <5>4 DEF CcmInv
      <4>5. QED
        BY <1>1, <1>4, <2>1, <3>1, <4>2, <4>4 DEF Handle, KindInv
    <3>2. CASE kind = "siv"
      <4>1. SivObject(obj) /\ SivInv /\ r = SivGetTag(obj, n) /\ ~burnt
        BY <1>4, <3>2 DEF Handle, KindInv, GetTagOf
      <4> HIDE DEF r
      <4>2. /\ SivObject(obj') /\ obj'.mac = obj.mac /\ obj'.ctr = obj.ctr
            /\ obj'.iv = obj.iv /\ obj'.aads = <<>>
        BY <1>1, <1>9, <4>1, SivGetTagIs
      <4> HIDE DEF first, done
      <4>3. SivInv'
        BY <2>2, <2>3, <4>1, <4>2 DEF SivInv
      <4>4. QED
        BY <1>1, <1>4, <2>1, <3>2, <4>1, <4>2, <4>3 DEF Handle, KindInv
    <3>3. CASE kind = "chachapoly"
      <4>1. ChaObject(obj) /\ ChaInv /\ r = ChaGetTag(arch, obj, n) /\ ~burnt
        BY <1>4, <3>3 DEF Handle, KindInv, GetTagOf
      <4> HIDE DEF r
      <4>2. /\ ChaObject(obj') /\ obj'.key = obj.key /\ obj'.iv = obj.iv
            /\ arch = "ref" => obj'.poly.buf = obj.poly.buf
        BY <1>1, <1>5, <4>1, ChaGetTagIs
      <4> HIDE DEF first, done
      <4>3. ~touched' => Fresh(arch', obj'.poly)
        BY <1>1, <2>1, <3>3, <4>1, <4>2 DEF ChaInv, Fresh
      <4>4. ChaInv'
        BY <2>2, <2>3, <4>1, <4>2, <4>3 DEF ChaInv
      <4>5. QED
        BY <1>1, <1>4, <2>1, <3>3, <4>1, <4>2, <4>4 DEF Handle, KindInv
    <3>4. QED
      BY <1>5, <3>1, <3>2, <3>3
  <2>5. first => Plain' = Plain /\ Cipher' = Cipher /\ Nonce' = Nonce
    BY <1>1, <2>2 DEF Plain, Cipher, Nonce
  <2>6. TextInv'
    <3> HIDE DEF first, done
    <3>1. QED
      BY <1>1, <1>4, <2>2, <2>3, <2>5 DEF TextInv
  <2>7. TagOfSession'
    <3>1. Proper' => tag' = TagFor(kind, n, s.key, s.iv, s.aads, s.aad, Plain, Cipher)
      BY <1>2, <1>6, <1>9, <2>3
    <3> HIDE DEF first, done, r
    <3>2. Proper' => IdealTag' = TagFor(kind, n, s.key, s.iv, s.aads, s.aad, Plain, Cipher)
      BY <1>1, <1>5, <2>2, <2>3, <2>5 DEF IdealTag, TagFor
    <3>3. QED
      BY <3>1, <3>2 DEF TagOfSession
  <2>8. SentInv'
    <3>1. CASE first /\ s.dir = "encrypt" /\ Proper
      <4>1. /\ sent'.some /\ sent'.key = s.key /\ sent'.iv = s.iv /\ sent'.aads = s.aads
            /\ sent'.aad = s.aad /\ sent'.plain = s.text /\ sent'.text = s.out
            /\ sent'.len = n /\ sent'.tag = r.out
        BY <1>2, <1>9, <3>1
      <4>2. s.text \in Plaintexts /\ s.out = Covered(kind, s.text, s.key, Nonce)
        BY <1>4, <3>1 DEF SessionShape, TextInv
      <4>3. r.out = TagFor(kind, n, s.key, s.iv, s.aads, s.aad, s.text, s.out)
        BY <1>6, <1>9, <3>1 DEF Plain, Cipher
      <4> HIDE DEF r
      <4>4. Nonce = IF kind = "siv" THEN sent'.tag ELSE sent'.iv
        BY <1>5, <3>1, <4>1, <4>3 DEF Nonce, TagFor
      <4>5. QED
        BY <1>1, <4>1, <4>2, <4>3, <4>4 DEF SentInv
    <3>2. CASE ~(first /\ s.dir = "encrypt" /\ Proper)
      BY <1>1, <1>2, <1>4, <1>9, <3>2, NothingNewSent
    <3>3. QED
      BY <3>1, <3>2
  <2>9. QED
    BY <1>1, <2>2, <2>4, <2>6, <2>7, <2>8, NoVerdict DEF IInv
<1>10. QED
  BY <1>8, <1>9

-----------------------------------------------------------------------------
(* Poly1305 behind the MAC interface.                                      *)

\* The beginning of a MAC session.
LEMMA MacSessionShape ==
  ASSUME kind' = "poly1305", NEW b \in BOOLEAN, NEW c \in BOOLEAN, NEW k,
         s' = [NoSession EXCEPT !.on = b, !.stale = c, !.key = k]
  PROVE  /\ SessionShape'
         /\ s'.on = b /\ s'.stale = c /\ s'.key = k
         /\ s'.dir = "none" /\ s'.text = <<>>
<1>1. <<>> \in Seq(Aads) /\ <<>> \in Seq(Nat)
  OBVIOUS
<1>2. QED
  BY <1>1 DEF SessionShape, NoSession

\* What a MAC call has to show to keep the invariant.
LEMMA MacIInv ==
  ASSUME IInv, kind = "poly1305", UNCHANGED <<kind, arch, burnt, sent>>,
         touched' \in BOOLEAN, PolyObject(obj'), SessionShape', PolyInv', TagOfSession',
         ret'.op # "decrypt"
  PROVE  IInv'
<1>1. Handle /\ KindInv /\ SentInv
  BY DEF IInv
<1>2. Handle' /\ KindInv'
  BY <1>1 DEF Handle, KindInv
<1>3. s'.dir = "none"
  BY DEF SessionShape
<1>4. QED
  BY <1>1, <1>2, <1>3, NoVerdict, NothingNewSent, NoText DEF IInv

\* The invariant for Poly1305.
LEMMA PolySession ==
  ASSUME IInv, kind = "poly1305"
  PROVE  /\ PolyObject(obj) /\ PolyInv /\ SessionShape
         /\ arch \in {"ref", "zen4"} /\ touched \in BOOLEAN
         /\ s.text \in Seq(Nat) /\ s.dir = "none"
BY DEF IInv, Handle, KindInv, SessionShape

\* A MAC call that is refused.
LEMMA NothingDone ==
  ASSUME IInv, kind = "poly1305", NEW op \in {"macInit", "macUpdate", "macFinalize"}, NEW e,
         e # "NONE",
         MacCalled(op, obj, e, SivZero), UNCHANGED <<s, touched>>
  PROVE  IInv'
<1>1. /\ obj' = obj /\ ret'.err = e /\ ret'.op = op
      /\ UNCHANGED <<kind, arch, burnt, sent>>
  BY DEF MacCalled, Returned
<1>2. TagOfSession'
  BY <1>1 DEF TagOfSession, TagDelivered
<1>3. SessionShape'
  BY <1>1, PolySession, SameSession
<1>4. PolyInv'
  BY <1>1, PolySession DEF PolyInv, Proper
<1>5. QED
  BY <1>1, <1>2, <1>3, <1>4, PolySession, MacIInv

\* init of a MAC keeps the invariant.
LEMMA MacInitIInv ==
  ASSUME IInv, kind = "poly1305", NEW k, MacInit(k)
  PROVE  IInv'
<1>1. CASE k = BadKey
  BY <1>1, NothingDone DEF MacInit
<1>2. CASE k # BadKey
  <2>1. /\ obj' = PolyInit(arch, obj, k) /\ ret'.op = "macInit"
        /\ s' = [NoSession EXCEPT !.on = TRUE, !.stale = touched, !.key = k]
        /\ UNCHANGED <<kind, arch, burnt, sent, touched>>
    BY <1>2 DEF MacInit, MacCalled, Returned
  <2>2. /\ PolyObject(obj') /\ obj'.key = k
        /\ Fresh(arch, obj) => Fresh(arch, obj') /\ Holds(obj', k, <<>>)
    BY <2>1, PolySession, PolyInitIs
  <2>3. /\ SessionShape' /\ s'.on /\ (s'.stale <=> touched) /\ s'.key = k
        /\ s'.dir = "none" /\ s'.text = <<>>
    BY <2>1, PolySession, MacSessionShape
  <2>4. Proper' => ~touched
    BY <2>1, <2>3 DEF Proper
  <2>5. Raw(<<>>) = <<>>
    BY DEF Raw
  <2>6. PolyInv'
    BY <2>1, <2>2, <2>3, <2>4, <2>5, PolySession DEF PolyInv
  <2>7. QED
    BY <2>1, <2>2, <2>3, <2>6, PolySession, MacIInv, NoTag
<1>3. QED
  BY <1>1, <1>2

\* update keeps the invariant.
LEMMA MacUpdateIInv ==
  ASSUME IInv, kind = "poly1305", NEW d \in Texts, MacUpdate(d)
  PROVE  IInv'
<1>1. CASE obj.fin
  BY <1>1, NothingDone DEF MacUpdate
<1>2. CASE ~obj.fin
  <2> DEFINE p == PolyUpdate(obj, Raw(d))
  <2>1. /\ obj' = p /\ ret'.op = "macUpdate" /\ touched'
        /\ s' = IF s.on THEN [s EXCEPT !.text = @ \o d] ELSE s
        /\ UNCHANGED <<kind, arch, burnt, sent>>
    BY <1>2 DEF MacUpdate, MacCalled, Returned
  <2>2. touched' \in BOOLEAN
    BY <1>2, Zenon DEF MacUpdate
  <2>3. PolyObject(p) /\ p.key = obj.key
    BY PolySession DEF PolyObject, PolyUpdate
  <2> HIDE DEF p
  <2>4. d \in Seq(Nat) /\ s.text \in Seq(Nat) /\ s.text \o d \in Seq(Nat)
    BY AeadAssumption, PolySession
  <2>5. /\ SessionShape' /\ s'.on = s.on /\ s'.stale = s.stale /\ s'.key = s.key
        /\ s'.aads = s.aads /\ s'.dir = s.dir
        /\ s.on => s'.text = s.text \o d
    <3>1. CASE s.on
      <4>1. s' = [s EXCEPT !.text = @ \o d]
        BY <2>1, <3>1
      <4>2. /\ DOMAIN s' = DOMAIN s
            /\ s'.on = s.on /\ s'.stale = s.stale /\ s'.key = s.key /\ s'.iv = s.iv
            /\ s'.aads = s.aads /\ s'.aad = s.aad /\ s'.dir = s.dir
            /\ s'.text = s.text \o d /\ s'.taken = s.taken
        BY <4>1, PolySession DEF SessionShape
      <4>3. SessionShape'
        BY <2>1, <2>4, <4>2, PolySession DEF SessionShape
      <4>4. QED
        BY <4>2, <4>3
    <3>2. CASE ~s.on
      BY <2>1, <3>2, PolySession, SameSession
    <3>3. QED
      BY <3>1, <3>2
  <2>6. Proper' => Proper /\ s.on
    BY <2>1, <2>5 DEF Proper
  <2>7. Proper => Holds(p, s.key, Raw(s.text \o d))
    <3>1. Raw(s.text) \in Seq(RawBytes) /\ Raw(d) \in Seq(RawBytes)
      BY <2>4, RawIsBytes
    <3>2. Proper => Holds(obj, s.key, Raw(s.text))
      BY <1>2, PolySession DEF PolyInv
    <3>3. Proper => Holds(p, s.key, Raw(s.text) \o Raw(d))
      BY <3>1, <3>2, PolySession, UpdateHolds DEF p
    <3>4. QED
      BY <2>4, <3>3, RawOfJoin
  <2>8. PolyInv'
    BY <2>1, <2>3, <2>5, <2>6, <2>7, PolySession DEF PolyInv
  <2>9. QED
    BY <2>1, <2>2, <2>3, <2>5, <2>8, MacIInv, NoTag
<1>3. QED
  BY <1>1, <1>2

\* finalize keeps the invariant.
LEMMA MacFinalizeIInv ==
  ASSUME IInv, kind = "poly1305", NEW n, MacFinalize(n)
  PROVE  IInv'
<1>1. CASE obj.fin \/ (arch = "ref" /\ n # Block)
  BY <1>1, NothingDone DEF MacFinalize
<1>2. CASE ~(obj.fin \/ (arch = "ref" /\ n # Block))
  <2> DEFINE p == PolyFinalized(arch, obj)
  <2>1. /\ obj' = p /\ ret'.op = "macFinalize" /\ touched' = TRUE
        /\ tag' = PolyTag(obj)
        /\ UNCHANGED <<kind, arch, burnt, sent, s>>
    BY <1>2 DEF MacFinalize, MacCalled, Returned
  <2>2. PolyObject(p) /\ p.key = obj.key /\ p.fin
    BY PolySession DEF PolyObject, PolyFinalized
  <2> HIDE DEF p
  <2>3. Proper' <=> Proper
    BY <2>1 DEF Proper
  <2>4. Raw(s.text) \in Seq(RawBytes)
    BY PolySession, RawIsBytes
  <2>5. Proper => PolyTag(obj) = PolyMac(s.key, Raw(s.text))
    BY <1>2, <2>4, PolySession, TagOfHeld DEF PolyInv
  <2>6. TagOfSession'
    BY <2>1, <2>3, <2>5 DEF TagOfSession, IdealTag
  <2>7. PolyInv'
    BY <2>1, <2>2, <2>3, PolySession DEF PolyInv
  <2>8. QED
    BY <2>1, <2>2, <2>6, <2>7, PolySession, SameSession, MacIInv
<1>3. QED
  BY <1>1, <1>2

\* reset keeps the invariant.
LEMMA MacResetIInv ==
  ASSUME IInv, kind = "poly1305", MacReset
  PROVE  IInv'
<1>1. /\ obj' = PolyReset(obj) /\ ret'.op = "macReset" /\ touched' = FALSE
      /\ s' = [NoSession EXCEPT !.on = obj.key # NoKey, !.key = obj.key]
      /\ UNCHANGED <<kind, arch, burnt, sent>>
  BY DEF MacReset, MacCalled, Returned
<1>2. /\ PolyObject(obj') /\ obj'.key = obj.key /\ obj'.acc = <<>> /\ obj'.buf = <<>>
  BY <1>1, PolySession DEF PolyObject, PolyReset
<1>3. /\ SessionShape' /\ s'.key = obj.key /\ s'.text = <<>> /\ s'.dir = "none"
  <2>1. <<>> \in Seq(Aads) /\ <<>> \in Seq(Nat)
    OBVIOUS
  <2>2. QED
    BY <1>1, <2>1 DEF SessionShape, NoSession
<1>4. Holds(obj', obj.key, <<>>)
  BY <1>2, NothingHeld
<1>5. Raw(<<>>) = <<>>
  BY DEF Raw
<1>6. PolyInv'
  BY <1>1, <1>2, <1>3, <1>4, <1>5 DEF PolyInv, Fresh
<1>7. QED
  BY <1>1, <1>2, <1>3, <1>6, MacIInv, NoTag

\* A copy keeps the invariant.
LEMMA MacCopyIInv ==
  ASSUME IInv, kind = "poly1305", MacCopy
  PROVE  IInv'
<1>1. /\ obj' = PolyNew /\ ret'.op = "macCopy" /\ touched' = FALSE
      /\ s' = NoSession
      /\ UNCHANGED <<kind, arch, burnt, sent>>
  BY DEF MacCopy, MacCalled, Returned, PolyCopy
<1>2. PolyObject(obj') /\ obj'.acc = <<>> /\ obj'.buf = <<>>
  BY <1>1 DEF PolyObject, PolyNew
<1>3. SessionShape' /\ ~s'.on
  BY <1>1, NoSessionShape
<1>4. PolyInv'
  BY <1>2, <1>3 DEF PolyInv, Fresh, Proper
<1>5. QED
  BY <1>1, <1>2, <1>3, <1>4, MacIInv, NoTag

-----------------------------------------------------------------------------
(* The invariant.                                                          *)

\* A handle begins in the invariant.
LEMMA InitIInv == Init => IInv
<1> SUFFICES ASSUME Init PROVE IInv
  OBVIOUS
<1>1. /\ kind \in Kinds /\ arch \in {"ref", "zen4"}
      /\ kind \in {"ccm", "siv"} => arch = "ref"
      /\ obj = New(kind) /\ ret.op = "request" /\ s = NoSession
      /\ touched = FALSE /\ burnt = FALSE /\ sent = NothingSent
  BY DEF Init
<1>2. /\ SessionShape /\ ~s.on /\ s.dir = "none"
  <2>1. <<>> \in Seq(Aads) /\ <<>> \in Seq(Nat)
    OBVIOUS
  <2>2. QED
    BY <1>1, <2>1 DEF SessionShape, NoSession
<1>3. Handle
  <2>1. kind = "ccm" => CcmObject(obj)
    BY <1>1 DEF New, CcmNew, CcmObject
  <2>2. kind = "siv" => SivObject(obj)
    BY <1>1 DEF New, SivNew, SivObject
  <2>3. kind = "chachapoly" => ChaObject(obj)
    BY <1>1 DEF New, ChaNew, ChaObject, PolyNew, PolyObject
  <2>4. kind = "poly1305" => PolyObject(obj)
    BY <1>1 DEF New, PolyNew, PolyObject
  <2>5. QED
    BY <1>1, <2>1, <2>2, <2>3, <2>4 DEF Handle
<1>4. KindInv
  <2>1. kind = "ccm" => CcmInv
    BY <1>1, <1>2 DEF New, CcmNew, CcmInv, Proper
  <2>2. kind = "siv" => SivInv
    BY <1>1, <1>2 DEF New, SivNew, SivInv, Proper
  <2>3. kind = "chachapoly" => ChaInv
    BY <1>1, <1>2 DEF New, ChaNew, PolyNew, ChaInv, Proper, Fresh
  <2>4. kind = "poly1305" => PolyInv
    BY <1>1, <1>2 DEF New, PolyNew, PolyInv, Proper, Fresh
  <2>5. QED
    BY <1>1, <2>1, <2>2, <2>3, <2>4 DEF KindInv
<1>5. ~sent.some
  BY <1>1 DEF NothingSent
<1>6. QED
  BY <1>1, <1>2, <1>3, <1>4, <1>5 DEF IInv, TextInv, SentInv, TagOfSession, TagDelivered, Accepted

\* Every call keeps the invariant.
LEMMA StepIInv == IInv /\ [Next]_vars => IInv'
<1> SUFFICES ASSUME IInv, [Next]_vars PROVE IInv'
  OBVIOUS
<1>1. CASE AeadCall
  <2>1. kind # "poly1305"
    BY <1>1 DEF AeadCall
  <2>2. ASSUME NEW k, NEW v, InitCall(k, v) PROVE IInv'
    BY <2>1, <2>2, InitCallIInv
  <2>3. ASSUME NEW n, SetTagLength(n) PROVE IInv'
    BY <2>1, <2>3, SetTagLengthIInv
  <2>4. ASSUME NEW n, GetTag(n) PROVE IInv'
    BY <2>1, <2>4, GetTagIInv
  <2>5. ASSUME NEW a \in Aads \cup {<<>>}, SetAad(a) PROVE IInv'
    BY <2>1, <2>5, SetAadIInv
  <2>6. ASSUME NEW d \in Plaintexts, Crypt(d, "encrypt") PROVE IInv'
    <3>1. d \in Received
      BY DEF Received
    <3>2. QED
      BY <2>1, <2>6, <3>1, CryptIInv
  <2>7. ASSUME NEW d \in Received, Crypt(d, "decrypt") PROVE IInv'
    BY <2>1, <2>7, CryptIInv
  <2>8. QED
    BY <1>1, <2>2, <2>3, <2>4, <2>5, <2>6, <2>7 DEF AeadCall
<1>2. CASE MacCall
  <2>1. kind = "poly1305"
    BY <1>2 DEF MacCall
  <2>2. ASSUME NEW k, MacInit(k) PROVE IInv'
    BY <2>1, <2>2, MacInitIInv
  <2>3. ASSUME NEW d \in Texts, MacUpdate(d) PROVE IInv'
    BY <2>1, <2>3, MacUpdateIInv
  <2>4. ASSUME NEW n, MacFinalize(n) PROVE IInv'
    BY <2>1, <2>4, MacFinalizeIInv
  <2>5. CASE MacReset
    BY <2>1, <2>5, MacResetIInv
  <2>6. CASE MacCopy
    BY <2>1, <2>6, MacCopyIInv
  <2>7. QED
    BY <1>2, <2>2, <2>3, <2>4, <2>5, <2>6 DEF MacCall
<1>3. CASE UNCHANGED vars
  <2>1. UNCHANGED <<kind, arch, obj, ret, tag, s, touched, burnt, sent>>
    BY <1>3 DEF vars
  <2>2. (Proper' <=> Proper) /\ Plain' = Plain /\ Cipher' = Cipher
    BY <2>1 DEF Proper, Plain, Cipher
  <2>3. Handle' /\ KindInv'
    BY <2>1, <2>2 DEF IInv, Handle, KindInv, CcmInv, SivInv, ChaInv, PolyInv
  <2>4. SessionShape' /\ TextInv' /\ SentInv'
    BY <2>1, SameSession, SameText, NothingNewSent DEF IInv
  <2>5. TagOfSession' /\ Accepted'
    BY <2>1, <2>2 DEF IInv, TagOfSession, Accepted, TagDelivered, IdealTag
  <2>6. QED
    BY <2>3, <2>4, <2>5 DEF IInv
<1>4. QED
  BY <1>1, <1>2, <1>3 DEF Next

\* The inductive invariant holds in every state.
LEMMA Invariant == Spec => []IInv
BY InitIInv, StepIInv, PTL DEF Spec

-----------------------------------------------------------------------------
(* What follows from the invariant.                                        *)

(* The tag delivered for one message, made by calls in order on a handle   *)
(* where nothing of another was left behind, is the one the algorithm has  *)
(* for its key, IV, additional data in all their pieces, and text, however *)
(* the pieces were cut (aes_ccm.cc:138, aes_cmac_siv.cc:183,               *)
(* chacha20_poly1305.cc:103, poly1305.cc:1269).                            *)
THEOREM TagsAreTheStandards == Spec => []TagOfSession
<1>1. IInv => TagOfSession
  BY DEF IInv
<1>2. QED
  BY <1>1, Invariant, PTL

\* The invariant is enough for the round trip.
LEMMA IInvRoundTrip == IInv => RoundTrip
<1> SUFFICES ASSUME IInv PROVE RoundTrip
  OBVIOUS
<1> DEFINE again == /\ Proper /\ sent.some /\ s.dir = "decrypt"
                    /\ s.text = sent.text /\ s.key = sent.key
                    /\ s.iv = IF kind = "siv" THEN sent.tag ELSE sent.iv
           alike == again /\ IF kind = "siv" THEN s.aads = sent.aads
                                             ELSE s.aad = sent.aad
<1>1. Handle /\ SessionShape /\ KindInv /\ TextInv /\ SentInv /\ TagOfSession /\ Accepted
  BY DEF IInv
<1>2. ASSUME again PROVE s.out = sent.plain
  <2>1. Nonce = s.iv
    BY <1>2 DEF Nonce
  <2>2. s.out = Covered(kind, s.text, s.key, s.iv)
    BY <1>1, <1>2, <2>1 DEF TextInv
  <2>3. s.text = Covered(kind, sent.plain, s.key, s.iv) /\ sent.plain \in Plaintexts
    BY <1>1, <1>2 DEF SentInv
  <2>4. sent.plain \in Seq(RawBytes)
    BY <2>3, PlaintextsAreRaw
  <2>5. Covered(kind, Covered(kind, sent.plain, s.key, s.iv), s.key, s.iv) = sent.plain
    <3>1. DOMAIN Covered(kind, sent.plain, s.key, s.iv) = DOMAIN sent.plain
      BY DEF Covered, Xored
    <3>2. QED
      BY <2>4, <3>1, XoredTwice DEF Covered
  <2>6. QED
    BY <2>2, <2>3, <2>5
<1>3. ASSUME alike, TagDelivered, ret.len = sent.len PROVE tag = sent.tag
  <2>1. kind \in {"ccm", "siv", "chachapoly"}
    BY <1>1, <1>3 DEF SentInv, Handle, Kinds
  <2>2. tag = IdealTag /\ s.out = sent.plain
    BY <1>1, <1>2, <1>3 DEF TagOfSession
  <2>3. Plain = sent.plain /\ Cipher = sent.text
    BY <1>3, <2>2 DEF Plain, Cipher
  <2>4. sent.tag = TagFor(kind, sent.len, sent.key, sent.iv, sent.aads, sent.aad,
                          sent.plain, sent.text)
    BY <1>1, <1>3 DEF SentInv
  <2>5. CASE kind = "ccm"
    BY <1>3, <2>2, <2>3, <2>4, <2>5 DEF IdealTag, TagFor
  <2>6. CASE kind = "siv"
    BY <1>3, <2>2, <2>3, <2>4, <2>6 DEF IdealTag, TagFor
  <2>7. CASE kind = "chachapoly"
    BY <1>3, <2>2, <2>3, <2>4, <2>7 DEF IdealTag, TagFor
  <2>8. QED
    BY <2>1, <2>5, <2>6, <2>7
<1>4. ASSUME alike, kind = "siv", ret.op = "decrypt" PROVE ret.err = "NONE"
  <2>1. s.out = sent.plain
    BY <1>2, <1>4
  <2>2. sent.tag = SivTag(s.key, s.aads, sent.plain)
    BY <1>1, <1>4 DEF SentInv, TagFor
  <2>3. QED
    BY <1>1, <1>4, <2>1, <2>2 DEF Accepted
<1>5. QED
  BY <1>2, <1>3, <1>4 DEF RoundTrip

(* Decrypting what was encrypted gives the plaintext and the same tag, and *)
(* SIV accepts it, whatever calls were made in between                     *)
(* (aes_cmac_siv.cc:368).                                                  *)
THEOREM DecryptionInverts == Spec => []RoundTrip
BY Invariant, IInvRoundTrip, PTL

\* No call ends the silence but init with an IV, which ends the burning.
LEMMA StepSilent == IInv /\ BurntStaysSilent /\ [Next]_vars => BurntStaysSilent'
<1> SUFFICES ASSUME IInv, BurntStaysSilent, [Next]_vars, burnt'
             PROVE  ~(ret'.op \in {"encrypt", "decrypt", "getTag"} /\ ret'.err = "NONE")
  BY DEF BurntStaysSilent
<1>1. Handle /\ KindInv /\ (kind = "ccm" => CcmObject(obj) /\ CcmInv) /\ (kind # "ccm" => ~burnt)
  BY DEF IInv, Handle, KindInv
<1>2. ASSUME NEW d, NEW dir, Crypt(d, dir) PROVE ret'.err # "NONE"
  <2> DEFINE r == CryptOf(d, dir)
  <2>1. ret'.err = r.err /\ (burnt \/ (kind = "ccm" /\ r.err = "INVALID_DATA"))
    BY <1>2 DEF Crypt, Returned
  <2>2. kind = "ccm"
    BY <1>1, <2>1
  <2>3. r = CcmCrypt(obj, d, dir)
    BY <2>2 DEF CryptOf
  <2>4. burnt => obj.flags = 0
    BY <1>1, <2>2 DEF CcmInv
  <2> HIDE DEF r
  <2>5. r.err = "INVALID_DATA" \/ obj.flags = 0 => r.err # "NONE"
    BY <1>1, <2>2, <2>3, CcmCryptIs
  <2>6. QED
    BY <2>1, <2>4, <2>5
<1>3. ASSUME NEW n, GetTag(n) PROVE ret'.err # "NONE"
  <2> DEFINE r == GetTagOf(n)
  <2>1. ret'.err = r.err /\ burnt
    BY <1>3 DEF GetTag, Returned
  <2>2. kind = "ccm"
    BY <1>1, <2>1
  <2>3. r = CcmGetTag(obj, n)
    BY <2>2 DEF GetTagOf
  <2>4. obj.flags = 0
    BY <1>1, <2>1, <2>2 DEF CcmInv
  <2> HIDE DEF r
  <2>5. r.err = "NONE" => n \in CcmTagLens /\ n = obj.flags
    BY <1>1, <2>2, <2>3, CcmGetTagIs
  <2>6. QED
    BY <2>1, <2>4, <2>5, CcmAssumption
<1>4. ASSUME NEW k, NEW v, InitCall(k, v) PROVE ret'.op = "init"
  BY <1>4 DEF InitCall, Returned
<1>5. ASSUME NEW n, SetTagLength(n) PROVE ret'.op = "setTagLength"
  BY <1>5 DEF SetTagLength, Returned
<1>6. ASSUME NEW a, SetAad(a) PROVE ret'.op = "setAad"
  BY <1>6 DEF SetAad, Returned
<1>7. CASE AeadCall
  BY <1>2, <1>3, <1>4, <1>5, <1>6, <1>7 DEF AeadCall
<1>8. CASE MacCall
  <2>1. kind = "poly1305" /\ UNCHANGED burnt
    BY <1>8 DEF MacCall, MacInit, MacUpdate, MacFinalize, MacReset, MacCopy, MacCalled
  <2>2. QED
    BY <1>1, <2>1
<1>9. CASE UNCHANGED vars
  BY <1>9 DEF vars, BurntStaysSilent
<1>10. QED
  BY <1>7, <1>8, <1>9 DEF Next

(* When CCM has failed, neither text nor tag comes out of the handle until *)
(* it is given another IV (aes_ccm.cc:194).                                *)
THEOREM BurntIsSilent == Spec => []BurntStaysSilent
<1>1. Init => BurntStaysSilent
  BY DEF Init, BurntStaysSilent
<1>2. QED
  BY <1>1, Invariant, StepSilent, PTL DEF Spec
=============================================================================
