----------------------------- MODULE Sha2Proofs -----------------------------
(***************************************************************************)
(* Proofs about Sha2 for both classes, every chunk size, length field,     *)
(* alphabet and message bound.  The inductive invariant adds to the        *)
(* properties the runs check what they rest on: a buffer that never holds  *)
(* more than a chunk, even after a failed finalize, a message short        *)
(* enough for its length field, and no digest before finalize.  The last   *)
(* part is about multi-buffer handles, Sha2MB.                             *)
(***************************************************************************)
EXTENDS Sha2, Sha2MB, SequenceTheorems, TLAPS

Bounds ==
  /\ Len(buf) <= Chunk
  /\ Len(fed) <= MaxMsg
  /\ ~finished => out = NoDigest

IInv ==
  /\ TypeOK
  /\ Bounds
  /\ MessageAccounted
  /\ CleanDigest

-----------------------------------------------------------------------------
(* Blocks and sequences.                                                   *)

(* Division with remainder, as the C++ operators / and % compute it on     *)
(* unsigned operands.                                                      *)
LEMMA DivMod ==
  ASSUME NEW B \in Nat \ {0}, NEW n \in Nat
  PROVE  /\ n \div B \in Nat
         /\ n % B \in 0 .. (B - 1)
         /\ n = B * (n \div B) + (n % B)
BY SMT

(* A remainder is determined by any representation q*B + r of the number.  *)
LEMMA ModUnique ==
  ASSUME NEW B \in Nat \ {0}, NEW q \in Nat, NEW r \in 0 .. (B - 1)
  PROVE  (B * q + r) % B = r
BY SMT

(* Adding whole blocks does not change how far into a block one is.        *)
LEMMA ModAddBlocks ==
  ASSUME NEW B \in Nat \ {0}, NEW m \in Nat, NEW n \in Nat, m % B = 0
  PROVE  (m + n) % B = n % B
<1> DEFINE q == m \div B
           p == n \div B
           r == n % B
<1>1. q \in Nat /\ p \in Nat /\ r \in 0 .. (B - 1)
  BY DivMod
<1>2. m = B * q
  BY DivMod
<1>3. n = B * p + r
  BY DivMod
<1> HIDE DEF q, p, r
<1>4. m + n = B * (q + p) + r
  BY <1>1, <1>2, <1>3
<1>5. (B * (q + p) + r) % B = r
  BY <1>1, ModUnique
<1>6. QED
  BY <1>4, <1>5 DEF r

(* A multiple of the block size, one block more or less, is a multiple.    *)
LEMMA ModMultiple ==
  ASSUME NEW B \in Nat \ {0}, NEW q \in Nat
  PROVE  (B * q) % B = 0
<1>1. (B * q + 0) % B = 0
  BY ModUnique
<1>2. QED
  BY <1>1

(* Cutting a sequence in two gives two sequences of the expected lengths.  *)
LEMMA CutBounds ==
  ASSUME NEW S, NEW d \in Seq(S), NEW n \in 0 .. Len(d)
  PROVE  /\ SubSeq(d, 1, n) \in Seq(S)
         /\ Len(SubSeq(d, 1, n)) = n
         /\ SubSeq(d, n + 1, Len(d)) \in Seq(S)
         /\ Len(SubSeq(d, n + 1, Len(d))) = Len(d) - n
<1>1. \A i \in 1 .. Len(d) : d[i] \in S
  BY ElementOfSeq
<1>2. Len(d) \in Nat
  BY LenProperties
<1>3. SubSeq(d, 1, n) \in Seq(S) /\ Len(SubSeq(d, 1, n)) = n
  BY <1>1, <1>2, SubSeqProperties
<1>4. /\ SubSeq(d, n + 1, Len(d)) \in Seq(S)
      /\ Len(SubSeq(d, n + 1, Len(d))) = Len(d) - n
  BY <1>1, <1>2, SubSeqProperties
<1>5. QED
  BY <1>3, <1>4

(* The two parts, put together again, are the whole.                       *)
LEMMA CutAndJoin ==
  ASSUME NEW S, NEW d \in Seq(S), NEW n \in 0 .. Len(d)
  PROVE  SubSeq(d, 1, n) \o SubSeq(d, n + 1, Len(d)) = d
<1>1. Len(d) \in Nat
  BY LenProperties
<1>2. 1 \in 1 .. Len(d) + 1 /\ n \in 1 - 1 .. Len(d) /\ Len(d) \in n .. Len(d)
  BY <1>1
<1>3. SubSeq(d, 1, n) \o SubSeq(d, n + 1, Len(d)) = SubSeq(d, 1, Len(d))
  BY <1>2, ConcatAdjacentSubSeq
<1>4. QED
  BY <1>3, SubSeqFull

(* Concatenation of sequences of bytes is associative: the library's fact  *)
(* for the one set the proofs need it for.                                 *)
LEMMA ConcatBytes ==
  \A s, t, u \in Seq(Nat) : (s \o t) \o u = s \o (t \o u)
<1> DEFINE S == Nat
<1>1. SUFFICES ASSUME NEW s \in Seq(S), NEW t \in Seq(S), NEW u \in Seq(S)
               PROVE  (s \o t) \o u = s \o (t \o u)
  OBVIOUS
<1> HIDE DEF S
<1>2. QED
  BY ConcatAssociative

-----------------------------------------------------------------------------
(* The constants' types, in the form the arithmetic steps need.            *)
LEMMA SizeTypes ==
  /\ Chunk \in Nat \ {0}
  /\ LenBytes \in Nat
  /\ LenBytes < Chunk
  /\ MaxMsg \in Nat
BY Sha2Assumption

(* What a caller hands to update is NoData or a sequence of bytes.         *)
LEMMA DataIsSeq ==
  ASSUME NEW d \in Data, d # NoData
  PROVE  d \in Seq(Byte)
BY DEF Data

(* Message bytes can go through the hash.                                  *)
LEMMA BytesAreStream ==
  ASSUME NEW s \in Seq(Byte)
  PROVE  s \in Stream
<1>1. Len(s) \in Nat /\ s \in [1 .. Len(s) -> Byte]
  BY LenProperties
<1>2. s \in [1 .. Len(s) -> Nat]
  <2>1. \A b \in Byte : b \in Nat
    BY Sha2Assumption
  <2>2. QED
    BY <1>1, <2>1
<1>3. QED
  BY <1>1, <1>2 DEF Stream

(* Remainders modulo a chunk tell the numbers below it apart.              *)
LEMMA SameRemainder ==
  ASSUME NEW B \in Nat \ {0}, NEW n \in Nat,
         NEW j \in 0 .. (B - 1), NEW k \in 0 .. (B - 1),
         (n + j) % B = 0, (n + k) % B = 0
  PROVE  j = k
<1> DEFINE p == (n + j) \div B
           q == (n + k) \div B
<1>1. n + j \in Nat /\ n + k \in Nat
  OBVIOUS
<1>2. p \in Nat /\ q \in Nat /\ n + j = B * p /\ n + k = B * q
  <2>1. p \in Nat /\ n + j = B * p + ((n + j) % B)
    BY <1>1, DivMod
  <2>2. q \in Nat /\ n + k = B * q + ((n + k) % B)
    BY <1>1, DivMod
  <2> HIDE DEF p, q
  <2>3. QED
    BY <1>1, <2>1, <2>2
<1> HIDE DEF p, q
<1>3. j - k = B * (p - q)
  BY <1>2
<1>4. p - q \in Int /\ (p - q >= 1 => B * (p - q) >= B)
      /\ (p - q <= -1 => B * (p - q) <= -B)
  BY <1>2
<1>5. p - q = 0
  BY <1>3, <1>4
<1>6. QED
  BY <1>3, <1>5

(* finalize's choice between one and two final chunks leaves the number of *)
(* zeros FIPS 180-4 asks for, wherever the message ends in its chunk.      *)
LEMMA FinalZeros ==
  ASSUME NEW n \in Nat, NEW m \in Nat, m % Chunk = 0,
         NEW b \in 0 .. (Chunk - 1), n = m + b
  PROVE  /\ ZeroCount(n) = FinalSize(b + 1) - (b + 1) - LenBytes
         /\ ZeroCount(n) \in 0 .. (Chunk - 1)
<1> DEFINE z == FinalSize(b + 1) - (b + 1) - LenBytes
<1>1. z \in 0 .. (Chunk - 1) /\ FinalSize(b + 1) \in {Chunk, 2 * Chunk}
  BY SizeTypes DEF FinalSize
<1>2. n + 1 + z + LenBytes = m + FinalSize(b + 1)
  BY <1>1, SizeTypes
<1>3. (m + FinalSize(b + 1)) % Chunk = 0
  <2>1. \A q \in Nat : (m + Chunk * q) % Chunk = 0
    <3> SUFFICES ASSUME NEW q \in Nat PROVE (m + Chunk * q) % Chunk = 0
      OBVIOUS
    <3>1. Chunk * q \in Nat /\ (Chunk * q) % Chunk = 0
      BY SizeTypes, ModMultiple
    <3>2. QED
      BY <3>1, SizeTypes, ModAddBlocks
  <2>2. FinalSize(b + 1) = Chunk * 1 \/ FinalSize(b + 1) = Chunk * 2
    BY <1>1, SizeTypes
  <2>3. QED
    BY <2>1, <2>2
<1> DEFINE c == n + 1 + LenBytes
<1>4. c \in Nat /\ c + z = n + 1 + z + LenBytes
  BY <1>1, SizeTypes
<1>5. (c + z) % Chunk = 0
  BY <1>2, <1>3, <1>4
<1> HIDE DEF z
<1>6. \A k \in 0 .. (Chunk - 1) : (n + 1 + k + LenBytes) % Chunk = 0 => k = z
  <2> SUFFICES ASSUME NEW k \in 0 .. (Chunk - 1),
                      (n + 1 + k + LenBytes) % Chunk = 0
               PROVE  k = z
    OBVIOUS
  <2>1. (c + k) % Chunk = 0
    BY SizeTypes
  <2> HIDE DEF c
  <2>2. QED
    BY <1>1, <1>4, <1>5, <2>1, SizeTypes, SameRemainder
<1>7. (n + 1 + z + LenBytes) % Chunk = 0
  BY <1>4, <1>5
<1>8. ZeroCount(n) = z
  BY <1>1, <1>6, <1>7 DEF ZeroCount
<1>9. QED
  BY <1>1, <1>8 DEF z

-----------------------------------------------------------------------------
(* The message fits its length field, so the cast to 64 bits is harmless.  *)
LEMMA LengthFits ==
  ASSUME NEW n \in Nat, n <= MaxMsg
  PROVE  (8 * n) % BitCountLimit = 8 * n
<1>1. BitCountLimit \in Nat \ {0} /\ 8 * n \in 0 .. (BitCountLimit - 1)
  BY Sha2Assumption
<1>2. (BitCountLimit * 0 + 8 * n) % BitCountLimit = 8 * n
  BY <1>1, ModUnique
<1>3. QED
  BY <1>1, <1>2

(* What finalize compresses is a sequence the hash can take.               *)
LEMMA PaddedType ==
  ASSUME IInv
  PROVE  Padded \in Stream
<1> DEFINE idx == Len(buf) + 1
           z == FinalSize(idx) - idx - LenBytes
           bits == (8 * msgLen) % BitCountLimit
<1>1. comp \in Seq(Nat) /\ buf \in Seq(Nat) /\ msgLen \in Nat /\ Len(buf) \in Nat
  BY BytesAreStream, LenProperties DEF IInv, TypeOK, Stream
<1>2. Len(buf) <= Chunk
  BY DEF IInv, Bounds
<1>3. z \in Nat
  BY <1>1, <1>2, SizeTypes DEF FinalSize
<1>4. bits \in Nat
  BY <1>1, Sha2Assumption, DivMod
<1>5. <<128>> \in Seq(Nat)
  OBVIOUS
<1>6. Zeros(z) \in Seq(Nat)
  <2> HIDE DEF z
  <2>1. QED
    BY <1>3 DEF Zeros
<1>7. LengthField(bits) \in Seq(Nat)
  <2> HIDE DEF bits
  <2>1. QED
    BY <1>4, SizeTypes DEF LengthField
<1> DEFINE x == comp \o buf
           y == x \o <<128>>
           w == y \o Zeros(z)
           v == w \o LengthField(bits)
<1>8. x \in Seq(Nat)
  BY <1>1, ConcatProperties
<1>9. y \in Seq(Nat)
  <2> HIDE DEF x
  <2>1. QED
    BY <1>5, <1>8, ConcatProperties
<1>10. w \in Seq(Nat)
  <2> HIDE DEF y, z
  <2>1. QED
    BY <1>6, <1>9, ConcatProperties
<1>11. v \in Seq(Nat)
  <2> HIDE DEF w, bits
  <2>1. QED
    BY <1>7, <1>10, ConcatProperties
<1>12. Padded = v
  BY DEF Padded
<1>13. QED
  BY <1>11, <1>12 DEF Stream

(* finalize compresses the message as FIPS 180-4 pads it.                  *)
LEMMA PaddedIsHash ==
  ASSUME IInv, ~finished, ~spoiled
  PROVE  Padded = HashOf(fed)
<1>1. /\ comp \o buf = fed
      /\ Len(comp) % Chunk = 0
      /\ Len(buf) < Chunk
      /\ msgLen = Len(fed)
  BY DEF IInv, MessageAccounted
<1>2. comp \in Seq(Nat) /\ buf \in Seq(Nat)
  BY BytesAreStream DEF IInv, TypeOK, Stream
<1>3. Len(comp) \in Nat /\ Len(buf) \in Nat
  BY <1>2, LenProperties
<1>4. Len(fed) = Len(comp) + Len(buf)
  BY <1>1, <1>2, ConcatProperties
<1>5. Len(buf) \in 0 .. (Chunk - 1) /\ Len(fed) \in Nat /\ Len(fed) <= MaxMsg
  BY <1>1, <1>3, <1>4, SizeTypes DEF IInv, Bounds
<1>6. ZeroCount(Len(fed)) = FinalSize(Len(buf) + 1) - (Len(buf) + 1) - LenBytes
  BY <1>1, <1>3, <1>4, <1>5, FinalZeros
<1>7. (8 * msgLen) % BitCountLimit = 8 * Len(fed)
  BY <1>1, <1>5, LengthFits
<1>8. QED
  BY <1>1, <1>6, <1>7 DEF Padded, HashOf

-----------------------------------------------------------------------------
(* An empty message, as init leaves it.                                    *)
LEMMA InitIInv == Init => IInv
<1> SUFFICES ASSUME Init PROVE IInv
  OBVIOUS
<1>1. TypeOK
  BY EmptySeq DEF Init, TypeOK, Stream, Rets
<1>2. MessageAccounted
  <2>1. (Chunk * 0) % Chunk = 0
    BY SizeTypes, ModMultiple
  <2>2. QED
    BY <2>1, SizeTypes DEF Init, MessageAccounted
<1>3. Bounds /\ CleanDigest
  BY SizeTypes DEF Init, Bounds, CleanDigest
<1>4. QED
  BY <1>1, <1>2, <1>3 DEF IInv

LEMMA InitSessionIInv ==
  ASSUME IInv, InitSession
  PROVE  IInv'
<1>1. /\ comp' = <<>> /\ buf' = <<>> /\ msgLen' = 0 /\ finished' = FALSE
      /\ fed' = <<>> /\ spoiled' = FALSE /\ out' = NoDigest /\ ret' \in Rets
      /\ wide' \in BOOLEAN
  BY DEF InitSession, Returned, Rets, IInv, TypeOK
<1>2. TypeOK'
  BY <1>1, EmptySeq DEF TypeOK, Stream
<1>3. MessageAccounted'
  <2>1. (Chunk * 0) % Chunk = 0
    BY SizeTypes, ModMultiple
  <2>2. QED
    BY <1>1, <2>1, SizeTypes DEF MessageAccounted
<1>4. Bounds' /\ CleanDigest'
  BY <1>1, SizeTypes DEF Bounds, CleanDigest
<1>5. QED
  BY <1>2, <1>3, <1>4 DEF IInv

(* A call that only reports leaves everything else as it is.               *)
LEMMA InertIInv ==
  ASSUME IInv, ret' \in Rets,
         UNCHANGED <<wide, comp, buf, msgLen, finished, fed, spoiled, out>>
  PROVE  IInv'
<1>1. TypeOK'
  BY DEF IInv, TypeOK
<1>2. Bounds' /\ MessageAccounted' /\ CleanDigest'
  BY DEF IInv, Bounds, MessageAccounted, CleanDigest
<1>3. QED
  BY <1>1, <1>2 DEF IInv

(* What both ways of absorbing data do to the message and its length.      *)
LEMMA AbsorbedFacts ==
  ASSUME IInv, NEW d \in Data, Absorbing(d)
  PROVE  /\ d \in Seq(Byte) /\ Len(d) \in Nat
         /\ fed' = fed \o d /\ fed' \in Seq(Byte)
         /\ Len(fed') = Len(fed) + Len(d) /\ Len(fed') <= MaxMsg
         /\ msgLen' = msgLen + Len(d) /\ msgLen' \in Nat
         /\ out' = NoDigest
         /\ ~finished /\ ~finished'
         /\ spoiled' = spoiled
         /\ ret' \in Rets
<1>1. d \in Seq(Byte) /\ ~finished
  BY DataIsSeq DEF Absorbing
<1>2. Len(d) \in Nat /\ msgLen \in Nat /\ fed \in Seq(Byte)
  BY <1>1, LenProperties DEF IInv, TypeOK
<1>3. fed \o d \in Seq(Byte) /\ Len(fed \o d) = Len(fed) + Len(d)
  BY <1>1, <1>2, ConcatProperties
<1>4. out = NoDigest
  BY <1>1 DEF IInv, Bounds
<1>5. QED
  BY <1>1, <1>2, <1>3, <1>4 DEF Absorbing, Returned, Rets

LEMMA BufferedIInv ==
  ASSUME IInv, NEW d \in Data, UpdateBuffered(d)
  PROVE  IInv'
<1>1. Absorbing(d) /\ buf' = buf \o d /\ comp' = comp
  BY DEF UpdateBuffered
<1>2. /\ d \in Seq(Byte) /\ Len(d) \in Nat
      /\ fed' = fed \o d /\ fed' \in Seq(Byte)
      /\ Len(fed') = Len(fed) + Len(d) /\ Len(fed') <= MaxMsg
      /\ msgLen' = msgLen + Len(d) /\ msgLen' \in Nat
      /\ out' = NoDigest
      /\ ~finished /\ ~finished'
      /\ spoiled' = spoiled
      /\ ret' \in Rets
  BY <1>1, AbsorbedFacts
<1>3. buf \in Seq(Byte) /\ comp \in Seq(Nat) /\ Len(buf) \in Nat
  BY LenProperties DEF IInv, TypeOK, Stream
<1>4. buf' \in Seq(Byte) /\ Len(buf') = Len(buf) + Len(d)
  BY <1>1, <1>2, <1>3, ConcatProperties
<1>5. Len(buf') < Chunk
  BY <1>2, <1>3, <1>4 DEF UpdateBuffered
<1>6. TypeOK'
  <2>1. /\ finished' \in BOOLEAN /\ spoiled' \in BOOLEAN /\ wide' \in BOOLEAN
        /\ comp' \in Stream
    BY <1>1 DEF IInv, TypeOK, Absorbing
  <2>2. QED
    BY <1>2, <1>4, <2>1 DEF TypeOK
<1>7. Bounds'
  BY <1>2, <1>3, <1>4, <1>5, SizeTypes DEF IInv, Bounds
<1>8. MessageAccounted'
  <2>1. (comp \o buf) \o d = comp \o (buf \o d)
    <3>1. comp \in Seq(Nat) /\ buf \in Seq(Nat) /\ d \in Seq(Nat)
      BY <1>2, <1>3, BytesAreStream DEF Stream
    <3>2. QED
      BY <3>1, ConcatBytes
  <2>2. QED
    BY <1>1, <1>2, <1>5, <2>1 DEF IInv, MessageAccounted
<1>9. CleanDigest'
  BY <1>2 DEF CleanDigest
<1>10. QED
  BY <1>6, <1>7, <1>8, <1>9 DEF IInv

(* The bytes one call compresses are a prefix of its data, and leave less  *)
(* than a chunk behind; together with a partial chunk in the buffer they   *)
(* are whole chunks.                                                       *)
LEMMA CompressedBounds ==
  ASSUME IInv, NEW d \in Seq(Byte), Len(buf) \in Nat, Len(d) \in Nat,
         Len(d) + Len(buf) >= Chunk
  PROVE  /\ Compressed(d) \in 0 .. Len(d)
         /\ Len(d) - Compressed(d) \in 0 .. (Chunk - 1)
         /\ \E q \in Nat : Len(buf) + Compressed(d) = Chunk * q
<1> DEFINE fill == Fill(d)
           rest == Len(d) - fill
           q == rest \div Chunk
           r == rest % Chunk
<1>1. Len(buf) <= Chunk /\ Len(<<>>) = 0
  BY DEF IInv, Bounds
<1>2. fill \in Nat /\ rest \in Nat
      /\ (Len(buf) + fill = Chunk * 1 \/ Len(buf) + fill = Chunk * 0)
  BY <1>1, SizeTypes DEF Fill
<1> HIDE DEF fill
<1>3. q \in Nat /\ r \in 0 .. (Chunk - 1) /\ rest = Chunk * q + r
  BY <1>2, SizeTypes, DivMod
<1>4. Compressed(d) = fill + Chunk * q
  BY DEF Compressed, fill
<1> HIDE DEF q, r
<1>5. Chunk * q \in Nat
  BY <1>3, SizeTypes
<1>6. Compressed(d) \in 0 .. Len(d) /\ Len(d) - Compressed(d) = r
  BY <1>2, <1>3, <1>4, <1>5, SizeTypes
<1>7. Len(buf) + Compressed(d) = Chunk * (1 + q)
      \/ Len(buf) + Compressed(d) = Chunk * q
  BY <1>2, <1>3, <1>4, SizeTypes
<1>8. QED
  BY <1>3, <1>6, <1>7

LEMMA ProcessedIInv ==
  ASSUME IInv, NEW d \in Data, UpdateProcessed(d)
  PROVE  IInv'
<1> DEFINE cut == Compressed(d)
           head == SubSeq(d, 1, cut)
           tail == SubSeq(d, cut + 1, Len(d))
           old == comp \o buf
<1>1. Absorbing(d) /\ comp' = old \o head /\ buf' = tail
  BY DEF UpdateProcessed
<1>2. /\ d \in Seq(Byte) /\ Len(d) \in Nat
      /\ fed' = fed \o d /\ fed' \in Seq(Byte)
      /\ Len(fed') = Len(fed) + Len(d) /\ Len(fed') <= MaxMsg
      /\ msgLen' = msgLen + Len(d) /\ msgLen' \in Nat
      /\ out' = NoDigest
      /\ ~finished /\ ~finished'
      /\ spoiled' = spoiled
      /\ ret' \in Rets
  BY <1>1, AbsorbedFacts
<1>3. /\ buf \in Seq(Nat) /\ comp \in Seq(Nat) /\ d \in Seq(Nat)
      /\ Len(buf) \in Nat /\ Len(comp) \in Nat
  BY <1>2, BytesAreStream, LenProperties DEF IInv, TypeOK, Stream
<1>4. /\ cut \in 0 .. Len(d)
      /\ Len(d) - cut \in 0 .. (Chunk - 1)
      /\ \E q \in Nat : Len(buf) + cut = Chunk * q
  BY <1>2, <1>3, CompressedBounds DEF UpdateProcessed
<1> HIDE DEF cut
<1>5. cut \in 0 .. Len(d) /\ d \in Seq(Byte) /\ d \in Seq(Nat)
  BY <1>2, <1>3, <1>4
<1>6. head \in Seq(Nat) /\ Len(head) = cut
  BY <1>5, CutBounds
<1>7. tail \in Seq(Byte) /\ Len(tail) = Len(d) - cut
  BY <1>5, CutBounds
<1>8. tail \in Seq(Nat)
  <2> HIDE DEF tail
  <2>1. QED
    BY <1>7, BytesAreStream DEF Stream
<1>9. head \o tail = d
  BY <1>5, CutAndJoin
<1>10. old \in Seq(Nat) /\ Len(old) = Len(comp) + Len(buf)
  BY <1>3, ConcatProperties
<1> HIDE DEF head, tail, old
<1>11. /\ old \o head \in Seq(Nat)
       /\ Len(old \o head) = Len(old) + Len(head)
  BY <1>6, <1>10, ConcatProperties
<1>12. TypeOK'
  <2>1. finished' \in BOOLEAN /\ spoiled' \in BOOLEAN
    BY <1>1 DEF IInv, TypeOK, Absorbing
  <2>2. wide' \in BOOLEAN
    BY <1>1 DEF IInv, TypeOK, Absorbing
  <2>3. QED
    BY <2>2, <1>1, <1>2, <1>7, <1>11, <2>1 DEF TypeOK, Stream
<1>13. Len(buf') < Chunk
  BY <1>1, <1>4, <1>7, SizeTypes
<1>14. Bounds'
  <2>1. Len(buf') <= Chunk
    BY <1>1, <1>4, <1>7, SizeTypes
  <2>2. QED
    BY <1>2, <2>1 DEF Bounds
<1>15. MessageAccounted'
  <2> SUFFICES ASSUME ~spoiled
               PROVE  /\ comp' \o buf' = fed'
                      /\ Len(comp') % Chunk = 0
                      /\ msgLen' = Len(fed')
    BY <1>2, <1>13 DEF MessageAccounted
  <2>1. old = fed /\ Len(comp) % Chunk = 0 /\ msgLen = Len(fed)
    BY <1>2 DEF IInv, MessageAccounted, old
  <2>2. comp' \o buf' = fed'
    <3>1. (old \o head) \o tail = old \o (head \o tail)
      BY <1>6, <1>8, <1>10, ConcatBytes
    <3>2. QED
      BY <1>1, <1>2, <1>9, <2>1, <3>1
  <2>3. Len(comp') % Chunk = 0
    <3>1. PICK q \in Nat : Len(buf) + cut = Chunk * q
      BY <1>4
    <3>2. (Chunk * q) % Chunk = 0 /\ Chunk * q \in Nat
      BY SizeTypes, ModMultiple
    <3>3. (Len(comp) + Chunk * q) % Chunk = 0
      BY <1>3, <2>1, <3>2, SizeTypes, ModAddBlocks
    <3>4. Len(comp') = Len(comp) + Chunk * q
      BY <1>1, <1>3, <1>4, <1>6, <1>10, <1>11, <3>1
    <3>5. QED
      BY <3>3, <3>4
  <2>4. QED
    BY <1>2, <2>1, <2>2, <2>3
<1>16. CleanDigest'
  BY <1>2 DEF CleanDigest
<1>17. QED
  BY <1>12, <1>14, <1>15, <1>16 DEF IInv

-----------------------------------------------------------------------------
(* A digest delivered on a clean session is the hash of the message.       *)
LEMMA DeliverIInv ==
  ASSUME IInv, FinalizeDelivers
  PROVE  /\ IInv'
         /\ [DS!Next]_(DS!vars)
<1>1. /\ ~finished /\ finished'
      /\ out' = Padded /\ buf' = <<>>
      /\ comp' \in {Padded, comp}
      /\ fed' = fed /\ msgLen' = msgLen /\ (spoiled' <=> spoiled)
  BY DEF FinalizeDelivers
<1>2. Padded \in Stream
  BY PaddedType
<1>3. ~spoiled => Padded = HashOf(fed)
  BY <1>1, PaddedIsHash
<1>4. TypeOK'
  <2>1. /\ finished' \in BOOLEAN /\ spoiled' \in BOOLEAN
        /\ wide' \in BOOLEAN
    BY DEF FinalizeDelivers, IInv, TypeOK
  <2>2. ret' \in Rets
    BY DEF FinalizeDelivers, Returned, Rets
  <2>3. comp' \in Stream /\ buf' \in Seq(Byte) /\ out' \in Stream
    BY <1>1, <1>2, EmptySeq DEF IInv, TypeOK
  <2>4. msgLen' \in Nat /\ fed' \in Seq(Byte)
    BY <1>1 DEF IInv, TypeOK
  <2>5. QED
    BY <2>1, <2>2, <2>3, <2>4 DEF TypeOK
<1>5. Bounds'
  <2>1. Len(buf') <= Chunk
    BY <1>1, SizeTypes
  <2>2. QED
    BY <1>1, <2>1 DEF IInv, Bounds
<1>6. MessageAccounted'
  BY <1>1 DEF MessageAccounted
<1>7. CleanDigest'
  <2>1. HashOf(fed)' = HashOf(fed)
    BY <1>1 DEF HashOf
  <2>2. QED
    BY <1>1, <1>3, <2>1 DEF CleanDigest
<1>8. [DS!Next]_(DS!vars)
  <2>1. CASE spoiled
    BY <1>1, <2>1 DEF DS!vars
  <2>2. CASE ~spoiled
    <3>1. ~spoiled'
      BY <1>1, <2>2
    <3>2. DS!Finish
      BY <1>1, <1>3, <2>2, <3>1 DEF DS!Finish
    <3>3. QED
      BY <3>2 DEF DS!Next
  <2>3. QED
    BY <2>1, <2>2
<1>9. QED
  BY <1>4, <1>5, <1>6, <1>7, <1>8 DEF IInv

(* After a failed Sha2_512::finalize the session is marked spoiled, its    *)
(* buffer still holds no more than a chunk, and to the contract the        *)
(* message is gone.                                                        *)
LEMMA SpoilIInv ==
  ASSUME IInv, NEW fits \in BOOLEAN, FinalizeSpoils(fits)
  PROVE  /\ IInv'
         /\ [DS!Next]_(DS!vars)
<1>1. /\ ~finished /\ ~finished' /\ ~spoiled /\ spoiled'
      /\ comp' = Padded /\ buf' = buf \o <<128>>
      /\ fed' = fed /\ msgLen' = msgLen /\ out' = out
  BY DEF FinalizeSpoils
<1>2. buf \in Seq(Byte) /\ <<128>> \in Seq(Byte) /\ Len(<<128>>) = 1
  BY Sha2Assumption DEF IInv, TypeOK
<1>3. /\ buf \o <<128>> \in Seq(Byte)
      /\ Len(buf \o <<128>>) = Len(buf) + 1
  BY <1>2, ConcatProperties
<1>4. Len(buf) < Chunk /\ Len(buf) \in Nat
  BY <1>1, <1>2, LenProperties DEF IInv, MessageAccounted
<1>5. TypeOK'
  <2>1. /\ finished' \in BOOLEAN /\ spoiled' \in BOOLEAN
        /\ wide' \in BOOLEAN
    BY DEF FinalizeSpoils, IInv, TypeOK
  <2>2. ret' \in Rets
    BY DEF FinalizeSpoils, Returned, Rets
  <2>3. comp' \in Stream /\ buf' \in Seq(Byte)
    BY <1>1, <1>3, PaddedType
  <2>4. msgLen' \in Nat /\ fed' \in Seq(Byte) /\ out' \in Stream \cup {NoDigest}
    BY <1>1 DEF IInv, TypeOK
  <2>5. QED
    BY <2>1, <2>2, <2>3, <2>4 DEF TypeOK
<1>6. Bounds'
  <2>1. Len(buf') <= Chunk
    BY <1>1, <1>3, <1>4, SizeTypes
  <2>2. QED
    BY <1>1, <2>1 DEF IInv, Bounds
<1>7. MessageAccounted' /\ CleanDigest'
  BY <1>1 DEF MessageAccounted, CleanDigest
<1>8. DS!Start
  BY <1>1 DEF DS!Start
<1>9. QED
  BY <1>5, <1>6, <1>7, <1>8 DEF IInv, DS!Next

(* Every step keeps the invariant and is a step of DigestSession or none.  *)
LEMMA StepIInv ==
  ASSUME IInv, [Next]_vars
  PROVE  /\ IInv'
         /\ [DS!Next]_(DS!vars)
<1> DEFINE Goal == IInv' /\ [DS!Next]_(DS!vars)
<1>1. ASSUME UNCHANGED <<wide, comp, buf, msgLen, finished, fed, spoiled, out>>,
             ret' \in Rets
      PROVE  Goal
  <2>1. UNCHANGED DS!vars
    BY <1>1 DEF DS!vars
  <2>2. QED
    BY <1>1, <2>1, InertIInv
<1>2. CASE InitSession
  <2>1. DS!Start
    BY <1>2 DEF InitSession, DS!Start
  <2>2. QED
    BY <1>2, <2>1, InitSessionIInv DEF DS!Next
<1>3. ASSUME NEW d \in Data, Update(d)
      PROVE  Goal
  <2>1. CASE UpdateRefused(d) \/ UpdateNothing(d)
    <3>1. /\ UNCHANGED <<wide, comp, buf, msgLen, finished, fed, spoiled, out>>
          /\ ret' \in Rets
      BY <2>1 DEF UpdateRefused, UpdateNothing, Returned, Rets
    <3>2. QED
      BY <1>1, <3>1
  <2>2. CASE UpdateBuffered(d) \/ UpdateProcessed(d)
    <3>1. IInv'
      BY <2>2, BufferedIInv, ProcessedIInv
    <3>2. Absorbing(d) /\ d \in Data \ {NoData}
      BY <2>2 DEF UpdateBuffered, UpdateProcessed, Absorbing
    <3>3. CASE spoiled
      <4>1. spoiled' /\ out' = out /\ finished' = finished
        BY <3>2, <3>3 DEF Absorbing
      <4>2. UNCHANGED DS!vars
        BY <3>3, <4>1 DEF DS!vars
      <4>3. QED
        BY <3>1, <4>2
    <3>4. CASE ~spoiled
      <4>1. ~spoiled' /\ ~finished /\ fed' = fed \o d /\ out' = out
            /\ finished' = finished
        BY <3>2, <3>4 DEF Absorbing
      <4>2. DS!Absorb(d)
        BY <3>4, <4>1 DEF DS!Absorb
      <4>3. QED
        BY <3>1, <3>2, <4>2 DEF DS!Next
    <3>5. QED
      BY <3>3, <3>4
  <2>3. QED
    BY <1>3, <2>1, <2>2 DEF Update
<1>4. ASSUME NEW fits \in BOOLEAN, Finalize(fits)
      PROVE  Goal
  <2>1. CASE FinalizeAgain(fits) \/ FinalizeRefused(fits)
    <3>1. /\ UNCHANGED <<wide, comp, buf, msgLen, finished, fed, spoiled, out>>
          /\ ret' \in Rets
      BY <2>1 DEF FinalizeAgain, FinalizeRefused, Returned, Rets
    <3>2. QED
      BY <1>1, <3>1
  <2>2. CASE FinalizeDelivers
    BY <2>2, DeliverIInv
  <2>3. CASE FinalizeSpoils(fits)
    BY <2>3, SpoilIInv
  <2>4. QED
    BY <1>4, <2>1, <2>2, <2>3 DEF Finalize
<1>5. CASE UNCHANGED vars
  <2>1. /\ UNCHANGED <<wide, comp, buf, msgLen, finished, fed, spoiled, out>>
        /\ ret' \in Rets
    BY <1>5 DEF vars, IInv, TypeOK
  <2>2. QED
    BY <1>1, <2>1
<1>6. QED
  BY <1>2, <1>3, <1>4, <1>5 DEF Next

(* The invariant holds of every state of every session.                    *)
THEOREM InvariantHolds == Spec => []IInv
<1>1. Init => IInv
  BY InitIInv
<1>2. IInv /\ [Next]_vars => IInv'
  BY StepIInv
<1>3. QED
  BY <1>1, <1>2, PTL DEF Spec

(* Both SHA-2 classes keep their variables' types.                         *)
THEOREM TypeCorrect == Spec => []TypeOK
<1>1. IInv => TypeOK
  BY DEF IInv
<1>2. QED
  BY <1>1, InvariantHolds, PTL

(* update of both classes (sha256.cc:169, sha512.cc:215) accounts for      *)
(* every byte, for every chunk size and every cut of the message.          *)
THEOREM MessageIsAccounted == Spec => []MessageAccounted
<1>1. IInv => MessageAccounted
  BY DEF IInv
<1>2. QED
  BY <1>1, InvariantHolds, PTL

(* finalize of both classes pads as FIPS 180-4 does, unless an earlier     *)
(* finalize of the same message failed.                                    *)
THEOREM CleanDigestIsHash == Spec => []CleanDigest
<1>1. IInv => CleanDigest
  BY DEF IInv
<1>2. QED
  BY <1>1, InvariantHolds, PTL

(* A session of either class implements DigestSession whatever calls fail: *)
(* the digest it delivers is that of the whole message, unless an earlier  *)
(* finalize of Sha2_512 failed and lost it (sha512.cc:314).                *)
THEOREM Sha2ImplementsDigestSession == Spec => ImplementsDigestSession
<1>1. Init => DS!Init
  BY DEF Init, DS!Init
<1>2. IInv /\ [Next]_vars => [DS!Next]_(DS!vars)
  BY StepIInv
<1>3. QED
  BY <1>1, <1>2, InvariantHolds, PTL DEF Spec, ImplementsDigestSession, DS!Spec
-----------------------------------------------------------------------------
(* The multi-buffer handle.                                                *)

MessageBytes == Batches \X Nat \X Nat

\* What a function that is given on 1 .. n is as a sequence.
LEMMA FunctionIsSeq ==
  ASSUME NEW S, NEW n \in Nat, NEW f \in [1 .. n -> S]
  PROVE  f \in Seq(S) /\ Len(f) = n
OBVIOUS

(* Reading the whole blocks of a message and then its rest is reading the  *)
(* message, however the two are divided.                                   *)
LEMMA ReadsJoin ==
  ASSUME NEW S, NEW m \in Seq(S), NEW k \in Nat, NEW n \in Nat, k + n = Len(m)
  PROVE  /\ Read(m, 0, k) \in Seq(S) /\ Read(m, k, n) \in Seq(S)
         /\ Read(m, 0, k) \o Read(m, k, n) = m
<1> DEFINE p == Read(m, 0, k)
           q == Read(m, k, n)
<1>1. Len(m) \in Nat /\ m \in [1 .. Len(m) -> S]
  BY LenProperties
<1>2. p = [j \in 1 .. k |-> m[j]] /\ q = [j \in 1 .. n |-> m[k + j]]
  BY <1>1 DEF Read
<1>3. p \in [1 .. k -> S] /\ q \in [1 .. n -> S]
  BY <1>1, <1>2
<1>4. p \in Seq(S) /\ Len(p) = k /\ q \in Seq(S) /\ Len(q) = n
  BY <1>3, FunctionIsSeq
<1>5. \A j \in 1 .. k : p[j] = m[j]
  BY <1>2
<1>6. \A j \in 1 .. n : q[j] = m[k + j]
  BY <1>2
<1> HIDE DEF p, q
<1> DEFINE c == p \o q
<1>7. c \in Seq(S) /\ Len(c) = k + n
  BY <1>4, ConcatProperties
<1>8. \A j \in 1 .. (k + n) : c[j] = IF j <= k THEN p[j] ELSE q[j - k]
  BY <1>4, ConcatProperties
<1> HIDE DEF c
<1>9. \A j \in 1 .. Len(m) : c[j] = m[j]
  <2> SUFFICES ASSUME NEW j \in 1 .. Len(m) PROVE c[j] = m[j]
    OBVIOUS
  <2>1. CASE j <= k
    BY <1>5, <1>8, <2>1
  <2>2. CASE j > k
    <3>1. j - k \in 1 .. n /\ k + (j - k) = j
      BY <2>2
    <3> QED BY <1>6, <1>8, <2>2, <3>1
  <2> QED BY <2>1, <2>2
<1>10. c = m
  BY <1>7, <1>9, SeqEqual
<1> QED
  BY <1>4, <1>10 DEF c, p, q

LEMMA MessageReadsJoin ==
  \A m \in Seq(MessageBytes) : \A k, n \in Nat :
    k + n = Len(m) =>
      /\ Read(m, 0, k) \in Seq(MessageBytes)
      /\ Read(m, 0, k) \o Read(m, k, n) = m
BY ReadsJoin

\* The blocks of a message and what they leave over.
LEMMA BlocksAndRest ==
  \A l \in Nat :
    /\ l \div BlockLen \in Nat
    /\ l % BlockLen \in Nat
    /\ l = BlockLen * (l \div BlockLen) + (l % BlockLen)
<1> TAKE l \in Nat
<1>1. BlockLen \in Nat \ {0}
  BY MultiBufferAssumption
<1>2. /\ l \div BlockLen \in Nat
      /\ l % BlockLen \in 0 .. (BlockLen - 1)
      /\ l = BlockLen * (l \div BlockLen) + (l % BlockLen)
  BY <1>1, DivMod
<1>3. \A r \in 0 .. (BlockLen - 1) : r \in Nat
  OBVIOUS
<1> QED
  BY <1>2, <1>3

\* Everything read at once.
LEMMA ReadAll ==
  ASSUME NEW S, NEW m \in Seq(S)
  PROVE  Read(m, 0, Len(m)) = m
<1>1. Len(m) \in Nat /\ m \in [1 .. Len(m) -> S]
  BY LenProperties
<1> QED
  BY <1>1 DEF Read

(* Each message of a batch is digested, on the vector path as well if the  *)
(* number of blocks is that of the message's length.                       *)
LEMMA DigestsAreHashes ==
  ASSUME NEW l \in Nat, NEW m \in [1 .. l -> MessageBytes], NEW o, NEW i,
         o.src[i] = m, o.len = l
  PROVE  /\ ScalarDigest(o, i) = Hash(m)
         /\ o.hash = <<>> /\ o.blocks = l \div BlockLen => VectorDigest(o, i) = Hash(m)
<1>1. m \in Seq(MessageBytes) /\ Len(m) = l
  BY FunctionIsSeq
<1>2. ScalarDigest(o, i) = Hash(m)
  BY <1>1, ReadAll DEF ScalarDigest
<1>3. ASSUME o.hash = <<>>, o.blocks = l \div BlockLen
      PROVE  VectorDigest(o, i) = Hash(m)
  <2> DEFINE k == o.blocks * BlockLen
             n == o.len % BlockLen
  <2>1. k \in Nat /\ n \in Nat /\ k + n = Len(m)
    <3>1. BlockLen \in Nat \ {0}
      BY MultiBufferAssumption
    <3>2. l \div BlockLen \in Nat /\ l % BlockLen \in Nat
          /\ l = BlockLen * (l \div BlockLen) + (l % BlockLen)
      BY BlocksAndRest
    <3> DEFINE q == l \div BlockLen
               r == l % BlockLen
    <3>3. q \in Nat /\ r \in Nat /\ l = BlockLen * q + r /\ k = q * BlockLen /\ n = r
      BY <1>3, <3>2
    <3> HIDE DEF q, r, k, n
    <3>4. k + n = l /\ k \in Nat
      BY <3>1, <3>3
    <3> QED BY <1>1, <3>3, <3>4
  <2>2. VectorDigest(o, i) = [data |-> (<<>> \o Read(m, 0, k)) \o Read(m, k, n),
                              bits |-> 8 * l]
    BY <1>3 DEF VectorDigest
  <2> HIDE DEF k, n
  <2>3. /\ Read(m, 0, k) \in Seq(MessageBytes)
        /\ Read(m, 0, k) \o Read(m, k, n) = m
    BY <1>1, <2>1, MessageReadsJoin
  <2>4. <<>> \o Read(m, 0, k) = Read(m, 0, k)
    BY <2>3, ConcatEmptySeq
  <2> QED
    BY <1>1, <2>2, <2>3, <2>4 DEF Hash
<1> QED
  BY <1>2, <1>3

\* An object with its five members.
Shaped(o) ==
  /\ DOMAIN o = {"hash", "src", "len", "num", "blocks"}
  /\ o = [f \in DOMAIN o |-> o[f]]

(***************************************************************************)
(* What is staged: num messages of len bytes, and a number of blocks that  *)
(* is unset if and only if nothing was flushed since the last dequeue, and *)
(* the message's own if that was flushed once.                             *)
(***************************************************************************)
Staged ==
  /\ Shaped(mb)
  /\ mb.hash = <<>>
  /\ mb.num \in 0 .. MaxBuffers
  /\ mb.len \in 0 .. (LenLimit - 1)
  /\ mb.src \in [1 .. mb.num -> [1 .. mb.len -> MessageBytes]]
  /\ mb.blocks \in Nat \cup {Unset}

BlocksMatch ==
  /\ flushes \in 0 .. 2
  /\ flushes = 0 <=> mb.blocks = Unset
  /\ flushes = 1 => mb.blocks = mb.len \div BlockLen

\* What the last call was.
LastTyped ==
  last \in [op : {"init", "flush", "dequeue"},
            err : {"NONE", "INVALID_ARG", "OVERRUN"},
            once : BOOLEAN]

Written ==
  \E n \in 0 .. MaxBuffers : DOMAIN digests = 1 .. n /\ digests = [i \in 1 .. n |-> digests[i]]

BatchInv == Staged /\ BlocksMatch /\ LastTyped /\ Written /\ BatchDigested

LEMMA BatchTyped == BatchInv => BatchTypeOK
<1> SUFFICES ASSUME BatchInv PROVE BatchTypeOK
  OBVIOUS
<1>1. mb.num \in Nat /\ Len(mb.src) = mb.num /\ mb.hash = <<>>
  BY MultiBufferAssumption DEF BatchInv, Staged
<1>2. Len(digests) <= MaxBuffers
  BY MultiBufferAssumption DEF BatchInv, Written
<1> QED
  BY <1>1, <1>2 DEF BatchInv, Staged, BlocksMatch, LastTyped, BatchTypeOK

LEMMA BatchInitInv == BatchInit => BatchInv
<1> SUFFICES ASSUME BatchInit PROVE BatchInv
  OBVIOUS
<1>1. mb = [hash |-> <<>>, src |-> <<>>, len |-> 0, num |-> 0, blocks |-> Unset]
  BY DEF BatchInit, FreshObject
<1>2. Staged
  <2>1. <<>> \in [1 .. 0 -> [1 .. 0 -> MessageBytes]]
    OBVIOUS
  <2> QED BY <1>1, <2>1, MultiBufferAssumption DEF Staged, Shaped
<1>3. BlocksMatch /\ LastTyped /\ BatchDigested
  BY <1>1 DEF BatchInit, BlocksMatch, LastTyped, BatchDigested, Dequeues
<1>4. Written
  <2>1. DOMAIN <<>> = 1 .. 0 /\ <<>> = [i \in 1 .. 0 |-> <<>>[i]]
    OBVIOUS
  <2> QED BY <2>1, MultiBufferAssumption DEF BatchInit, Written
<1> QED
  BY <1>2, <1>3, <1>4 DEF BatchInv

\* A batch as the caller lays it out.
LEMMA BatchIsMessages ==
  ASSUME NEW b \in Batches, NEW num \in Nat, NEW len \in Nat
  PROVE  Batch(b, num, len) \in [1 .. num -> [1 .. len -> MessageBytes]]
<1>1. \A i \in 1 .. num, j \in 1 .. len : <<b, i, j>> \in MessageBytes
  BY DEF MessageBytes
<1> QED
  BY <1>1 DEF Batch

\* A call that is no dequeue, or a refused one.
LEMMA NothingDigested ==
  ASSUME NEW op \in {"init", "flush", "dequeue"}, NEW err \in {"NONE", "INVALID_ARG"},
         LastWas(op, err), op = "dequeue" => err # "NONE"
  PROVE  LastTyped' /\ BatchDigested'
<1>1. last' = [op |-> op, err |-> err, once |-> flushes = 1]
  BY DEF LastWas
<1>2. (flushes = 1) \in BOOLEAN
  OBVIOUS
<1>3. LastTyped'
  BY <1>1, <1>2 DEF LastTyped
<1> QED
  BY <1>1, <1>3 DEF BatchDigested, Dequeues

LEMMA StagedStays ==
  ASSUME Staged, BlocksMatch, Written, UNCHANGED <<mb, flushes, digests>>
  PROVE  Staged' /\ BlocksMatch' /\ Written'
BY DEF Staged, BlocksMatch, Written

LEMMA InitAgainInv == BatchInv /\ InitAgain => BatchInv'
<1> SUFFICES ASSUME BatchInv, InitAgain PROVE BatchInv'
  OBVIOUS
<1>1. mb' = mb
  BY DEF InitAgain, SetState, BatchInv, Staged, Shaped
<1>2. UNCHANGED <<flushes, digests>> /\ LastWas("init", "NONE")
  BY DEF InitAgain
<1> QED
  BY <1>1, <1>2, StagedStays, NothingDigested DEF BatchInv

LEMMA FlushInv ==
  ASSUME BatchInv, NEW b \in Batches, NEW num \in Nat, NEW len \in Nat, Flush(b, num, len)
  PROVE  BatchInv'
<1>1. CASE FlushRefused(num, len)
  BY <1>1, StagedStays, NothingDigested DEF FlushRefused, BatchInv
<1>2. CASE FlushStages(b, num, len)
  <2>1. /\ mb' = Flushed(mb, Batch(b, num, len), num, len)
        /\ flushes' = IF flushes = 0 THEN 1 ELSE 2
        /\ digests' = digests /\ LastWas("flush", "NONE")
        /\ num \in 1 .. MaxBuffers /\ len \in 0 .. (LenLimit - 1)
    BY <1>2, MultiBufferAssumption DEF FlushStages, FlushAllowed
  <2>2. Staged /\ BlocksMatch
    BY DEF BatchInv
  <2>3. /\ mb'.hash = <<>> /\ mb'.src = Batch(b, num, len) /\ mb'.len = len
        /\ mb'.num = num
        /\ mb'.blocks = IF mb.blocks = Unset THEN len \div BlockLen ELSE mb.blocks
        /\ Shaped(mb')
    BY <2>1, <2>2 DEF Flushed, Staged, Shaped
  <2>4. len \div BlockLen \in Nat
    BY BlocksAndRest
  <2>5. mb'.src \in [1 .. num -> [1 .. len -> MessageBytes]]
    BY <2>3, BatchIsMessages
  <2>6. Staged'
    BY <2>1, <2>2, <2>3, <2>4, <2>5, MultiBufferAssumption DEF Staged
  <2>7. BlocksMatch'
    BY <2>1, <2>2, <2>3, <2>4 DEF BlocksMatch, Unset
  <2>8. Written'
    BY <2>1 DEF BatchInv, Written
  <2> QED
    BY <2>1, <2>6, <2>7, <2>8, NothingDigested DEF BatchInv
<1> QED
  BY <1>1, <1>2 DEF Flush

LEMMA DeliversInv ==
  ASSUME BatchInv, NEW n, DequeueDelivers(n)
  PROVE  BatchInv'
<1>1. /\ n \in 1 .. mb.num
      /\ digests' = Digests(mb, n)
      /\ mb' = Dequeued(mb)
      /\ flushes' = 0
      /\ last' = [op |-> "dequeue", err |-> "NONE", once |-> flushes = 1]
  BY DEF DequeueDelivers, DequeueAllowed, LastWas
<1>2. Staged /\ BlocksMatch
  BY DEF BatchInv
<1>3. /\ mb.num \in Nat /\ mb.num <= MaxBuffers /\ MaxBuffers \in Nat /\ mb.len \in Nat
      /\ n \in Nat /\ n >= 1 /\ n <= mb.num
  BY <1>1, <1>2, MultiBufferAssumption DEF Staged
<1>4. /\ mb'.hash = <<>> /\ mb'.src = mb.src /\ mb'.len = mb.len /\ mb'.num = mb.num
      /\ mb'.blocks = Unset
      /\ Shaped(mb')
  BY <1>1, <1>2 DEF Dequeued, SetBlocks, Staged, Shaped
<1>5. Staged' /\ BlocksMatch'
  BY <1>1, <1>2, <1>4 DEF Staged, BlocksMatch
<1>6. /\ DOMAIN digests' = 1 .. n /\ digests' = [i \in 1 .. n |-> digests'[i]]
      /\ Len(digests') = n
  BY <1>1, <1>3 DEF Digests
<1>7. Written'
  BY <1>3, <1>6 DEF Written
<1>8. LastTyped'
  <2>1. (flushes = 1) \in BOOLEAN
    OBVIOUS
  <2> QED BY <1>1, <2>1 DEF LastTyped
<1>9. ASSUME flushes = 1 \/ n < VectorMin, NEW i \in 1 .. n
      PROVE  digests'[i] = Hash(mb.src[i])
  <2>1. mb.src[i] \in [1 .. mb.len -> MessageBytes] /\ mb.hash = <<>>
    BY <1>2, <1>3 DEF Staged
  <2>2. ScalarDigest(mb, i) = Hash(mb.src[i])
    BY <1>3, <2>1, DigestsAreHashes
  <2>3. flushes = 1 => VectorDigest(mb, i) = Hash(mb.src[i])
    BY <1>2, <1>3, <2>1, DigestsAreHashes DEF BlocksMatch
  <2>4. digests'[i] = IF n >= VectorMin THEN VectorDigest(mb, i) ELSE ScalarDigest(mb, i)
    BY <1>1 DEF Digests
  <2> QED BY <1>3, <1>9, <2>2, <2>3, <2>4, MultiBufferAssumption
<1>10. BatchDigested'
  BY <1>1, <1>4, <1>6, <1>9 DEF BatchDigested, StagedDigests
<1> QED
  BY <1>5, <1>7, <1>8, <1>10 DEF BatchInv

LEMMA DequeueInv ==
  ASSUME BatchInv, NEW n, NEW fits \in BOOLEAN, Dequeue(n, fits)
  PROVE  BatchInv'
<1>1. CASE DequeueRefused(n, fits)
  BY <1>1, StagedStays, NothingDigested DEF DequeueRefused, BatchInv
<1>2. CASE DequeueDelivers(n)
  BY <1>2, DeliversInv
<1>3. CASE DequeueOverruns(n)
  <2>1. /\ mb.blocks = Unset /\ UNCHANGED <<mb, flushes, digests>>
        /\ last' = [op |-> "dequeue", err |-> "OVERRUN", once |-> flushes = 1]
    BY <1>3 DEF DequeueOverruns, LastWas
  <2>2. flushes = 0
    BY <2>1 DEF BatchInv, BlocksMatch
  <2>3. LastTyped' /\ BatchDigested'
    BY <2>1, <2>2 DEF LastTyped, BatchDigested, Dequeues
  <2> QED BY <2>1, <2>3, StagedStays DEF BatchInv
<1> QED
  BY <1>1, <1>2, <1>3 DEF Dequeue

LEMMA BatchNextInv == BatchInv /\ [BatchNext]_batchVars => BatchInv'
<1> SUFFICES ASSUME BatchInv, [BatchNext]_batchVars PROVE BatchInv'
  OBVIOUS
<1>1. CASE InitAgain
  BY <1>1, InitAgainInv
<1>2. CASE \E b \in Batches, num \in 1 .. (MaxBuffers + 1), len \in 0 .. MaxLen :
             Flush(b, num, len)
  <2>1. PICK b \in Batches, num \in 1 .. (MaxBuffers + 1), len \in 0 .. MaxLen :
          Flush(b, num, len)
    BY <1>2
  <2>2. num \in Nat /\ len \in Nat
    BY MultiBufferAssumption, Sha2MBAssumption
  <2> QED BY <2>1, <2>2, FlushInv
<1>3. CASE \E n \in 1 .. (MaxBuffers + 1), fits \in BOOLEAN : Dequeue(n, fits)
  BY <1>3, DequeueInv
<1>4. CASE UNCHANGED batchVars
  <2>1. UNCHANGED <<mb, flushes, digests, last>>
    BY <1>4 DEF batchVars
  <2> QED
    BY <2>1, StagedStays
       DEF BatchInv, LastTyped, BatchDigested, Dequeues, StagedDigests
<1> QED
  BY <1>1, <1>2, <1>3, <1>4 DEF BatchNext

LEMMA BatchInvariance == BatchSpec => []BatchInv
BY BatchInitInv, BatchNextInv, PTL DEF BatchSpec

(***************************************************************************)
(* The multi-buffer object and what its calls return stay in their sets,   *)
(* for every number of buffers, block size and limit of lengths.           *)
(***************************************************************************)
THEOREM BatchTypeCorrect == BatchSpec => []BatchTypeOK
BY BatchInvariance, BatchTyped, PTL

(***************************************************************************)
(* A batch flushed once is digested message by message on both paths, and  *)
(* only a batch that was dequeued already starts the kernel on UINT64_MAX  *)
(* blocks (sha256_mb.cc:120-129, 165-202).                                 *)
(***************************************************************************)
THEOREM BatchesAreDigested == BatchSpec => []BatchDigested
BY BatchInvariance, PTL DEF BatchInv
=============================================================================
