----------------------------- MODULE AesProofs -----------------------------
(***************************************************************************)
(* Proofs about the sessions on the AES block cipher: CMAC (Cmac), and the  *)
(* block modes and XTS (CipherSession), for every block size, key set,     *)
(* alphabet and bound.                                                     *)
(*                                                                         *)
(* CMAC.  IInv is the inductive invariant: the types, the held-back block  *)
(* and the accounting of bytes.  None of the three is inductive alone: the *)
(* slices update takes are in range only because at most one block waits,  *)
(* and at most one block waits only because the bytes encrypted are whole  *)
(* blocks.                                                                 *)
(*                                                                         *)
(* Block modes.  SessionInv is the invariant of the single text, BatchInv  *)
(* of the buffers side by side.  What has come out is the mode's only as   *)
(* long as the stored IV, tweak or partial block is the one that belongs   *)
(* to the end of the text so far, so both say that too.                    *)
(***************************************************************************)
EXTENDS Cmac, CipherSession, SequenceTheorems, FiniteSetTheorems, WellFoundedInduction, TLAPS

IInv ==
  /\ TypeOK
  /\ LastBlockHeldBack
  /\ NoByteLost

-----------------------------------------------------------------------------
(* Blocks and sequences.                                                   *)

(* Division with remainder, as the C++ operators / and % compute it on     *)
(* unsigned operands.                                                      *)
LEMMA DivMod ==
  ASSUME NEW B \in Nat \ {0}, NEW n \in Nat
  PROVE  /\ n \div B \in Nat
         /\ n % B \in 0 .. (B - 1)
         /\ n = B * (n \div B) + (n % B)
BY SMT

(* A remainder is determined by any representation q*B + r of the number.  *)
LEMMA ModUnique ==
  ASSUME NEW B \in Nat \ {0}, NEW q \in Nat, NEW r \in 0 .. (B - 1)
  PROVE  (B * q + r) % B = r
BY SMT

(* Adding whole blocks does not change how far into a block one is.        *)
LEMMA ModAddBlocks ==
  ASSUME NEW B \in Nat \ {0}, NEW m \in Nat, NEW n \in Nat, m % B = 0
  PROVE  (m + n) % B = n % B
<1> DEFINE q == m \div B
           p == n \div B
           r == n % B
<1>1. q \in Nat /\ p \in Nat /\ r \in 0 .. (B - 1)
  BY DivMod
<1>2. m = B * q
  BY DivMod
<1>3. n = B * p + r
  BY DivMod
<1> HIDE DEF q, p, r
<1>4. m + n = B * (q + p) + r
  BY <1>1, <1>2, <1>3
<1>5. (B * (q + p) + r) % B = r
  BY <1>1, ModUnique
<1>6. QED
  BY <1>4, <1>5 DEF r

(* A multiple of the block size, one block more or less, is a multiple.    *)
LEMMA ModMultiple ==
  ASSUME NEW B \in Nat \ {0}, NEW q \in Nat
  PROVE  (B * q) % B = 0
<1>1. (B * q + 0) % B = 0
  BY ModUnique
<1>2. QED
  BY <1>1

(* What is left of a positive number once a whole number of blocks has     *)
(* been taken off it, keeping at least one byte.                           *)
LEMMA KeepOne ==
  ASSUME NEW B \in Nat \ {0}, NEW n \in Nat \ {0},
         NEW h, h = IF n % B = 0 THEN B ELSE n % B
  PROVE  /\ h \in 1 .. B
         /\ h <= n
         /\ (n - h) \div B \in Nat
         /\ B * ((n - h) \div B) = n - h
<1> DEFINE q == n \div B
           r == n % B
<1>1. q \in Nat /\ r \in 0 .. (B - 1) /\ n = B * q + r
  BY DivMod
<1> HIDE DEF q
<1>2. CASE r # 0
  <2>1. h = r /\ n - h = B * q
    BY <1>1, <1>2
  <2> HIDE DEF r
  <2>2. h \in 1 .. B /\ h <= n /\ n - h \in Nat
    BY <1>1, <1>2, <2>1
  <2>3. (n - h) % B = 0
    BY <1>1, <2>1, ModMultiple
  <2>4. n - h = B * ((n - h) \div B) + ((n - h) % B) /\ (n - h) \div B \in Nat
    BY <2>2, DivMod
  <2>5. QED
    BY <2>2, <2>3, <2>4
<1>3. CASE r = 0
  <2>1. h = B /\ n = B * q
    BY <1>1, <1>3
  <2> HIDE DEF r
  <2>2. q # 0
    BY <2>1
  <2>3. q - 1 \in Nat /\ n - h = B * (q - 1)
    BY <1>1, <2>1, <2>2
  <2>4. B * (q - 1) \in Nat
    BY <2>3
  <2>5. (n - h) % B = 0
    BY <2>3, ModMultiple
  <2>6. n - h = B * ((n - h) \div B) + ((n - h) % B) /\ (n - h) \div B \in Nat
    BY <2>3, <2>4, DivMod
  <2>7. h <= n
    BY <2>1, <2>3, <2>4
  <2>8. B * ((n - h) \div B) = n - h
    BY <2>3, <2>4, <2>5, <2>6
  <2>9. QED
    BY <2>1, <2>6, <2>7, <2>8
<1>4. QED
  BY <1>2, <1>3

(* Cutting a sequence in two gives two sequences of the expected lengths.  *)
LEMMA CutBounds ==
  ASSUME NEW S, NEW d \in Seq(S), NEW n \in 0 .. Len(d)
  PROVE  /\ SubSeq(d, 1, n) \in Seq(S)
         /\ Len(SubSeq(d, 1, n)) = n
         /\ SubSeq(d, n + 1, Len(d)) \in Seq(S)
         /\ Len(SubSeq(d, n + 1, Len(d))) = Len(d) - n
<1>1. \A i \in 1 .. Len(d) : d[i] \in S
  BY ElementOfSeq
<1>2. Len(d) \in Nat
  BY LenProperties
<1>3. SubSeq(d, 1, n) \in Seq(S) /\ Len(SubSeq(d, 1, n)) = n
  BY <1>1, <1>2, SubSeqProperties
<1>4. /\ SubSeq(d, n + 1, Len(d)) \in Seq(S)
      /\ Len(SubSeq(d, n + 1, Len(d))) = Len(d) - n
  BY <1>1, <1>2, SubSeqProperties
<1>5. QED
  BY <1>3, <1>4

(* The two parts, put together again, are the whole.                       *)
LEMMA CutAndJoin ==
  ASSUME NEW S, NEW d \in Seq(S), NEW n \in 0 .. Len(d)
  PROVE  SubSeq(d, 1, n) \o SubSeq(d, n + 1, Len(d)) = d
<1>1. Len(d) \in Nat
  BY LenProperties
<1>2. 1 \in 1 .. Len(d) + 1 /\ n \in 1 - 1 .. Len(d) /\ Len(d) \in n .. Len(d)
  BY <1>1
<1>3. SubSeq(d, 1, n) \o SubSeq(d, n + 1, Len(d)) = SubSeq(d, 1, Len(d))
  BY <1>2, ConcatAdjacentSubSeq
<1>4. QED
  BY <1>3, SubSeqFull

-----------------------------------------------------------------------------
(* What a caller hands to update is NoData or a sequence of bytes.         *)
LEMMA DataIsSeq ==
  ASSUME NEW d \in Data, d # NoData
  PROVE  d \in Seq(Byte)
BY DEF Data

(* The padding completes a partial block with bytes.                       *)
LEMMA PaddingType ==
  ASSUME NEW n \in 0 .. (Block - 1)
  PROVE  /\ Padding(n) \in Seq(Byte)
         /\ Len(Padding(n)) = Block - n
<1> DEFINE zeros == [i \in 1 .. (Block - 1 - n) |-> 0]
<1>1. Block - 1 - n \in Nat
  BY CmacAssumption
<1>2. zeros \in Seq(Byte) /\ Len(zeros) = Block - 1 - n
  BY <1>1, CmacAssumption
<1>3. <<128>> \in Seq(Byte) /\ Len(<<128>>) = 1
  BY CmacAssumption
<1> HIDE DEF zeros
<1>4. <<128>> \o zeros \in Seq(Byte) /\ Len(<<128>> \o zeros) = 1 + Len(zeros)
  BY <1>2, <1>3, ConcatProperties
<1>5. QED
  BY <1>1, <1>2, <1>4, CmacAssumption DEF Padding, zeros

(* What update does with `rem' bytes beyond a full buffer: it holds back   *)
(* between one byte and a block, the rest is whole blocks, and their count *)
(* survives the cast to 32 bits.                                           *)
LEMMA HeldBackBounds ==
  ASSUME NEW rem \in Nat \ {0}, rem <= MaxMsg
  PROVE  /\ HeldBack(rem) \in 1 .. Block
         /\ HeldBack(rem) <= rem
         /\ BlocksOf(rem) \in Nat
         /\ Block * BlocksOf(rem) = rem - HeldBack(rem)
         /\ BlocksOf(rem) % BlockCountLimit = BlocksOf(rem)
<1>1. Block \in Nat \ {0} /\ BlockCountLimit \in Nat /\ MaxMsg \in Nat
  BY CmacAssumption
<1>2. /\ HeldBack(rem) \in 1 .. Block
      /\ HeldBack(rem) <= rem
      /\ BlocksOf(rem) \in Nat
      /\ Block * BlocksOf(rem) = rem - HeldBack(rem)
  BY <1>1, KeepOne DEF HeldBack, BlocksOf
<1> DEFINE n == BlocksOf(rem)
<1>3. n < BlockCountLimit
  <2>1. Block * n < Block * BlockCountLimit
    BY <1>1, <1>2, CmacAssumption
  <2> HIDE DEF n
  <2>2. n \in Nat
    BY <1>2 DEF n
  <2>3. n >= BlockCountLimit => Block * n >= Block * BlockCountLimit
    BY <1>1, <2>2
  <2>4. QED
    BY <1>1, <2>1, <2>2, <2>3
<1> HIDE DEF n
<1>4. BlockCountLimit \in Nat \ {0} /\ n \in 0 .. (BlockCountLimit - 1)
  BY <1>1, <1>2, <1>3 DEF n
<1>5. (BlockCountLimit * 0 + n) % BlockCountLimit = n
  BY <1>4, ModUnique
<1>6. QED
  BY <1>2, <1>4, <1>5 DEF n

-----------------------------------------------------------------------------
(* A new session satisfies the invariant.                                  *)
LEMMA InitIInv == Init => IInv
<1> SUFFICES ASSUME Init PROVE IInv
  OBVIOUS
<1>1. TypeOK
  BY EmptySeq DEF Init, TypeOK, Rets
<1>2. LastBlockHeldBack
  <2>1. (Block * 0) % Block = 0
    BY CmacAssumption, ModMultiple
  <2>2. QED
    BY <2>1, CmacAssumption DEF Init, LastBlockHeldBack
<1>3. NoByteLost
  BY DEF Init, NoByteLost
<1>4. QED
  BY <1>1, <1>2, <1>3 DEF IInv

(* init and reset leave an empty message behind.                           *)
LEMMA ClearedIInv ==
  ASSUME IInv, Cleared, key' \in Keys \cup {NoKey}, ret' \in Rets
  PROVE  IInv'
<1>1. TypeOK'
  BY EmptySeq DEF TypeOK, Cleared
<1>2. LastBlockHeldBack'
  <2>1. (Block * 0) % Block = 0
    BY CmacAssumption, ModMultiple
  <2>2. QED
    BY <2>1, CmacAssumption DEF Cleared, LastBlockHeldBack
<1>3. NoByteLost'
  BY DEF Cleared, NoByteLost
<1>4. QED
  BY <1>1, <1>2, <1>3 DEF IInv

(* A call that only reports leaves everything else as it is.               *)
LEMMA InertIInv ==
  ASSUME IInv, UNCHANGED <<key, enc, buff, finalized, fed, out>>, ret' \in Rets
  PROVE  IInv'
BY DEF IInv, TypeOK, LastBlockHeldBack, NoByteLost

LEMMA BufferedIInv ==
  ASSUME IInv, NEW d \in Data, UpdateBuffered(d)
  PROVE  IInv'
<1>1. d \in Seq(Byte) /\ d # <<>>
  BY DataIsSeq DEF UpdateBuffered, Absorbing
<1>2. enc \in Seq(Byte) /\ buff \in Seq(Byte) /\ fed \in Seq(Byte)
  BY DEF IInv, TypeOK
<1>3. /\ buff \o d \in Seq(Byte)
      /\ fed \o d \in Seq(Byte)
      /\ Len(buff \o d) = Len(buff) + Len(d)
  BY <1>1, <1>2, ConcatProperties
<1>4. TypeOK'
  BY <1>3 DEF IInv, TypeOK, UpdateBuffered, Absorbing, Returned, Rets
<1>5. LastBlockHeldBack'
  <2>1. buff \o d # <<>>
    BY <1>1, <1>2, ConcatEqualIffEmpty
  <2>2. QED
    BY <1>3, <2>1 DEF IInv, LastBlockHeldBack, UpdateBuffered, Absorbing
<1>6. NoByteLost'
  <2>1. (enc \o buff) \o d = enc \o (buff \o d)
    BY <1>1, <1>2, ConcatAssociative
  <2>2. QED
    BY <2>1 DEF IInv, NoByteLost, UpdateBuffered, Absorbing
<1>7. QED
  BY <1>4, <1>5, <1>6 DEF IInv

LEMMA ProcessedIInv ==
  ASSUME IInv, NEW d \in Data, UpdateProcessed(d)
  PROVE  IInv'
<1> DEFINE fill == Block - Len(buff)
           rem == Len(d) - fill
           held == HeldBack(rem)
           cut == Len(d) - held
<1>1. d \in Seq(Byte) /\ ~finalized /\ ~finalized'
  BY DataIsSeq DEF UpdateProcessed, Absorbing
<1>2. enc \in Seq(Byte) /\ buff \in Seq(Byte) /\ fed \in Seq(Byte)
  BY DEF IInv, TypeOK
<1>3. Len(enc) \in Nat /\ Len(buff) \in Nat /\ Len(d) \in Nat /\ Len(fed) \in Nat
  BY <1>1, <1>2, LenProperties
<1>4. Block \in Nat \ {0} /\ MaxMsg \in Nat
  BY CmacAssumption
<1>5. fill \in Nat /\ rem \in Nat \ {0} /\ rem <= MaxMsg
  BY <1>1, <1>3, <1>4 DEF IInv, LastBlockHeldBack, UpdateProcessed, Absorbing
<1>6. /\ held \in 1 .. Block
      /\ held <= rem
      /\ BlocksOf(rem) \in Nat
      /\ Block * BlocksOf(rem) = rem - held
      /\ BlocksOf(rem) % BlockCountLimit = BlocksOf(rem)
  BY <1>5, HeldBackBounds
<1>7. cut \in 0 .. Len(d) /\ cut = fill + Block * BlocksOf(rem)
  BY <1>3, <1>4, <1>5, <1>6
<1>8. /\ enc' = (enc \o buff) \o SubSeq(d, 1, cut)
      /\ buff' = SubSeq(d, cut + 1, Len(d))
  <2>1. /\ enc' = (enc \o buff)
                    \o SubSeq(d, 1, fill + Block * (BlocksOf(rem) % BlockCountLimit))
        /\ buff' = SubSeq(d, fill + Block * BlocksOf(rem) + 1,
                             fill + Block * BlocksOf(rem) + held)
    BY DEF UpdateProcessed
  <2> HIDE DEF fill, rem, held
  <2>2. cut + held = Len(d)
    BY <1>3, <1>4, <1>6
  <2>3. QED
    BY <1>6, <1>7, <2>1, <2>2
<1> HIDE DEF fill, rem, held, cut
<1>9. /\ SubSeq(d, 1, cut) \in Seq(Byte)
      /\ Len(SubSeq(d, 1, cut)) = cut
      /\ SubSeq(d, cut + 1, Len(d)) \in Seq(Byte)
      /\ Len(SubSeq(d, cut + 1, Len(d))) = Len(d) - cut
      /\ ((enc \o buff) \o SubSeq(d, 1, cut)) \o SubSeq(d, cut + 1, Len(d))
           = (enc \o buff) \o d
  <2> DEFINE old == enc \o buff
  <2>1. old \in Seq(Byte)
    BY <1>2, ConcatProperties
  <2>4. d \in Seq(Byte)
    BY <1>1
  <2>5. cut \in 0 .. Len(d)
    BY <1>7
  <2> HIDE DEF old
  <2>6. SubSeq(d, 1, cut) \in Seq(Byte) /\ Len(SubSeq(d, 1, cut)) = cut
    BY <2>1, <2>4, <2>5, CutBounds
  <2>7. /\ SubSeq(d, cut + 1, Len(d)) \in Seq(Byte)
        /\ Len(SubSeq(d, cut + 1, Len(d))) = Len(d) - cut
    BY <2>1, <2>4, <2>5, CutBounds
  <2>8. (old \o SubSeq(d, 1, cut)) \o SubSeq(d, cut + 1, Len(d)) = old \o d
    <3>1. SubSeq(d, 1, cut) \o SubSeq(d, cut + 1, Len(d)) = d
      BY <2>4, <2>5, CutAndJoin
    <3>2. (old \o SubSeq(d, 1, cut)) \o SubSeq(d, cut + 1, Len(d))
            = old \o (SubSeq(d, 1, cut) \o SubSeq(d, cut + 1, Len(d)))
      <4> DEFINE head == SubSeq(d, 1, cut)
                 tail == SubSeq(d, cut + 1, Len(d))
      <4>1. head \in Seq(Byte) /\ tail \in Seq(Byte)
        BY <2>6, <2>7
      <4> HIDE DEF head, tail
      <4>2. (old \o head) \o tail = old \o (head \o tail)
        BY <2>1, <4>1, ConcatAssociative
      <4>3. QED
        BY <4>2 DEF head, tail
    <3>3. QED
      BY <3>1, <3>2
  <2>9. QED
    BY <2>6, <2>7, <2>8 DEF old
<1>10. /\ enc \o buff \in Seq(Byte)
       /\ Len(enc \o buff) = Len(enc) + Len(buff)
  BY <1>2, ConcatProperties
<1>11. /\ enc' \in Seq(Byte)
       /\ Len(enc') = (Len(enc) + Len(buff)) + cut
  BY <1>8, <1>9, <1>10, ConcatProperties
<1>12. fed \o d \in Seq(Byte)
  BY <1>1, <1>2, ConcatProperties
<1>13. TypeOK'
  BY <1>8, <1>9, <1>11, <1>12
     DEF IInv, TypeOK, UpdateProcessed, Absorbing, Returned, Rets
<1>14. LastBlockHeldBack'
  <2>1. Len(d) - cut = held
    BY <1>3, <1>4, <1>6 DEF cut
  <2>2. Len(buff') = held /\ buff' # <<>>
    <3>1. Len(buff') = held
      BY <1>8, <1>9, <2>1
    <3>2. held # 0 /\ Len(<<>>) = 0
      BY <1>4, <1>6
    <3>3. QED
      BY <3>1, <3>2
  <2>3. (Len(buff) + cut) = Block * (1 + BlocksOf(rem))
    BY <1>3, <1>4, <1>6, <1>7 DEF fill
  <2>4. Len(enc) % Block = 0
    BY <1>1 DEF IInv, LastBlockHeldBack
  <2>5. (Len(enc) + (Len(buff) + cut)) % Block = 0
    <3>1. 1 + BlocksOf(rem) \in Nat
      BY <1>6
    <3>2. (Block * (1 + BlocksOf(rem))) % Block = 0
      BY <1>4, <3>1, ModMultiple
    <3>3. Len(buff) + cut \in Nat
      BY <1>3, <1>7
    <3>4. QED
      BY <1>3, <1>4, <2>3, <2>4, <3>2, <3>3, ModAddBlocks
  <2>6. Len(enc') % Block = 0
    BY <1>3, <1>7, <1>11, <2>5
  <2>7. key' # NoKey
    BY DEF UpdateProcessed, Absorbing
  <2>8. QED
    BY <1>6, <2>2, <2>6, <2>7 DEF LastBlockHeldBack
<1>15. NoByteLost'
  BY <1>1, <1>8, <1>9 DEF IInv, NoByteLost, UpdateProcessed, Absorbing
<1>16. QED
  BY <1>13, <1>14, <1>15 DEF IInv

-----------------------------------------------------------------------------
(* Up to the padding, the chain after finalize has taken in the message.   *)
LEMMA FinalizeFacts ==
  ASSUME IInv, ~finalized, key # NoKey
  PROVE  /\ enc \o buff = fed
         /\ key \in Keys
         /\ Len(buff) \in 0 .. Block
         /\ Len(fed) = Len(enc) + Len(buff)
         /\ Len(fed) % Block = Len(buff) % Block
<1>1. enc \in Seq(Byte) /\ buff \in Seq(Byte)
  BY DEF IInv, TypeOK
<1>2. Len(enc) \in Nat /\ Len(buff) \in Nat /\ Block \in Nat \ {0}
  BY <1>1, LenProperties, CmacAssumption
<1>3. Len(enc) % Block = 0 /\ Len(buff) <= Block
  BY DEF IInv, LastBlockHeldBack
<1>4. enc \o buff = fed
  BY DEF IInv, NoByteLost
<1>5. Len(enc \o buff) = Len(enc) + Len(buff)
  BY <1>1, ConcatProperties
<1>6. (Len(enc) + Len(buff)) % Block = Len(buff) % Block
  BY <1>2, <1>3, ModAddBlocks
<1>7. key \in Keys
  BY DEF IInv, TypeOK
<1>8. QED
  BY <1>2, <1>3, <1>4, <1>5, <1>6, <1>7

(* A finished session keeps every part of IInv but the types trivially.    *)
LEMMA FinishedIInv ==
  ASSUME IInv, NEW block \in Seq(Byte), NEW mask \in {"k1", "k2"},
         FinalizeWith(block, mask)
  PROVE  IInv'
<1>1. enc \in Seq(Byte) /\ key \in Keys
  BY DEF IInv, TypeOK, FinalizeWith
<1>2. enc' \in Seq(Byte)
  BY <1>1, ConcatProperties DEF FinalizeWith
<1>3. TypeOK'
  BY <1>1, <1>2 DEF IInv, TypeOK, FinalizeWith, Tags, Returned, Rets
<1>4. finalized'
  BY DEF FinalizeWith
<1>5. QED
  BY <1>3, <1>4 DEF IInv, LastBlockHeldBack, NoByteLost

(* A complete last block: the MAC is AES-CMAC of the message, masked K1.   *)
LEMMA FullFinish ==
  ASSUME IInv, FinalizeFull
  PROVE  IInv' /\ MS!Finish
<1>1. ~finalized /\ key # NoKey /\ FinalizeWith(buff, "k1") /\ Len(buff) = Block
  BY DEF FinalizeFull, FinalizeWith
<1>2. /\ enc \o buff = fed
      /\ key \in Keys
      /\ Len(fed) = Len(enc) + Len(buff)
      /\ Len(fed) % Block = Len(buff) % Block
  BY <1>1, FinalizeFacts
<1>3. buff \in Seq(Byte) /\ enc \in Seq(Byte)
  BY DEF IInv, TypeOK
<1>4. IInv'
  BY <1>1, <1>3, FinishedIInv
<1>5. Len(fed) % Block = 0
  <2>1. Block \in Nat \ {0}
    BY CmacAssumption
  <2>2. (Block * 1) % Block = 0
    BY <2>1, ModMultiple
  <2>3. QED
    BY <1>1, <1>2, <2>1, <2>2
<1>6. fed # <<>>
  <2>1. Len(enc) \in Nat /\ Len(buff) # 0 /\ Len(buff) \in Nat
    BY <1>1, <1>3, CmacAssumption
  <2>2. Len(fed) # 0
    BY <1>2, <2>1
  <2>3. QED
    BY <2>2
<1>7. out' = CmacOf(key, fed)
  BY <1>1, <1>2, <1>5, <1>6 DEF FinalizeWith, CmacOf
<1>8. QED
  BY <1>1, <1>2, <1>4, <1>7 DEF MS!Finish, FinalizeWith

(* A partial or empty last block: padded, and masked with K2.              *)
LEMMA PaddedFinish ==
  ASSUME IInv, FinalizePadded
  PROVE  IInv' /\ MS!Finish
<1> DEFINE n == Len(buff)
           pad == Padding(Len(buff))
<1>1. ~finalized /\ key # NoKey /\ FinalizeWith(buff \o pad, "k2") /\ n # Block
  BY DEF FinalizePadded, FinalizeWith
<1>2. /\ enc \o buff = fed
      /\ key \in Keys
      /\ n \in 0 .. Block
      /\ Len(fed) = Len(enc) + n
      /\ Len(fed) % Block = n % Block
  BY <1>1, FinalizeFacts
<1>3. buff \in Seq(Byte) /\ enc \in Seq(Byte)
  BY DEF IInv, TypeOK
<1>4. Block \in Nat \ {0}
  BY CmacAssumption
<1>5. n \in 0 .. (Block - 1)
  BY <1>1, <1>2, <1>4
<1>6. pad \in Seq(Byte)
  BY <1>5, PaddingType
<1>7. n % Block = n
  <2> HIDE DEF n
  <2>1. (Block * 0 + n) % Block = n
    BY <1>4, <1>5, ModUnique
  <2>2. QED
    BY <1>4, <1>5, <2>1
<1> HIDE DEF pad
<1>8. buff \o pad \in Seq(Byte)
  BY <1>3, <1>6, ConcatProperties
<1>9. IInv'
  BY <1>1, <1>8, FinishedIInv
<1>10. enc \o (buff \o pad) = fed \o pad
  <2>1. (enc \o buff) \o pad = enc \o (buff \o pad)
    BY <1>3, <1>6, ConcatAssociative
  <2>2. QED
    BY <1>2, <2>1
<1>11. Len(fed) % Block = 0 => fed = <<>>
  <2>1. n = 0 => buff = <<>> /\ enc = <<>>
    BY <1>1, <1>3, EmptySeq DEF IInv, LastBlockHeldBack
  <2>2. Len(fed) % Block = 0 => n = 0
    BY <1>2, <1>7
  <2>3. buff = <<>> /\ enc = <<>> => fed = <<>>
    BY <1>2
  <2>4. QED
    BY <2>1, <2>2, <2>3
<1>12. out' = CmacOf(key, fed)
  BY <1>1, <1>2, <1>7, <1>10, <1>11 DEF FinalizeWith, CmacOf, pad
<1>13. QED
  BY <1>1, <1>2, <1>9, <1>12 DEF MS!Finish, FinalizeWith

-----------------------------------------------------------------------------
(* Refused and empty calls, and a key of a wrong size, change nothing.     *)
LEMMA InertStep ==
  ASSUME IInv, UNCHANGED <<key, enc, buff, finalized, fed, out>>, ret' \in Rets
  PROVE  IInv' /\ UNCHANGED MS!vars
<1>1. IInv'
  BY InertIInv
<1>2. QED
  BY <1>1 DEF MS!vars

(* Every step keeps the invariant, and is a step of MacSession or none.    *)
LEMMA StepIInv ==
  ASSUME IInv, [Next]_vars
  PROVE  IInv' /\ [MS!Next]_(MS!vars)
<1> DEFINE Goal == IInv' /\ [MS!Next]_(MS!vars)
<1>1. CASE Reset
  <2>1. key' \in Keys \cup {NoKey} /\ ret' \in Rets /\ Cleared
    BY <1>1 DEF IInv, TypeOK, Reset, Returned, Rets
  <2>2. IInv'
    BY <2>1, ClearedIInv
  <2>3. MS!Reset
    BY <1>1 DEF Reset, Cleared, MS!Reset, MS!Fresh
  <2>4. QED
    BY <2>2, <2>3 DEF MS!Next
<1>2. CASE \E k \in Keys : InitKey(k)
  <2>1. PICK k \in Keys : InitKey(k)
    BY <1>2
  <2>2. key' \in Keys \cup {NoKey} /\ ret' \in Rets /\ Cleared
    BY <2>1 DEF InitKey, Returned, Rets
  <2>3. IInv'
    BY <2>2, ClearedIInv
  <2>4. MS!SetKey(k)
    BY <2>1 DEF InitKey, Cleared, MS!SetKey, MS!Fresh
  <2>5. QED
    BY <2>3, <2>4 DEF MS!Next
<1>3. CASE \E k \in BadKeys : InitBadKey(k)
  <2>1. UNCHANGED <<key, enc, buff, finalized, fed, out>> /\ ret' \in Rets
    BY <1>3 DEF InitBadKey, Returned, Rets
  <2>2. QED
    BY <2>1, InertStep
<1>4. ASSUME NEW d \in Data, Update(d)
      PROVE  Goal
  <2>1. CASE UpdateRefused(d) \/ UpdateNothing(d)
    <3>1. UNCHANGED <<key, enc, buff, finalized, fed, out>> /\ ret' \in Rets
      BY <2>1 DEF UpdateRefused, UpdateNothing, Returned, Rets
    <3>2. QED
      BY <3>1, InertStep
  <2>2. CASE UpdateBuffered(d) \/ UpdateProcessed(d)
    <3>1. IInv'
      BY <2>2, BufferedIInv, ProcessedIInv
    <3>2. d \in Data \ {NoData} /\ key \in Keys
      BY <2>2 DEF IInv, TypeOK, UpdateBuffered, UpdateProcessed, Absorbing
    <3>3. MS!Absorb(d)
      BY <2>2, <3>2
         DEF UpdateBuffered, UpdateProcessed, Absorbing, MS!Absorb
    <3>4. QED
      BY <3>1, <3>2, <3>3 DEF MS!Next
  <2>3. QED
    BY <1>4, <2>1, <2>2 DEF Update
<1>5. CASE Finalize
  <2>1. CASE FinalizeRefused
    <3>1. UNCHANGED <<key, enc, buff, finalized, fed, out>> /\ ret' \in Rets
      BY <2>1 DEF FinalizeRefused, Returned, Rets
    <3>2. QED
      BY <3>1, InertStep
  <2>2. CASE FinalizeFull
    BY <2>2, FullFinish DEF MS!Next
  <2>3. CASE FinalizePadded
    BY <2>3, PaddedFinish DEF MS!Next
  <2>4. QED
    BY <1>5, <2>1, <2>2, <2>3 DEF Finalize
<1>6. CASE UNCHANGED vars
  <2>1. UNCHANGED <<key, enc, buff, finalized, fed, out>> /\ ret' \in Rets
    BY <1>6 DEF vars, IInv, TypeOK
  <2>2. QED
    BY <2>1, InertStep
<1>7. QED
  BY <1>1, <1>2, <1>3, <1>4, <1>5, <1>6 DEF Next

(* The invariant holds of every state of every session.                    *)
THEOREM InvariantHolds == Spec => []IInv
<1>1. Init => IInv
  BY InitIInv
<1>2. IInv /\ [Next]_vars => IInv'
  BY StepIInv
<1>3. QED
  BY <1>1, <1>2, PTL DEF Spec

(* Cmac's variables keep their types, whatever the caller does.            *)
THEOREM TypeCorrect == Spec => []TypeOK
<1>1. IInv => TypeOK
  BY DEF IInv
<1>2. QED
  BY <1>1, InvariantHolds, PTL

(* Cmac::update never encrypts a block that may be the last of its message *)
(* (cmac.cc:105-170), for any block size and any cut into calls.           *)
THEOREM LastBlockIsHeldBack == Spec => []LastBlockHeldBack
<1>1. IInv => LastBlockHeldBack
  BY DEF IInv
<1>2. QED
  BY <1>1, InvariantHolds, PTL

(* Cmac::update loses, repeats and reorders no byte of the message.        *)
THEOREM NoByteIsLost == Spec => []NoByteLost
<1>1. IInv => NoByteLost
  BY DEF IInv
<1>2. QED
  BY <1>1, InvariantHolds, PTL

(* A Cmac session implements MacSession: what alcp_mac_finalize delivers   *)
(* is AES-CMAC of the bytes since the last init or reset.                  *)
THEOREM CmacImplementsMacSession == Spec => ImplementsMacSession
<1>1. Init => MS!Init
  BY DEF Init, MS!Init
<1>2. IInv /\ [Next]_vars => [MS!Next]_(MS!vars)
  BY StepIInv
<1>3. QED
  BY <1>1, <1>2, InvariantHolds, PTL DEF Spec, ImplementsMacSession, MS!Spec

-----------------------------------------------------------------------------
(* Sequences of bytes, whatever a byte is: what is known of them place by  *)
(* place.                                                                  *)

\* A text: a sequence, over whatever set of bytes.
IsBytes(x) == Len(x) \in Nat /\ x = [i \in 1 .. Len(x) |-> x[i]]

\* The bytes of two texts.
BytesOf(x, y) == {x[i] : i \in 1 .. Len(x)} \cup {y[i] : i \in 1 .. Len(y)}

(* Two texts are sequences over the bytes that occur in either.            *)
LEMMA TwoTexts ==
  ASSUME NEW x, IsBytes(x), NEW y, IsBytes(y)
  PROVE  x \in Seq(BytesOf(x, y)) /\ y \in Seq(BytesOf(x, y))
<1> DEFINE S == BytesOf(x, y)
           m == Len(x)
           n == Len(y)
<1>1. m \in Nat /\ n \in Nat /\ x = [i \in 1 .. m |-> x[i]] /\ y = [i \in 1 .. n |-> y[i]]
  BY DEF IsBytes
<1>2. (\A i \in 1 .. m : x[i] \in S) /\ (\A i \in 1 .. n : y[i] \in S)
  BY DEF BytesOf
<1> HIDE DEF S, m, n
<1>3. x \in [1 .. m -> S] /\ y \in [1 .. n -> S]
  BY <1>1, <1>2
<1>4. x \in Seq(S) /\ y \in Seq(S)
  BY <1>1, <1>3
<1> QED
  BY <1>4 DEF S

(* A sequence over any set is a text.                                      *)
LEMMA SeqIsText ==
  ASSUME NEW S, NEW x \in Seq(S)
  PROVE  IsBytes(x)
<1>1. Len(x) \in Nat /\ x \in [1 .. Len(x) -> S]
  BY LenProperties
<1> DEFINE m == Len(x)
<1> HIDE DEF m
<1>2. x \in [1 .. m -> S] => x = [i \in 1 .. m |-> x[i]]
  OBVIOUS
<1> QED
  BY <1>1, <1>2 DEF IsBytes, m

\* n bytes.
Long(x, n) == n \in Nat /\ x = [i \in 1 .. n |-> x[i]]

(* A function on 1 .. n is a text of length n.                             *)
LEMMA LongIsText ==
  ASSUME NEW x, NEW n, Long(x, n)
  PROVE  IsBytes(x) /\ Len(x) = n
<1>1. n \in Nat /\ x = [i \in 1 .. n |-> x[i]]
  BY DEF Long
<1> DEFINE S == {x[i] : i \in 1 .. n}
<1>2. \A i \in 1 .. n : x[i] \in S
  OBVIOUS
<1> HIDE DEF S
<1>3. x \in [1 .. n -> S]
  BY <1>1, <1>2
<1>4. x \in Seq(S) /\ Len(x) = n
  BY <1>1, <1>3
<1> QED
  BY <1>4, SeqIsText

(* A text is a function on 1 .. its length.                                *)
LEMMA TextIsLong ==
  ASSUME NEW x, IsBytes(x)
  PROVE  Len(x) \in Nat /\ Long(x, Len(x))
BY DEF IsBytes, Long

(* Texts of one length with the same bytes are the same.                   *)
LEMMA TextEqual ==
  ASSUME NEW x, NEW y, NEW n, Long(x, n), Long(y, n), \A i \in 1 .. n : x[i] = y[i]
  PROVE  x = y
BY DEF Long

\* z is x and, behind it, y.
Joins(z, x, m, y, n) ==
  /\ Long(z, m + n) /\ Len(z) = m + n
  /\ \A i \in 1 .. m : z[i] = x[i]
  /\ \A i \in 1 .. n : z[m + i] = y[i]

(* The bytes of a concatenation are those of its parts, in their places.   *)
LEMMA TextJoin ==
  ASSUME NEW x, NEW m, Long(x, m), NEW y, NEW n, Long(y, n)
  PROVE  Joins(x \o y, x, m, y, n)
<1> DEFINE z == x \o y
<1> DEFINE S == BytesOf(x, y)
<1>1. IsBytes(x) /\ IsBytes(y) /\ Len(x) = m /\ Len(y) = n /\ m \in Nat /\ n \in Nat
  BY LongIsText DEF Long
<1>2. x \in Seq(S) /\ y \in Seq(S)
  BY <1>1, TwoTexts
<1> HIDE DEF S
<1>3. /\ x \o y \in Seq(S) /\ Len(x \o y) = m + n
      /\ \A i \in 1 .. m + n : (x \o y)[i] = IF i <= m THEN x[i] ELSE y[i - m]
  BY <1>1, <1>2, ConcatProperties
<1> HIDE DEF z
<1>4. z \in Seq(S) /\ Len(z) = m + n
  BY <1>3 DEF z
<1>5. IsBytes(z)
  BY <1>4, SeqIsText
<1>6. Long(z, m + n)
  BY <1>1, <1>4, <1>5, TextIsLong
<1>7. \A i \in 1 .. m + n : z[i] = IF i <= m THEN x[i] ELSE y[i - m]
  BY <1>3 DEF z
<1>8. \A i \in 1 .. m : z[i] = x[i]
  BY <1>1, <1>7
<1>9. \A i \in 1 .. n : z[m + i] = y[i]
  BY <1>1, <1>7
<1> QED
  BY <1>4, <1>6, <1>8, <1>9 DEF Joins, z

\* Bytes a + 1 to a + n of x.
Cut(x, a, n) == SubSeq(x, a + 1, a + n)

(* The bytes of a cut are those of the text from its place on.             *)
LEMMA CutIs ==
  ASSUME NEW x, NEW m, Long(x, m), NEW a \in Nat, NEW n \in Nat, a + n <= m
  PROVE  /\ Long(Cut(x, a, n), n) /\ Len(Cut(x, a, n)) = n
         /\ \A i \in 1 .. n : Cut(x, a, n)[i] = x[a + i]
<1> DEFINE S == BytesOf(x, x)
           c == Cut(x, a, n)
<1>0. c = SubSeq(x, a + 1, a + n)
  BY DEF Cut
<1>1. IsBytes(x) /\ Len(x) = m /\ m \in Nat
  BY LongIsText DEF Long
<1>2. x \in Seq(S)
  BY <1>1, TwoTexts
<1> HIDE DEF S, c
<1>3. \A i \in 1 .. m : x[i] \in S
  BY <1>1, <1>2, ElementOfSeq
<1>4. \A i \in (a + 1) .. (a + n) : x[i] \in S
  BY <1>1, <1>3
<1> DEFINE p == a + 1
           q == a + n
<1>5. p \in Int /\ q \in Int
  OBVIOUS
<1>5a. \A i \in p .. q : x[i] \in S
  BY <1>4
<1> HIDE DEF p, q
<1>6. /\ SubSeq(x, p, q) \in Seq(S)
      /\ Len(SubSeq(x, p, q)) = IF p <= q THEN q - p + 1 ELSE 0
      /\ \A i \in 1 .. q - p + 1 : SubSeq(x, p, q)[i] = x[p + i - 1]
  BY <1>5, <1>5a, SubSeqProperties
<1>7. c \in Seq(S) /\ Len(c) = (IF p <= q THEN q - p + 1 ELSE 0)
      /\ \A i \in 1 .. q - p + 1 : c[i] = x[p + i - 1]
  BY <1>0, <1>6 DEF p, q
<1>8. (IF p <= q THEN q - p + 1 ELSE 0) = n /\ q - p + 1 = n
  BY DEF p, q
<1>9. \A i \in 1 .. n : c[i] = x[a + i]
  <2>1. \A i \in 1 .. n : p + i - 1 = a + i
    BY DEF p
  <2> QED BY <1>7, <1>8, <2>1
<1>10. Len(c) = n
  BY <1>7, <1>8
<1>11. Long(c, n)
  BY <1>7, <1>10, SeqIsText, TextIsLong
<1> QED
  BY <1>9, <1>10, <1>11 DEF c

(* A cut that ends in the first of two texts is a cut of it.               *)
LEMMA CutOfFront ==
  ASSUME NEW x, NEW m, Long(x, m), NEW y, NEW n, Long(y, n),
         NEW a \in Nat, NEW k \in Nat, a + k <= m
  PROVE  Cut(x \o y, a, k) = Cut(x, a, k)
<1> DEFINE z == x \o y
           d == Cut(z, a, k)
           e == Cut(x, a, k)
<1>0. m \in Nat /\ n \in Nat
  BY DEF Long
<1>z. Joins(z, x, m, y, n)
  BY TextJoin
<1> HIDE DEF z
<1>1. Long(z, m + n) /\ \A i \in 1 .. m : z[i] = x[i]
  BY <1>z DEF Joins
<1>2. Long(d, k) /\ \A i \in 1 .. k : d[i] = z[a + i]
  BY <1>0, <1>1, CutIs
<1>3. Long(e, k) /\ \A i \in 1 .. k : e[i] = x[a + i]
  BY <1>0, CutIs
<1> HIDE DEF d, e
<1>4. \A i \in 1 .. k : a + i \in 1 .. m
  BY <1>0
<1>5. \A i \in 1 .. k : d[i] = e[i]
  BY <1>1, <1>2, <1>3, <1>4
<1>6. d = e
  BY <1>2, <1>3, <1>5, TextEqual
<1> QED
  BY <1>6 DEF d, e, z

(* A cut that begins in the second of two texts is a cut of it.            *)
LEMMA CutOfBehind ==
  ASSUME NEW x, NEW m, Long(x, m), NEW y, NEW n, Long(y, n),
         NEW a \in Nat, NEW k \in Nat, a + k <= n
  PROVE  Cut(x \o y, m + a, k) = Cut(y, a, k)
<1> DEFINE z == x \o y
           d == Cut(z, m + a, k)
           e == Cut(y, a, k)
<1>0. m \in Nat /\ n \in Nat
  BY DEF Long
<1>z. Joins(z, x, m, y, n)
  BY TextJoin
<1> HIDE DEF z
<1>1. Long(z, m + n) /\ \A i \in 1 .. n : z[m + i] = y[i]
  BY <1>z DEF Joins
<1>1a. m + a \in Nat /\ (m + a) + k <= m + n
  BY <1>0
<1>2. Long(d, k) /\ \A i \in 1 .. k : d[i] = z[(m + a) + i]
  BY <1>1, <1>1a, CutIs
<1>3. Long(e, k) /\ \A i \in 1 .. k : e[i] = y[a + i]
  BY <1>0, CutIs
<1> HIDE DEF d, e
<1>4. \A i \in 1 .. k : a + i \in 1 .. n /\ (m + a) + i = m + (a + i)
  BY <1>0
<1>5. \A i \in 1 .. k : d[i] = e[i]
  BY <1>1, <1>2, <1>3, <1>4
<1>6. d = e
  BY <1>2, <1>3, <1>5, TextEqual
<1> QED
  BY <1>6 DEF d, e, z

(* The cut of the whole text is the text.                                  *)
LEMMA CutAll ==
  ASSUME NEW x, NEW m, Long(x, m)
  PROVE  Cut(x, 0, m) = x
<1> DEFINE d == Cut(x, 0, m)
<1>0. m \in Nat
  BY DEF Long
<1>1. Long(d, m) /\ \A i \in 1 .. m : d[i] = x[0 + i]
  BY <1>0, CutIs
<1> HIDE DEF d
<1>2. \A i \in 1 .. m : d[i] = x[i]
  BY <1>1
<1> QED
  BY <1>1, <1>2, TextEqual DEF d

(* Two neighbouring cuts make one.                                         *)
LEMMA CutsJoin ==
  ASSUME NEW x, NEW m, Long(x, m), NEW a \in Nat, NEW n \in Nat, NEW k \in Nat, a + n + k <= m
  PROVE  Cut(x, a, n) \o Cut(x, a + n, k) = Cut(x, a, n + k)
<1> DEFINE c == Cut(x, a, n)
           d == Cut(x, a + n, k)
           e == Cut(x, a, n + k)
           z == c \o d
<1>0. m \in Nat /\ a + n <= m /\ a + n \in Nat /\ (a + n) + k <= m /\ n + k \in Nat
      /\ a + (n + k) <= m
  BY DEF Long
<1>1. Long(c, n) /\ \A i \in 1 .. n : c[i] = x[a + i]
  BY <1>0, CutIs
<1>2. Long(d, k) /\ \A i \in 1 .. k : d[i] = x[(a + n) + i]
  BY <1>0, CutIs
<1>3. Long(e, n + k) /\ \A i \in 1 .. n + k : e[i] = x[a + i]
  BY <1>0, CutIs
<1> HIDE DEF c, d, e
<1>z. Joins(z, c, n, d, k)
  BY <1>1, <1>2, TextJoin
<1> HIDE DEF z
<1>4. /\ Long(z, n + k) /\ \A i \in 1 .. n : z[i] = c[i]
      /\ \A i \in 1 .. k : z[n + i] = d[i]
  BY <1>z DEF Joins
<1>5. \A i \in 1 .. n + k : z[i] = e[i]
  <2> TAKE i \in 1 .. n + k
  <2>1. CASE i <= n
    BY <1>1, <1>3, <1>4, <2>1
  <2>2. CASE i > n
    <3>1. i - n \in 1 .. k /\ n + (i - n) = i /\ (a + n) + (i - n) = a + i
      BY <2>2
    <3> QED BY <1>2, <1>3, <1>4, <3>1
  <2> QED BY <2>1, <2>2
<1>6. z = e
  BY <1>3, <1>4, <1>5, TextEqual
<1> QED
  BY <1>6 DEF z, c, d, e

(* The front of a text and the cut after it make a longer front.           *)
LEMMA CutsJoinFront ==
  ASSUME NEW x, NEW m, Long(x, m), NEW n \in Nat, NEW k \in Nat, n + k <= m
  PROVE  Cut(x, 0, n) \o Cut(x, n, k) = Cut(x, 0, n + k)
<1> DEFINE o == 0
<1>1. o \in Nat /\ o + n = n /\ o + n + k <= m
  OBVIOUS
<1> HIDE DEF o
<1>2. Cut(x, o, n) \o Cut(x, o + n, k) = Cut(x, o, n + k)
  BY <1>1, CutsJoin
<1> QED BY <1>1, <1>2 DEF o

(* Concatenation is associative.                                           *)
LEMMA JoinInThree ==
  ASSUME NEW x, NEW m, Long(x, m), NEW y, NEW n, Long(y, n), NEW z, NEW k, Long(z, k)
  PROVE  (x \o y) \o z = x \o (y \o z)
<1> DEFINE S == BytesOf(x, y) \cup BytesOf(z, z)
<1>1. IsBytes(x) /\ IsBytes(y) /\ IsBytes(z)
  BY LongIsText
<1>2. x \in Seq(BytesOf(x, y)) /\ y \in Seq(BytesOf(x, y)) /\ z \in Seq(BytesOf(z, z))
  BY <1>1, TwoTexts
<1>3. BytesOf(x, y) \subseteq S /\ BytesOf(z, z) \subseteq S
  OBVIOUS
<1> HIDE DEF S
<1>4. x \in Seq(S) /\ y \in Seq(S) /\ z \in Seq(S)
  BY <1>2, <1>3, SeqMonotonic
<1> QED
  BY <1>4, ConcatAssociative

(* The one text of no bytes is the empty one.                              *)
LEMMA EmptyText ==
  /\ Long(<<>>, 0)
  /\ \A x : Long(x, 0) => x = <<>>
<1>1. <<>> = [i \in 1 .. 0 |-> <<>>[i]]
  OBVIOUS
<1>2. ASSUME NEW x, Long(x, 0) PROVE x = <<>>
  BY <1>2 DEF Long
<1> QED BY <1>1, <1>2 DEF Long

(* The empty text changes nothing.                                         *)
LEMMA JoinEmpty ==
  ASSUME NEW x, NEW m, Long(x, m)
  PROVE  x \o <<>> = x /\ <<>> \o x = x
<1>1. IsBytes(x)
  BY LongIsText
<1>2. x \in Seq(BytesOf(x, x))
  BY <1>1, TwoTexts
<1> QED BY <1>2, ConcatEmptySeq

-----------------------------------------------------------------------------
(* Whole blocks.                                                           *)

(* A block has more than one byte.                                         *)
LEMMA BlockIs == Block \in Nat /\ Block > 1 /\ Block \in Nat \ {0}
BY BlockCipherAssumption

(* Counting in blocks adds, and keeps the order.                           *)
LEMMA BlockMultiple ==
  /\ \A q \in Nat : Block * q \in Nat
  /\ \A p, q \in Nat : Block * (p + q) = Block * p + Block * q
  /\ \A p, q \in Nat : p <= q => Block * p <= Block * q
  /\ \A p, q \in Nat : Block * p <= Block * q => p <= q
  /\ Block * 0 = 0
<1>0. Block \in Nat /\ Block > 1
  BY BlockIs
<1>1. \A q \in Nat : Block * q \in Nat
  BY <1>0
<1>2. \A p, q \in Nat : Block * (p + q) = Block * p + Block * q
  BY <1>0
<1>3. \A p, q \in Nat : p <= q => Block * p <= Block * q
  <2> SUFFICES ASSUME NEW p \in Nat, NEW q \in Nat, p <= q PROVE Block * p <= Block * q
    OBVIOUS
  <2>1. q - p \in Nat /\ p + (q - p) = q
    OBVIOUS
  <2>2. Block * q = Block * p + Block * (q - p)
    BY <1>2, <2>1
  <2>3. Block * (q - p) \in Nat /\ Block * p \in Nat
    BY <1>1, <2>1
  <2> QED BY <2>2, <2>3
<1>4. \A p, q \in Nat : Block * p <= Block * q => p <= q
  <2> SUFFICES ASSUME NEW p \in Nat, NEW q \in Nat, q < p PROVE Block * q < Block * p
    BY <1>1
  <2>1. p - q - 1 \in Nat /\ q + ((p - q - 1) + 1) = p
    OBVIOUS
  <2>2. Block * p = Block * q + (Block * (p - q - 1) + Block * 1)
    BY <1>2, <2>1
  <2>3. Block * (p - q - 1) \in Nat /\ Block * q \in Nat /\ Block * 1 = Block
    BY <1>0, <1>1, <2>1
  <2> QED BY <1>0, <2>2, <2>3
<1>5. Block * 0 = 0
  BY <1>0
<1> QED BY <1>1, <1>2, <1>3, <1>4, <1>5

\* A number of bytes is whole blocks and less than one more.
LEMMA InBlocks ==
  ASSUME NEW n \in Nat
  PROVE  /\ n \div Block \in Nat /\ Block * (n \div Block) \in Nat
         /\ Block * (n \div Block) <= n /\ n < Block * (n \div Block) + Block
<1>1. n \div Block \in Nat /\ n % Block \in 0 .. (Block - 1)
      /\ n = Block * (n \div Block) + (n % Block)
  BY BlockIs, DivMod
<1>2. Block * (n \div Block) \in Nat
  BY <1>1, BlockMultiple
<1> DEFINE q == Block * (n \div Block)
           r == n % Block
<1> HIDE DEF q, r
<1>3. q \in Nat /\ r \in 0 .. (Block - 1) /\ n = q + r
  BY <1>1, <1>2 DEF q, r
<1>4. q <= n /\ n < q + Block
  BY <1>3, BlockIs
<1> QED
  BY <1>1, <1>2, <1>4 DEF q

\* And in one way only.
LEMMA BlocksUnique ==
  ASSUME NEW q \in Nat, NEW n \in Nat, Block * q <= n, n < Block * q + Block
  PROVE  n \div Block = q
<1> DEFINE p == n \div Block
<1>1. p \in Nat /\ Block * p \in Nat /\ Block * p <= n /\ n < Block * p + Block
  BY InBlocks
<1> HIDE DEF p
<1>2. Block * q \in Nat /\ Block * (p + 1) = Block * p + Block /\ Block * (q + 1) = Block * q + Block
  <2>1. Block * 1 = Block
    BY BlockIs
  <2> QED BY <1>1, <2>1, BlockMultiple
<1>3. ~(p + 1 <= q)
  <2> SUFFICES ASSUME p + 1 <= q PROVE FALSE
    OBVIOUS
  <2>1. Block * (p + 1) <= Block * q
    BY <1>1, BlockMultiple
  <2> QED BY <1>1, <1>2, <2>1, BlockIs
<1>4. ~(q + 1 <= p)
  <2> SUFFICES ASSUME q + 1 <= p PROVE FALSE
    OBVIOUS
  <2>1. Block * (q + 1) <= Block * p
    BY <1>1, BlockMultiple
  <2> QED BY <1>1, <1>2, <2>1, BlockIs
<1>5. p = q
  BY <1>1, <1>3, <1>4
<1> QED BY <1>5 DEF p

\* How many pieces n bytes are cut into, and how long piece j is.
PieceCount(n) == (n + Block - 1) \div Block

\* The bytes of piece j of n bytes.
PieceLen(n, j) == IF Block * j < n THEN Block ELSE n - Block * (j - 1)

(* Block j begins a block after block j - 1.                               *)
LEMMA BlockStep ==
  \A j \in Nat \ {0} :
    /\ j - 1 \in Nat /\ Block * (j - 1) \in Nat /\ Block * j \in Nat
    /\ Block * j = Block * (j - 1) + Block
<1> TAKE j \in Nat \ {0}
<1>1. j - 1 \in Nat /\ (j - 1) + 1 = j
  OBVIOUS
<1>2. Block * ((j - 1) + 1) = Block * (j - 1) + Block * 1 /\ Block * 1 = Block
  BY <1>1, BlockMultiple, BlockIs
<1> QED BY <1>1, <1>2, BlockMultiple

(* A block is a cut of the text.                                           *)
LEMMA BlockIsCut ==
  ASSUME NEW x, NEW j \in Nat \ {0}
  PROVE  BlockAt(x, j) = Cut(x, Block * (j - 1), Block)
BY BlockStep DEF BlockAt, Cut

(* The front of a text is a cut of it.                                     *)
LEMMA FirstIsCut ==
  ASSUME NEW x, NEW n \in Nat
  PROVE  First(x, n) = Cut(x, 0, n)
BY DEF First, Cut

(* So is what is behind it.                                                *)
LEMMA RestIsCut ==
  ASSUME NEW x, NEW m, Long(x, m), NEW n \in Nat, n <= m
  PROVE  Rest(x, n) = Cut(x, n, m - n)
<1>1. Len(x) = m /\ m \in Nat
  BY LongIsText DEF Long
<1>2. n + (m - n) = m
  BY <1>1
<1> QED BY <1>1, <1>2 DEF Rest, Cut

(* A text is its whole blocks and a remainder shorter than one.            *)
LEMMA WholeAndRest ==
  ASSUME NEW x, NEW m, Long(x, m)
  PROVE  /\ m \in Nat /\ Len(x) = m /\ Blocks(x) = m \div Block
         /\ Blocks(x) \in Nat /\ Block * Blocks(x) \in Nat
         /\ Block * Blocks(x) <= m /\ m < Block * Blocks(x) + Block
         /\ Remainder(x) = Cut(x, Block * Blocks(x), m - Block * Blocks(x))
         /\ Long(Remainder(x), m - Block * Blocks(x))
         /\ Remainder(x) = <<>> <=> m = Block * Blocks(x)
<1> DEFINE q == Blocks(x)
           w == Block * q
<1>1. m \in Nat /\ Len(x) = m
  BY LongIsText DEF Long
<1>2. q = m \div Block
  BY <1>1 DEF Blocks
<1>3. q \in Nat /\ w \in Nat /\ w <= m /\ m < w + Block
  BY <1>1, <1>2, InBlocks
<1>4. Remainder(x) = Rest(x, w)
  BY DEF Remainder
<1> HIDE DEF q, w
<1>5. Remainder(x) = Cut(x, w, m - w)
  BY <1>3, <1>4, RestIsCut
<1>6. m - w \in Nat /\ w + (m - w) <= m
  BY <1>1, <1>3
<1>7. Long(Remainder(x), m - w) /\ Len(Remainder(x)) = m - w
  BY <1>3, <1>5, <1>6, CutIs
<1>8. Remainder(x) = <<>> <=> m = w
  <2>1. m = w => Remainder(x) = <<>>
    <3>1. m = w => m - w = 0
      BY <1>1
    <3> QED BY <1>7, <3>1, EmptyText
  <2>2. Remainder(x) = <<>> => m - w = 0
    <3>1. Long(<<>>, 0)
      BY EmptyText
    <3>2. Len(<<>>) = 0
      BY <3>1, LongIsText
    <3> QED BY <1>7, <3>2
  <2>3. m - w = 0 => m = w
    BY <1>1, <1>3
  <2> QED BY <2>1, <2>2, <2>3
<1> QED BY <1>1, <1>2, <1>3, <1>5, <1>7, <1>8 DEF q, w

(* There are as many pieces as whole blocks, and one if bytes are left.    *)
LEMMA PiecesCounted ==
  ASSUME NEW n \in Nat
  PROVE  /\ PieceCount(n) \in Nat
         /\ PieceCount(n) = IF n = Block * (n \div Block) THEN n \div Block ELSE n \div Block + 1
<1> DEFINE q == n \div Block
           w == Block * q
<1>1. q \in Nat /\ w \in Nat /\ w <= n /\ n < w + Block
  BY InBlocks
<1>2. Block * (q + 1) = w + Block
  <2>1. Block * 1 = Block
    BY BlockIs
  <2> QED BY <1>1, <2>1, BlockMultiple
<1>3. n + Block - 1 \in Nat
  BY BlockIs
<1> HIDE DEF q, w
<1>4. CASE n = w
  <2>1. w <= n + Block - 1 /\ n + Block - 1 < w + Block
    BY <1>1, <1>4, BlockIs
  <2>2. Block * q <= n + Block - 1 /\ n + Block - 1 < Block * q + Block
    BY <2>1 DEF w
  <2>3. (n + Block - 1) \div Block = q
    BY ONLY <1>1, <1>3, <2>2, BlocksUnique
  <2> QED BY <1>1, <1>4, <2>3 DEF PieceCount, q, w
<1>5. CASE n # w
  <2>1. w + Block <= n + Block - 1 /\ n + Block - 1 < (w + Block) + Block
    BY <1>1, <1>5, BlockIs
  <2>2. Block * (q + 1) <= n + Block - 1 /\ n + Block - 1 < Block * (q + 1) + Block
    BY <1>2, <2>1
  <2>3. q + 1 \in Nat
    BY <1>1
  <2> DEFINE p == q + 1
             k == n + Block - 1
  <2>4. p \in Nat /\ k \in Nat /\ Block * p <= k /\ k < Block * p + Block
    BY <1>3, <2>2, <2>3
  <2> HIDE DEF p, k
  <2>5. k \div Block = p
    BY ONLY <2>4, BlocksUnique
  <2> QED BY <1>1, <1>5, <2>3, <2>5 DEF PieceCount, q, w, p, k
<1> QED BY <1>4, <1>5

(* Every piece lies in the text, and all but the last are blocks.          *)
LEMMA PieceWithin ==
  ASSUME NEW n \in Nat, NEW j \in 1 .. PieceCount(n)
  PROVE  /\ j \in Nat \ {0} /\ j - 1 \in Nat /\ j - 1 <= n \div Block
         /\ Block * (j - 1) \in Nat /\ PieceLen(n, j) \in 1 .. Block
         /\ Block * (j - 1) + PieceLen(n, j) <= n
         /\ j <= n \div Block => PieceLen(n, j) = Block
         /\ j > n \div Block => j = n \div Block + 1 /\ PieceLen(n, j) = n - Block * (n \div Block)
<1> DEFINE q == n \div Block
           w == Block * q
           a == Block * (j - 1)
           b == Block * j
<1>1. q \in Nat /\ w \in Nat /\ w <= n /\ n < w + Block
  BY InBlocks
<1>2. PieceCount(n) \in Nat /\ PieceCount(n) = IF n = w THEN q ELSE q + 1
  BY PiecesCounted
<1>3. j \in Nat \ {0} /\ j - 1 \in Nat
  BY <1>2
<1>4. a \in Nat /\ b \in Nat /\ b = a + Block
  BY <1>3, BlockStep
<1>5. PieceLen(n, j) = IF b < n THEN Block ELSE n - a
  BY DEF PieceLen
<1>6. j <= q => b <= w
  BY <1>1, <1>3, BlockMultiple
<1>7. j > q => j = q + 1 /\ n # w
  BY <1>1, <1>2, <1>3
<1>8. j = q + 1 => a = w
  <2>1. j = q + 1 => j - 1 = q
    BY <1>1, <1>3
  <2> QED BY <2>1
<1> HIDE DEF a, b, q, w
<1>9. CASE j <= q
  <2>1. b <= n
    BY <1>1, <1>4, <1>6, <1>9
  <2>2. PieceLen(n, j) = Block /\ a + Block <= n
    BY <1>4, <1>5, <2>1, BlockIs
  <2>3. ~(j > q) /\ j - 1 <= q
    BY <1>1, <1>3, <1>9
  <2> QED BY <1>3, <1>4, <1>9, <2>2, <2>3, BlockIs DEF a, q, w
<1>10. CASE ~(j <= q)
  <2>1. j = q + 1 /\ n # w /\ a = w /\ j - 1 <= q
    BY <1>1, <1>3, <1>7, <1>8, <1>10
  <2>2. PieceLen(n, j) = n - w /\ n - w \in 1 .. Block
    BY <1>1, <1>4, <1>5, <2>1, BlockIs
  <2>3. a + PieceLen(n, j) <= n
    BY <1>1, <2>1, <2>2
  <2> QED BY <1>3, <1>4, <1>10, <2>1, <2>2, <2>3 DEF a, q, w
<1> QED BY <1>9, <1>10

(* The pieces of a text: its blocks, and the remainder if there is one.    *)
LEMMA PieceIs ==
  ASSUME NEW x, NEW m, Long(x, m)
  PROVE  /\ Pieces(x) = 1 .. PieceCount(m)
         /\ \A j \in 1 .. PieceCount(m) :
              /\ Piece(x, j) = Cut(x, Block * (j - 1), PieceLen(m, j))
              /\ Long(Piece(x, j), PieceLen(m, j)) /\ Len(Piece(x, j)) = PieceLen(m, j)
              /\ \A i \in 1 .. PieceLen(m, j) : Piece(x, j)[i] = x[Block * (j - 1) + i]
<1>1. Len(x) = m /\ m \in Nat
  BY LongIsText DEF Long
<1>2. Pieces(x) = 1 .. PieceCount(m)
  BY <1>1 DEF Pieces, PieceCount
<1>3. ASSUME NEW j \in 1 .. PieceCount(m)
      PROVE  Piece(x, j) = Cut(x, Block * (j - 1), PieceLen(m, j))
  <2>1. j \in Nat \ {0} /\ Block * (j - 1) \in Nat
    BY <1>1, PieceWithin
  <2>2. Block * j \in Nat /\ Block * j = Block * (j - 1) + Block
    BY <2>1, BlockStep
  <2> DEFINE a == Block * (j - 1)
             b == Block * j
             e == IF b < m THEN b ELSE m
  <2>3. Piece(x, j) = SubSeq(x, a + 1, e)
    BY <1>1 DEF Piece
  <2>4. PieceLen(m, j) = IF b < m THEN Block ELSE m - a
    BY DEF PieceLen
  <2>5. a \in Nat /\ b \in Nat /\ b = a + Block
    BY <2>1, <2>2
  <2> HIDE DEF a, b
  <2>6. e = a + PieceLen(m, j)
    BY <1>1, <2>4, <2>5, BlockIs
  <2> QED BY <2>3, <2>6 DEF Cut, a
<1>4. ASSUME NEW j \in 1 .. PieceCount(m)
      PROVE  /\ Long(Piece(x, j), PieceLen(m, j)) /\ Len(Piece(x, j)) = PieceLen(m, j)
             /\ \A i \in 1 .. PieceLen(m, j) : Piece(x, j)[i] = x[Block * (j - 1) + i]
  <2> DEFINE a == Block * (j - 1)
             k == PieceLen(m, j)
  <2>1. a \in Nat /\ k \in Nat /\ a + k <= m
    BY <1>1, PieceWithin
  <2>2. Piece(x, j) = Cut(x, a, k)
    BY <1>3
  <2> HIDE DEF a, k
  <2>3. Long(Cut(x, a, k), k) /\ Len(Cut(x, a, k)) = k
        /\ \A i \in 1 .. k : Cut(x, a, k)[i] = x[a + i]
    BY <2>1, CutIs
  <2> QED BY <2>2, <2>3 DEF a, k
<1> QED BY <1>2, <1>3, <1>4

(* A whole block is a piece.                                               *)
LEMMA BlockOfText ==
  ASSUME NEW x, NEW m, Long(x, m), NEW j \in 1 .. (m \div Block)
  PROVE  /\ j \in 1 .. PieceCount(m)
         /\ BlockAt(x, j) = Piece(x, j) /\ PieceLen(m, j) = Block
         /\ Long(BlockAt(x, j), Block) /\ Len(BlockAt(x, j)) = Block
         /\ \A i \in 1 .. Block : BlockAt(x, j)[i] = x[Block * (j - 1) + i]
<1>1. m \in Nat
  BY DEF Long
<1>2. m \div Block \in Nat /\ PieceCount(m) \in Nat /\ m \div Block <= PieceCount(m)
  <2>1. m \div Block \in Nat
    BY <1>1, InBlocks
  <2>2. PieceCount(m) = m \div Block \/ PieceCount(m) = m \div Block + 1
    BY <1>1, PiecesCounted
  <2> QED BY <2>1, <2>2
<1>3. j \in 1 .. PieceCount(m)
  BY <1>2
<1>4. j \in Nat \ {0} /\ PieceLen(m, j) = Block
  BY <1>1, <1>2, <1>3, PieceWithin
<1>5. /\ Piece(x, j) = Cut(x, Block * (j - 1), PieceLen(m, j))
      /\ Long(Piece(x, j), PieceLen(m, j)) /\ Len(Piece(x, j)) = PieceLen(m, j)
      /\ \A i \in 1 .. PieceLen(m, j) : Piece(x, j)[i] = x[Block * (j - 1) + i]
  BY <1>3, PieceIs
<1>6. BlockAt(x, j) = Piece(x, j)
  BY <1>4, <1>5, BlockIsCut
<1> QED BY <1>3, <1>4, <1>5, <1>6

(* The bytes after the whole blocks are the last piece.                    *)
LEMMA LastPiece ==
  ASSUME NEW x, NEW m, Long(x, m), m # Block * (m \div Block)
  PROVE  /\ m \div Block + 1 \in 1 .. PieceCount(m)
         /\ PieceCount(m) = m \div Block + 1
         /\ Piece(x, m \div Block + 1) = Remainder(x)
         /\ PieceLen(m, m \div Block + 1) = m - Block * (m \div Block)
<1> DEFINE q == m \div Block
<1>1. m \in Nat
  BY DEF Long
<1>2. q \in Nat /\ PieceCount(m) = q + 1
  BY <1>1, InBlocks, PiecesCounted
<1>3. Remainder(x) = Cut(x, Block * q, m - Block * q)
  BY WholeAndRest
<1>4. q + 1 \in 1 .. PieceCount(m) /\ q + 1 > q /\ (q + 1) - 1 = q
  BY <1>2
<1>5. PieceLen(m, q + 1) = m - Block * q
  BY <1>1, <1>4, PieceWithin
<1>6. Piece(x, q + 1) = Cut(x, Block * ((q + 1) - 1), PieceLen(m, q + 1))
  BY <1>4, PieceIs
<1> QED BY <1>2, <1>3, <1>4, <1>5, <1>6

(* Whole blocks in front add to the blocks and the pieces.                 *)
LEMMA CountOfJoin ==
  ASSUME NEW p \in Nat, NEW n \in Nat
  PROVE  /\ Block * p \in Nat /\ Block * p + n \in Nat
         /\ (Block * p + n) \div Block = p + n \div Block
         /\ PieceCount(Block * p + n) = p + PieceCount(n)
         /\ (Block * p) \div Block = p /\ PieceCount(Block * p) = p
<1> DEFINE w == Block * p
           r == n \div Block
           v == Block * r
<1>1. r \in Nat /\ v \in Nat /\ v <= n /\ n < v + Block /\ w \in Nat /\ p + r \in Nat
  <2>1. r \in Nat /\ v \in Nat /\ v <= n /\ n < v + Block
    BY InBlocks
  <2>2. w \in Nat
    BY BlockMultiple
  <2> QED BY <2>1, <2>2
<1>2. Block * (p + r) = w + v
  BY <1>1, BlockMultiple
<1>3. w + n \in Nat /\ w + v <= w + n /\ w + n < (w + v) + Block
  <2> HIDE DEF w, v, r
  <2> QED BY <1>1, BlockIs
<1> DEFINE k == w + n
           u == p + r
<1>4. u \in Nat /\ k \in Nat /\ Block * u <= k /\ k < Block * u + Block
  BY <1>1, <1>2, <1>3
<1> HIDE DEF k, u
<1>5. k \div Block = u
  BY ONLY <1>4, BlocksUnique
<1>6. PieceCount(k) = IF k = Block * u THEN u ELSE u + 1
  BY <1>4, <1>5, PiecesCounted
<1>7. PieceCount(n) = IF n = v THEN r ELSE r + 1
  BY PiecesCounted
<1>8. k = Block * u <=> n = v
  <2>1. k = w + n /\ Block * u = w + v
    BY <1>2 DEF k, u
  <2> HIDE DEF w, v
  <2> QED BY <1>1, <2>1
<1>9. PieceCount(k) = p + PieceCount(n)
  <2> HIDE DEF r, v
  <2> QED BY <1>1, <1>6, <1>7, <1>8 DEF u
<1>10. w \div Block = p
  <2>1. Block * p <= w /\ w < Block * p + Block
    <3> HIDE DEF w
    <3>1. w <= w /\ w < w + Block
      BY <1>1, BlockIs
    <3> QED BY <3>1 DEF w
  <2> QED BY <1>1, <2>1, BlocksUnique
<1>11. PieceCount(w) = p
  BY <1>1, <1>10, PiecesCounted
<1> QED BY <1>1, <1>3, <1>5, <1>9, <1>10, <1>11 DEF k, u

(* Pieces of whole blocks stay when a text is put behind them.             *)
LEMMA PieceOfFront ==
  ASSUME NEW p \in Nat, NEW x, Long(x, Block * p), NEW y, NEW n, Long(y, n), NEW j \in 1 .. p
  PROVE  Piece(x \o y, j) = Piece(x, j) /\ BlockAt(x \o y, j) = BlockAt(x, j)
<1> DEFINE w == Block * p
           z == x \o y
<1>1. n \in Nat
  BY DEF Long
<1>2. w \in Nat /\ w \div Block = p /\ w + n \in Nat /\ (w + n) \div Block = p + n \div Block
  BY <1>1, CountOfJoin
<1>3. Long(z, w + n)
  BY TextJoin DEF Joins
<1>4. j \in 1 .. (w \div Block) /\ j \in 1 .. ((w + n) \div Block)
  <2>1. n \div Block \in Nat
    BY <1>1, InBlocks
  <2>2. \A u \in Nat : j \in 1 .. (p + u)
    OBVIOUS
  <2> QED BY <1>2, <2>1, <2>2
<1> HIDE DEF w, z
<1>5. BlockAt(z, j) = Piece(z, j)
  BY <1>3, <1>4, BlockOfText
<1>6. BlockAt(x, j) = Piece(x, j)
  <2>1. Long(x, w)
    BY DEF w
  <2> QED BY <1>4, <2>1, BlockOfText
<1>7. j \in Nat \ {0} /\ j <= p
  OBVIOUS
<1>8. BlockAt(z, j) = Cut(z, Block * (j - 1), Block) /\ BlockAt(x, j) = Cut(x, Block * (j - 1), Block)
  BY <1>7, BlockIsCut
<1>9. Block * (j - 1) \in Nat /\ Block * (j - 1) + Block <= w
  <2>1. Block * j <= Block * p
    BY <1>7, BlockMultiple
  <2>2. Block * (j - 1) \in Nat /\ Block * j = Block * (j - 1) + Block
    BY <1>7, BlockStep
  <2> QED BY <2>1, <2>2 DEF w
<1>10. Cut(z, Block * (j - 1), Block) = Cut(x, Block * (j - 1), Block)
  <2> DEFINE a == Block * (j - 1)
  <2>1. a \in Nat /\ Block \in Nat /\ a + Block <= w /\ Long(x, w)
    BY <1>9, BlockIs DEF w
  <2> HIDE DEF a
  <2>2. Cut(x \o y, a, Block) = Cut(x, a, Block)
    BY <2>1, CutOfFront
  <2> QED BY <2>2 DEF a, z
<1> QED BY <1>5, <1>6, <1>8, <1>10 DEF z

(* The pieces of a text behind whole blocks are its own.                   *)
LEMMA PieceOfBehind ==
  ASSUME NEW p \in Nat, NEW x, Long(x, Block * p), NEW y, NEW n, Long(y, n),
         NEW j \in 1 .. PieceCount(n)
  PROVE  Piece(x \o y, p + j) = Piece(y, j)
<1> DEFINE w == Block * p
           z == x \o y
           a == Block * (j - 1)
           k == PieceLen(n, j)
<1>1. n \in Nat /\ PieceCount(n) \in Nat
  BY PiecesCounted DEF Long
<1>2. w \in Nat /\ w + n \in Nat /\ PieceCount(w + n) = p + PieceCount(n)
  BY <1>1, CountOfJoin
<1>3. Long(z, w + n)
  BY TextJoin DEF Joins
<1>4. p + j \in 1 .. PieceCount(w + n)
  <2>1. \A u \in Nat : j \in 1 .. u => p + j \in 1 .. (p + u)
    OBVIOUS
  <2> QED BY <1>1, <1>2, <2>1
<1>5. j \in Nat \ {0} /\ j - 1 \in Nat /\ a \in Nat /\ k \in 1 .. Block /\ a + k <= n
  BY <1>1, PieceWithin
<1>6. Block * ((p + j) - 1) = w + a
  <2>1. (p + j) - 1 = p + (j - 1)
    BY <1>5
  <2> QED BY <1>5, <2>1, BlockMultiple
<1>7. PieceLen(w + n, p + j) = k
  <2> DEFINE b == Block * j
  <2>1. PieceLen(w + n, p + j) = IF Block * (p + j) < w + n THEN Block ELSE (w + n) - (w + a)
    BY <1>6 DEF PieceLen
  <2>2. Block * (p + j) = w + b /\ b \in Nat
    BY <1>5, BlockMultiple, BlockStep
  <2>3. k = IF b < n THEN Block ELSE n - a
    BY DEF PieceLen
  <2> HIDE DEF w, a, b, k
  <2> QED BY <1>1, <1>2, <1>5, <2>1, <2>2, <2>3
<1>8. Piece(z, p + j) = Cut(z, w + a, k)
  <2>1. Piece(z, p + j) = Cut(z, Block * ((p + j) - 1), PieceLen(w + n, p + j))
    <3> HIDE DEF w, z, a, k
    <3> QED BY <1>3, <1>4, PieceIs
  <2> QED BY <1>6, <1>7, <2>1
<1>9. Piece(y, j) = Cut(y, a, k)
  BY PieceIs
<1>10. Cut(z, w + a, k) = Cut(y, a, k)
  <2> HIDE DEF a, k
  <2>1. k \in Nat /\ Long(x, w)
    BY <1>5, BlockIs
  <2> HIDE DEF w
  <2> QED BY <1>5, <2>1, CutOfBehind
<1> QED BY <1>8, <1>9, <1>10

(* The places of a text, by the block they are in.                         *)
LEMMA PlaceIs ==
  ASSUME NEW j \in Nat \ {0}, NEW i \in 1 .. Block
  PROVE  LET p == Block * (j - 1) + i
         IN /\ p \in Nat \ {0}
            /\ (p - 1) \div Block + 1 = j
            /\ ((p - 1) % Block) + 1 = i
<1> DEFINE a == Block * (j - 1)
           p == a + i
<1>1. a \in Nat /\ j - 1 \in Nat /\ Block \in Nat
  BY BlockStep, BlockIs
<1>2. p - 1 \in Nat /\ p \in Nat \ {0} /\ a <= p - 1 /\ p - 1 < a + Block /\ p - 1 = a + (i - 1)
      /\ i - 1 \in 0 .. (Block - 1)
  <2> HIDE DEF a
  <2> QED BY <1>1
<1>3. (p - 1) \div Block = j - 1
  <2> DEFINE k == p - 1
             u == j - 1
  <2>1. k \in Nat /\ u \in Nat /\ Block * u <= k /\ k < Block * u + Block
    BY <1>1, <1>2
  <2> HIDE DEF k, u
  <2>2. k \div Block = u
    BY <2>1, BlocksUnique
  <2> QED BY <2>2 DEF k, u
<1>4. (p - 1) % Block = i - 1
  <2> DEFINE r == i - 1
             u == j - 1
  <2>1. Block \in Nat \ {0} /\ u \in Nat /\ r \in 0 .. (Block - 1) /\ p - 1 = Block * u + r
    BY <1>1, <1>2, BlockIs
  <2> HIDE DEF u, r
  <2>2. (Block * u + r) % Block = r
    BY ONLY <2>1, ModUnique
  <2> QED BY <2>1, <2>2 DEF r
<1> QED BY <1>2, <1>3, <1>4

(* Blocks joined are the pieces of what they make.                         *)
LEMMA JoinedIs ==
  ASSUME NEW f, NEW n \in Nat, \A j \in 1 .. PieceCount(n) : Long(f[j], PieceLen(n, j))
  PROVE  /\ Long(Joined(f, n), n)
         /\ \A j \in 1 .. PieceCount(n) : Piece(Joined(f, n), j) = f[j]
<1> DEFINE z == Joined(f, n)
<1>1. z = [i \in 1 .. n |-> f[(i - 1) \div Block + 1][((i - 1) % Block) + 1]]
  BY DEF Joined
<1> HIDE DEF z
<1>2. Long(z, n)
  BY <1>1 DEF Long
<1>3. ASSUME NEW j \in 1 .. PieceCount(n)
      PROVE  Piece(z, j) = f[j]
  <2> DEFINE k == PieceLen(n, j)
             a == Block * (j - 1)
  <2>1. j \in Nat \ {0} /\ a \in Nat /\ k \in 1 .. Block /\ a + k <= n
    BY PieceWithin
  <2>2. Long(Piece(z, j), k) /\ \A i \in 1 .. k : Piece(z, j)[i] = z[a + i]
    BY <1>2, PieceIs
  <2>3. ASSUME NEW i \in 1 .. k
        PROVE  z[a + i] = f[j][i]
    <3>1. i \in 1 .. Block /\ a + i \in 1 .. n
      <4> HIDE DEF a, k
      <4> QED BY <2>1, BlockIs
    <3>2. ((a + i) - 1) \div Block + 1 = j /\ (((a + i) - 1) % Block) + 1 = i
      BY <2>1, <3>1, PlaceIs
    <3> DEFINE u == a + i
    <3>3. z[u] = f[(u - 1) \div Block + 1][((u - 1) % Block) + 1]
      BY <1>1, <3>1
    <3> HIDE DEF a
    <3> QED BY <3>2, <3>3
  <2>4. Long(f[j], k)
    OBVIOUS
  <2> HIDE DEF a, k
  <2>5. \A i \in 1 .. k : Piece(z, j)[i] = f[j][i]
    BY <2>2, <2>3
  <2> QED BY <2>2, <2>4, <2>5, TextEqual
<1> QED BY <1>2, <1>3 DEF z

-----------------------------------------------------------------------------
(* Sums, and blocks under the cipher.                                      *)

(* The exclusive or is as long as its first text, byte by byte.            *)
LEMMA XorIs ==
  ASSUME NEW x, NEW n, Long(x, n), NEW y
  PROVE  /\ Long(Xor(x, y), n)
         /\ \A i \in 1 .. n : Xor(x, y)[i] = XorByte(x[i], y[i])
<1>1. Len(x) = n /\ n \in Nat
  BY LongIsText DEF Long
<1> QED BY <1>1 DEF Xor, Long

(* Adding a byte twice changes nothing.                                    *)
LEMMA XorByteTwice == \A a, b : XorByte(XorByte(a, b), b) = a
BY DEF XorByte

\* Adding y twice adds nothing.
LEMMA XorTwice ==
  ASSUME NEW x, NEW n, Long(x, n), NEW y
  PROVE  Xor(Xor(x, y), y) = x
<1> DEFINE z == Xor(x, y)
           w == Xor(z, y)
<1>1. Long(z, n) /\ \A i \in 1 .. n : z[i] = XorByte(x[i], y[i])
  BY XorIs
<1> HIDE DEF z
<1>2. Long(w, n) /\ \A i \in 1 .. n : w[i] = XorByte(z[i], y[i])
  BY <1>1, XorIs
<1> HIDE DEF w
<1>3. \A i \in 1 .. n : w[i] = x[i]
  BY <1>1, <1>2, XorByteTwice
<1>4. w = x
  BY <1>2, <1>3, TextEqual
<1> QED BY <1>4 DEF w, z

\* No term of the first byte is the cipher's, in the direction called name.
Free(x, name) == \A t \in x[1] : t[1] # name

(* The sum of blocks in whose first byte no term has a name has none       *)
(* either.                                                                 *)
LEMMA XorFree ==
  ASSUME NEW x, NEW n, Long(x, n), n >= 1, NEW y, NEW name, Free(x, name), Free(y, name)
  PROVE  Free(Xor(x, y), name)
<1>1. n \in Nat /\ 1 \in 1 .. n
  BY DEF Long
<1>2. Xor(x, y)[1] = XorByte(x[1], y[1])
  BY <1>1, XorIs
<1> QED BY <1>2 DEF Free, XorByte

(* An image is a block with the one name in it.                            *)
LEMMA ImageIs ==
  ASSUME NEW name, NEW k, NEW x
  PROVE  /\ Long(Image(name, k, x), Block)
         /\ Image(name, k, x)[1] = {<<name, k, x, 1>>}
         /\ \A other : other # name => Free(Image(name, k, x), other)
<1>1. Block \in Nat /\ 1 \in 1 .. Block
  BY BlockIs
<1>2. Long(Image(name, k, x), Block) /\ Image(name, k, x)[1] = {<<name, k, x, 1>>}
  BY <1>1 DEF Image, Long
<1>3. \A t \in {<<name, k, x, 1>>} : t[1] = name
  OBVIOUS
<1>4. \A other : other # name => Free(Image(name, k, x), other)
  BY <1>2, <1>3 DEF Free
<1> QED BY <1>2, <1>4

(* The cipher makes an image of a block that is none, and undoes its       *)
(* inverse's.                                                              *)
LEMMA CipherIs ==
  ASSUME NEW name, NEW inverse, NEW k, NEW x
  PROVE  /\ Free(x, inverse) => Cipher(name, inverse, k, x) = Image(name, k, x)
         /\ Cipher(name, inverse, k, Image(inverse, k, x)) = x
<1>1. ASSUME Free(x, inverse) PROVE Cipher(name, inverse, k, x) = Image(name, k, x)
  <2>1. Preimages(inverse, k, x) = {}
    BY <1>1 DEF Preimages, Free
  <2> QED BY <2>1 DEF Cipher
<1>2. Cipher(name, inverse, k, Image(inverse, k, x)) = x
  <2> DEFINE y == Image(inverse, k, x)
             t == <<inverse, k, x, 1>>
  <2>1. y[1] = {t}
    BY ImageIs
  <2>2. t[1] = inverse /\ t[2] = k /\ t[3] = x
    OBVIOUS
  <2>3. y = Image(inverse, t[2], t[3])
    BY <2>2
  <2> HIDE DEF y, t
  <2>4. Preimages(inverse, k, y) = {x}
    BY <2>1, <2>2, <2>3 DEF Preimages
  <2>5. (CHOOSE z \in {x} : TRUE) = x
    OBVIOUS
  <2>6. {x} # {}
    OBVIOUS
  <2> DEFINE S == Preimages(inverse, k, y)
  <2>7. Cipher(name, inverse, k, y) = IF S # {} THEN CHOOSE z \in S : TRUE ELSE Image(name, k, y)
    BY DEF Cipher
  <2> HIDE DEF S
  <2>8. S = {x}
    BY <2>4 DEF S
  <2>9. Cipher(name, inverse, k, y) = x
    BY <2>5, <2>6, <2>7, <2>8
  <2> QED BY <2>9 DEF y
<1> QED BY <1>1, <1>2

(* Enciphering a block that was not deciphered makes an image.             *)
LEMMA EncipherIs ==
  ASSUME NEW k, NEW x, Free(x, "dec")
  PROVE  /\ Encipher(k, x) = Image("enc", k, x)
         /\ Long(Encipher(k, x), Block) /\ Free(Encipher(k, x), "dec")
<1>1. Encipher(k, x) = Image("enc", k, x)
  BY CipherIs DEF Encipher
<1>2. "dec" # "enc"
  OBVIOUS
<1> QED BY <1>1, <1>2, ImageIs

(* What has not been enciphered is deciphered to something that can only   *)
(* be enciphered back to it.                                               *)
LEMMA DecipherIs ==
  ASSUME NEW k, NEW x, Free(x, "enc")
  PROVE  /\ Long(Decipher(k, x), Block)
         /\ Encipher(k, Decipher(k, x)) = x
<1>1. Decipher(k, x) = Image("dec", k, x)
  BY CipherIs DEF Decipher
<1>2. Encipher(k, Image("dec", k, x)) = x
  BY CipherIs DEF Encipher
<1> QED BY <1>1, <1>2, ImageIs

(* The caller's bytes are no images.                                       *)
LEMMA RawFree ==
  ASSUME NEW x, NEW n, Long(x, n), n >= 1, \A i \in 1 .. n : \A t \in x[i] : t[1] = "raw"
  PROVE  Free(x, "enc") /\ Free(x, "dec")
<1>1. 1 \in 1 .. n
  BY DEF Long
<1>2. \A t \in x[1] : t[1] = "raw"
  BY <1>1
<1>3. "raw" # "enc" /\ "raw" # "dec"
  OBVIOUS
<1> QED BY <1>2, <1>3 DEF Free

\* A block to chain from: no deciphered one.
ChainBlock(c) == Long(c, Block) /\ Free(c, "dec")

\* Counter block n of IV v.
CounterBlock(v, n) == [i \in 1 .. Block |-> {<<"iv", v, n, i>>}]

(* Counter blocks can be chained from, and counting adds.                  *)
LEMMA CounterIs ==
  ASSUME NEW v, NEW n \in Nat
  PROVE  /\ ChainBlock(CounterBlock(v, n))
         /\ \A k \in Nat : Counted(CounterBlock(v, n), k) = CounterBlock(v, n + k)
<1> DEFINE c == CounterBlock(v, n)
<1>1. Block \in Nat /\ 1 \in 1 .. Block
  BY BlockIs
<1>2. Long(c, Block)
  BY <1>1 DEF CounterBlock, Long
<1>3. c[1] = {<<"iv", v, n, 1>>}
  BY <1>1 DEF CounterBlock
<1>4. Free(c, "dec")
  BY <1>3 DEF Free
<1>5. ASSUME NEW k \in Nat PROVE Counted(c, k) = CounterBlock(v, n + k)
  <2>1. \A i \in 1 .. Block : c[i] = {<<"iv", v, n, i>>}
    BY DEF CounterBlock
  <2> HIDE DEF c
  <2>2. ASSUME NEW i \in 1 .. Block
        PROVE  {<<t[1], t[2], t[3] + k, t[4]>> : t \in c[i]} = {<<"iv", v, n + k, i>>}
    <3> DEFINE u == <<"iv", v, n, i>>
    <3>1. u[1] = "iv" /\ u[2] = v /\ u[3] = n /\ u[4] = i
      OBVIOUS
    <3>2. c[i] = {u}
      BY <2>1
    <3> HIDE DEF u
    <3>3. {<<t[1], t[2], t[3] + k, t[4]>> : t \in {u}} = {<<u[1], u[2], u[3] + k, u[4]>>}
      OBVIOUS
    <3> QED BY <3>1, <3>2, <3>3
  <2> QED BY <2>2 DEF Counted, CounterBlock
<1> QED BY <1>2, <1>4, <1>5 DEF ChainBlock

(* An IV is counter block 0.                                               *)
LEMMA IvIsCounter ==
  ASSUME NEW v
  PROVE  IvBlock(v) = CounterBlock(v, 0) /\ ChainBlock(IvBlock(v))
<1>1. IvBlock(v) = CounterBlock(v, 0)
  BY DEF IvBlock, CounterBlock
<1> QED BY <1>1, CounterIs

-----------------------------------------------------------------------------
(* Recursion and induction over the natural numbers: a set of them that is *)
(* not empty has a least member.                                           *)

(* A set of numbers that is not empty has a least one.                     *)
LEMMA LeastNumber ==
  ASSUME NEW T, T \subseteq Nat, T # {}
  PROVE  \E n \in T : \A m \in T : n <= m
<1> DEFINE R == OpToRel(<, Nat)
<1>1. IsWellFoundedOn(R, Nat)
  BY NatLessThanWellFounded
<1>2. \A x, y \in Nat : x < y => <<x, y>> \in R
  BY DEF OpToRel
<1> HIDE DEF R
<1>3. PICK x \in T : \A y \in T : ~ (<<y, x>> \in R)
  BY <1>1, WFMin
<1>4. ASSUME NEW y \in T PROVE x <= y
  <2>1. x \in Nat /\ y \in Nat
    BY Zenon
  <2>2. ~ (y < x)
    BY <1>2, <1>3, <2>1, Zenon
  <2> QED
    BY ONLY <2>1, <2>2
<1> QED
  BY <1>4

\* A set that has 0, and with each number below a bound the next, has them all.
LEMMA ByInduction ==
  ASSUME NEW T, NEW m \in Nat, 0 \in T, \A n \in 0 .. m - 1 : n \in T => n + 1 \in T
  PROVE  0 .. m \subseteq T
<1> DEFINE bad == {n \in 0 .. m : n \notin T}
<1>1. bad \subseteq Nat
  OBVIOUS
<1>2. SUFFICES ASSUME bad # {} PROVE FALSE
  OBVIOUS
<1>3. PICK n \in bad : \A k \in bad : n <= k
  BY <1>1, <1>2, LeastNumber
<1>4. n \in 0 .. m /\ n \notin T /\ n # 0
  BY <1>3
<1>5. n - 1 \in 0 .. m - 1 /\ n - 1 \in 0 .. m /\ (n - 1) + 1 = n /\ ~(n <= n - 1)
  BY <1>4
<1>6. n - 1 \notin bad
  BY <1>3, <1>5
<1>7. n - 1 \in T
  BY <1>5, <1>6
<1> QED BY <1>4, <1>5, <1>7

(* The chaining blocks are what their definition says.                     *)
LEMMA ChainIs ==
  ASSUME NEW mode, NEW dir, NEW k, NEW c, NEW x, Blocks(x) \in Nat
  PROVE  /\ Chain(mode, dir, k, c, x)[0] = c
         /\ \A j \in 1 .. Blocks(x) :
              Chain(mode, dir, k, c, x)[j] =
                ModeBlock(mode, dir, k, Chain(mode, dir, k, c, x)[j - 1], BlockAt(x, j)).next
<1> DEFINE Op(b, j) == ModeBlock(mode, dir, k, b, BlockAt(x, j)).next
           Goes(g, n) == g = [j \in 0 .. n |-> IF j = 0 THEN c ELSE Op(g[j - 1], j)]
           T == {n \in Nat : \E g : Goes(g, n)}
           m == Blocks(x)
           at == Chain(mode, dir, k, c, x)
<1>1. at = CHOOSE g : Goes(g, m)
  BY DEF Chain
<1> HIDE DEF Op, m, at
<1>2. 0 \in T
  <2> DEFINE g == [j \in 0 .. 0 |-> c]
  <2>1. Goes(g, 0)
    OBVIOUS
  <2> QED BY <2>1
<1>3. ASSUME NEW n \in 0 .. m - 1, n \in T PROVE n + 1 \in T
  <2>0. n \in Nat /\ n + 1 \in Nat
    BY DEF m
  <2>1. PICK g : Goes(g, n)
    BY <1>3
  <2> DEFINE h == [j \in 0 .. n + 1 |-> IF j = n + 1 THEN Op(g[n], n + 1) ELSE g[j]]
  <2>2. /\ h[n + 1] = Op(g[n], n + 1)
        /\ \A j \in 0 .. n : h[j] = g[j]
        /\ h = [j \in 0 .. n + 1 |-> h[j]]
    BY <2>0
  <2>3. /\ g[0] = c
        /\ \A j \in 1 .. n : g[j] = Op(g[j - 1], j)
    BY <2>0, <2>1
  <2> HIDE DEF h
  <2>4. ASSUME NEW j \in 0 .. n + 1
        PROVE  h[j] = IF j = 0 THEN c ELSE Op(h[j - 1], j)
    <3>1. CASE j = 0
      <4>1. 0 \in 0 .. n
        BY <2>0
      <4> QED BY <2>2, <2>3, <3>1, <4>1
    <3>2. CASE j \in 1 .. n
      <4>1. j \in 0 .. n /\ j - 1 \in 0 .. n /\ j # 0
        BY <2>0, <3>2
      <4>2. h[j] = g[j] /\ h[j - 1] = g[j - 1]
        BY <2>2, <4>1
      <4> QED BY <2>3, <3>2, <4>1, <4>2
    <3>3. CASE j = n + 1
      <4>1. j - 1 = n /\ n \in 0 .. n /\ j # 0
        BY <2>0, <3>3
      <4>2. h[j - 1] = g[n]
        BY <2>2, <4>1
      <4> QED BY <2>2, <3>3, <4>1, <4>2
    <3> QED BY <2>0, <3>1, <3>2, <3>3
  <2>5. Goes(h, n + 1)
    BY <2>2, <2>4
  <2> QED BY <2>0, <2>5
<1>4. m \in T
  <2>1. m \in Nat
    BY DEF m
  <2> HIDE DEF T
  <2>2. 0 .. m \subseteq T
    BY <1>2, <1>3, <2>1, ByInduction
  <2> QED BY <2>1, <2>2
<1>5. Goes(at, m)
  BY <1>1, <1>4
<1>6. m \in Nat
  BY DEF m
<1>7. at[0] = c /\ \A j \in 1 .. m : at[j] = Op(at[j - 1], j)
  BY <1>5, <1>6
<1> QED BY <1>7 DEF Op, m, at

(* OFB's keystream blocks are each the last one enciphered.                *)
LEMMA OfbMaskIs ==
  ASSUME NEW k, NEW iv
  PROVE  /\ OfbMask(k, iv, 0) = iv
         /\ \A m \in Nat : OfbMask(k, iv, m + 1) = Encipher(k, OfbMask(k, iv, m))
<1> DEFINE Goes(g, n) == g = [j \in 0 .. n |-> IF j = 0 THEN iv ELSE Encipher(k, g[j - 1])]
           M(n) == CHOOSE g : Goes(g, n)
           T == {n \in Nat : \E g : Goes(g, n)}
<1>1. \A n \in Nat : OfbMask(k, iv, n) = M(n)[n]
  BY DEF OfbMask
<1>2. 0 \in T
  <2> DEFINE g == [j \in 0 .. 0 |-> iv]
  <2>1. Goes(g, 0)
    OBVIOUS
  <2> QED BY <2>1
<1>3. ASSUME NEW n \in Nat, n \in T PROVE n + 1 \in T
  <2>1. PICK g : Goes(g, n)
    BY <1>3
  <2> DEFINE h == [j \in 0 .. n + 1 |-> IF j = n + 1 THEN Encipher(k, g[n]) ELSE g[j]]
  <2>2. /\ h[n + 1] = Encipher(k, g[n])
        /\ \A j \in 0 .. n : h[j] = g[j]
        /\ h = [j \in 0 .. n + 1 |-> h[j]]
    OBVIOUS
  <2>3. g[0] = iv /\ \A j \in 1 .. n : g[j] = Encipher(k, g[j - 1])
    BY <2>1
  <2> HIDE DEF h
  <2>4. ASSUME NEW j \in 0 .. n + 1
        PROVE  h[j] = IF j = 0 THEN iv ELSE Encipher(k, h[j - 1])
    <3>1. CASE j = 0
      <4>1. 0 \in 0 .. n
        OBVIOUS
      <4> QED BY <2>2, <2>3, <3>1, <4>1
    <3>2. CASE j \in 1 .. n
      <4>1. j \in 0 .. n /\ j - 1 \in 0 .. n /\ j # 0
        BY <3>2
      <4>2. h[j] = g[j] /\ h[j - 1] = g[j - 1]
        BY <2>2, <4>1
      <4> QED BY <2>3, <3>2, <4>1, <4>2
    <3>3. CASE j = n + 1
      <4>1. j - 1 = n /\ n \in 0 .. n /\ j # 0
        BY <3>3
      <4>2. h[j - 1] = g[n]
        BY <2>2, <4>1
      <4> QED BY <2>2, <3>3, <4>1, <4>2
    <3> QED BY <3>1, <3>2, <3>3
  <2>5. Goes(h, n + 1)
    BY <2>2, <2>4
  <2> QED BY <2>5
<1>4. \A n \in Nat : n \in T
  <2> TAKE n \in Nat
  <2> HIDE DEF T
  <2>1. \A j \in 0 .. n - 1 : j \in T => j + 1 \in T
    BY <1>3
  <2>2. 0 .. n \subseteq T
    BY <1>2, <2>1, ByInduction
  <2> QED BY <2>2
<1>5. \A n \in Nat : Goes(M(n), n)
  <2> TAKE n \in Nat
  <2>1. \E g : Goes(g, n)
    BY <1>4
  <2> QED BY <2>1
<1> HIDE DEF M
<1>6. \A n \in Nat : M(n)[0] = iv /\ \A j \in 1 .. n : M(n)[j] = Encipher(k, M(n)[j - 1])
  BY <1>5
<1>7. OfbMask(k, iv, 0) = iv
  BY <1>1, <1>6
<1>8. ASSUME NEW m \in Nat PROVE OfbMask(k, iv, m + 1) = Encipher(k, OfbMask(k, iv, m))
  <2> DEFINE f == M(m)
             h == M(m + 1)
             U == {j \in Nat : h[j] = f[j]}
  <2>1. /\ f[0] = iv /\ h[0] = iv
        /\ \A j \in 1 .. m : f[j] = Encipher(k, f[j - 1])
        /\ \A j \in 1 .. m + 1 : h[j] = Encipher(k, h[j - 1])
    BY <1>6
  <2> HIDE DEF f, h
  <2>2. 0 \in U
    BY <2>1
  <2>3. ASSUME NEW n \in 0 .. m - 1, n \in U PROVE n + 1 \in U
    <3>1. n + 1 \in 1 .. m /\ n + 1 \in 1 .. m + 1 /\ (n + 1) - 1 = n /\ n + 1 \in Nat
      OBVIOUS
    <3>2. h[n] = f[n]
      BY <2>3
    <3>3. f[n + 1] = Encipher(k, f[n]) /\ h[n + 1] = Encipher(k, h[n])
      BY <2>1, <3>1
    <3> QED BY <3>1, <3>2, <3>3
  <2>4. h[m] = f[m]
    <3> HIDE DEF U
    <3>1. 0 .. m \subseteq U
      BY <2>2, <2>3, ByInduction
    <3>2. m \in U
      BY <3>1
    <3> QED BY <3>2 DEF U
  <2>5. h[m + 1] = Encipher(k, h[m])
    <3>1. m + 1 \in 1 .. m + 1 /\ (m + 1) - 1 = m
      OBVIOUS
    <3> QED BY <2>1, <3>1
  <2>6. OfbMask(k, iv, m) = f[m] /\ OfbMask(k, iv, m + 1) = h[m + 1]
    BY <1>1 DEF f, h
  <2> QED BY <2>4, <2>5, <2>6
<1> QED BY <1>7, <1>8

-----------------------------------------------------------------------------
(* One block of a mode.                                                    *)

\* The modes of AesGenericCiphersT.
Modes == {"cbc", "cfb", "ctr", "ofb"}

\* Plain text p and its cipher text c, after chaining block b.
Coupled(mode, k, b, p, c) ==
  IF mode = "cbc" THEN c = Encipher(k, Xor(p, b)) ELSE c = Xor(p, Encipher(k, b))

\* Of an input x and an output y, which is the plain text.
PlainOf(dir, x, y) == IF dir = "encrypt" THEN x ELSE y

\* And which the cipher text.
CodedOf(dir, x, y) == IF dir = "encrypt" THEN y ELSE x

\* n bytes of the caller's.
RawBytes(x, n) == Long(x, n) /\ \A i \in 1 .. n : \A t \in x[i] : t[1] = "raw"

(* Counting goes from a chaining block to a chaining block.                *)
LEMMA CountedIs ==
  ASSUME NEW c, ChainBlock(c), NEW n
  PROVE  ChainBlock(Counted(c, n))
<1>1. Block \in Nat /\ 1 \in 1 .. Block
  BY BlockIs
<1>2. Long(Counted(c, n), Block)
  BY <1>1 DEF Counted, Long
<1>3. Counted(c, n)[1] = {<<t[1], t[2], t[3] + n, t[4]>> : t \in c[1]}
  BY <1>1 DEF Counted
<1>4. \A t \in c[1] : t[1] # "dec"
  BY DEF ChainBlock, Free
<1>5. ASSUME NEW u \in Counted(c, n)[1] PROVE u[1] # "dec"
  <2>1. PICK t \in c[1] : u = <<t[1], t[2], t[3] + n, t[4]>>
    BY <1>3
  <2>2. u[1] = t[1]
    BY <2>1
  <2> QED BY <1>4, <2>2
<1> QED BY <1>2, <1>5 DEF ChainBlock, Free

\* A block filled up with zeros.
Filled(x) == [i \in 1 .. Block |-> IF i <= Len(x) THEN x[i] ELSE {}]

(* A short piece filled with zeros is a block, and no image.               *)
LEMMA FilledIs ==
  ASSUME NEW x, NEW n, RawBytes(x, n), n \in 1 .. Block
  PROVE  /\ Long(Filled(x), Block) /\ Free(Filled(x), "dec") /\ Free(Filled(x), "enc")
         /\ \A i \in 1 .. n : Filled(x)[i] = x[i]
         /\ n = Block => Filled(x) = x
<1>1. Long(x, n) /\ \A i \in 1 .. n : \A t \in x[i] : t[1] = "raw"
  BY DEF RawBytes
<1>2. Len(x) = n /\ n \in Nat /\ Block \in Nat /\ n >= 1
  BY <1>1, LongIsText, BlockIs
<1> DEFINE y == Filled(x)
<1>3. y = [i \in 1 .. Block |-> IF i <= n THEN x[i] ELSE {}]
  BY <1>2 DEF Filled
<1> HIDE DEF y
<1>4. Long(y, Block) /\ \A i \in 1 .. n : y[i] = x[i]
  <2>1. Long(y, Block)
    BY <1>2, <1>3 DEF Long
  <2>2. \A i \in 1 .. n : i \in 1 .. Block /\ i <= n
    BY <1>2
  <2>3. \A i \in 1 .. n : y[i] = x[i]
    BY <1>3, <2>2
  <2> QED BY <2>1, <2>3
<1>5. Free(x, "dec") /\ Free(x, "enc")
  BY <1>1, <1>2, RawFree
<1>6. Free(y, "dec") /\ Free(y, "enc")
  BY <1>2, <1>4, <1>5 DEF Free
<1>7. n = Block => y = x
  BY <1>1, <1>4, TextEqual
<1> QED BY <1>4, <1>6, <1>7 DEF y

\* The first n bytes of a block, n of them.
LEMMA FrontOf ==
  ASSUME NEW y, Long(y, Block), NEW n \in 1 .. Block
  PROVE  /\ Long(First(y, n), n)
         /\ \A i \in 1 .. n : First(y, n)[i] = y[i]
         /\ n = Block => First(y, n) = y
<1>1. n \in Nat /\ 0 \in Nat /\ 0 + n <= Block /\ Block \in Nat
  BY BlockIs
<1>2. First(y, n) = Cut(y, 0, n)
  BY <1>1, FirstIsCut
<1>3. Long(First(y, n), n) /\ \A i \in 1 .. n : First(y, n)[i] = y[0 + i]
  BY <1>1, <1>2, CutIs
<1>4. n = Block => First(y, n) = y
  BY <1>2, CutAll
<1> QED BY <1>3, <1>4

\* The modes that promise nothing of an end that does not fill a block.
WholeBlockModes == {"cbc", "ofb"}

\* What comes of n bytes x, of at most a block.
BlockDone(mode, dir, k, c, x, n, r) ==
  /\ Long(r.out, n)
  /\ mode \notin WholeBlockModes \/ n = Block =>
       Coupled(mode, k, c, PlainOf(dir, x, r.out), CodedOf(dir, x, r.out))
  /\ mode = "ctr" => r.next = Counted(c, 1)
  /\ mode = "ofb" => r.next = Encipher(k, c)
  /\ mode \in {"cbc", "cfb"} /\ n = Block => r.next = CodedOf(dir, x, r.out)
  /\ n = Block => ChainBlock(r.next)

(* One block of a mode is what the standard says, and can be chained from. *)
LEMMA ModeBlockIs ==
  ASSUME NEW mode \in Modes, NEW dir \in Directions, NEW k, NEW c, ChainBlock(c),
         NEW x, NEW n, RawBytes(x, n), n \in 1 .. Block,
         NEW r, r = ModeBlock(mode, dir, k, c, x)
  PROVE  BlockDone(mode, dir, k, c, x, n, r)
<1> DEFINE short == Filled(x)
           mask == Encipher(k, c)
           full == CASE mode = "cbc" /\ dir = "encrypt" -> Encipher(k, Xor(short, c))
                     [] mode = "cbc" /\ dir = "decrypt" -> Xor(Decipher(k, short), c)
                     [] mode = "ofb" /\ n < Block -> short
                     [] OTHER -> Xor(short, mask)
           next == CASE mode = "ctr" -> Counted(c, 1)
                     [] mode = "ofb" -> mask
                     [] mode \notin {"ctr", "ofb"} /\ dir = "encrypt" -> full
                     [] OTHER -> short
<1>1. Long(x, n) /\ Len(x) = n /\ n \in Nat /\ Block \in Nat /\ n >= 1 /\ Block >= 1
  BY LongIsText, BlockIs DEF RawBytes
<1>2. r.out = First(full, n) /\ r.next = next
  BY <1>1 DEF ModeBlock, Chained, Filled
<1>3. /\ Long(short, Block) /\ Free(short, "dec") /\ Free(short, "enc")
      /\ \A i \in 1 .. n : short[i] = x[i]
      /\ n = Block => short = x
  BY FilledIs
<1>4. Long(c, Block) /\ Free(c, "dec")
  BY DEF ChainBlock
<1>5. Long(mask, Block) /\ Free(mask, "dec")
  BY <1>4, EncipherIs
<1> HIDE DEF short, mask
<1>6. CASE mode = "cbc" /\ dir = "encrypt"
  <2>1. full = Encipher(k, Xor(short, c)) /\ next = full
    BY <1>6
  <2>2. Free(Xor(short, c), "dec")
    BY <1>1, <1>3, <1>4, XorFree
  <2>3. Long(full, Block) /\ Free(full, "dec")
    BY <2>1, <2>2, EncipherIs
  <2> HIDE DEF full, next
  <2>4. Long(r.out, n) /\ (n = Block => r.out = full)
    BY <1>2, <2>3, FrontOf
  <2>5. n = Block => Coupled(mode, k, c, x, r.out)
    BY <1>3, <1>6, <2>1, <2>4 DEF Coupled
  <2>5a. mode \in WholeBlockModes
    BY <1>6 DEF WholeBlockModes
  <2>6. PlainOf(dir, x, r.out) = x /\ CodedOf(dir, x, r.out) = r.out
    BY <1>6 DEF PlainOf, CodedOf
  <2>7. n = Block => r.next = r.out /\ ChainBlock(r.next)
    BY <1>2, <2>1, <2>3, <2>4 DEF ChainBlock
  <2> QED BY <1>6, <2>4, <2>5, <2>5a, <2>6, <2>7 DEF BlockDone
<1>7. CASE mode = "cbc" /\ dir = "decrypt"
  <2>1. full = Xor(Decipher(k, short), c) /\ next = short
    BY <1>7
  <2>2. Long(Decipher(k, short), Block) /\ Encipher(k, Decipher(k, short)) = short
    BY <1>3, DecipherIs
  <2>3. Long(full, Block) /\ Xor(full, c) = Decipher(k, short)
    BY <2>1, <2>2, XorIs, XorTwice
  <2> HIDE DEF full, next
  <2>4. Long(r.out, n) /\ (n = Block => r.out = full)
    BY <1>2, <2>3, FrontOf
  <2>5. n = Block => Coupled(mode, k, c, r.out, x)
    BY <1>3, <1>7, <2>2, <2>3, <2>4 DEF Coupled
  <2>5a. mode \in WholeBlockModes
    BY <1>7 DEF WholeBlockModes
  <2>6. PlainOf(dir, x, r.out) = r.out /\ CodedOf(dir, x, r.out) = x
    BY <1>7 DEF PlainOf, CodedOf
  <2>7. n = Block => r.next = x /\ ChainBlock(r.next)
    BY <1>2, <1>3, <2>1 DEF ChainBlock
  <2> QED BY <1>7, <2>4, <2>5, <2>5a, <2>6, <2>7 DEF BlockDone
<1>8. CASE mode # "cbc" /\ ~(mode = "ofb" /\ n < Block)
  <2>1. full = Xor(short, mask)
    BY <1>8
  <2>2. Long(full, Block) /\ (\A i \in 1 .. Block : full[i] = XorByte(short[i], mask[i]))
        /\ Free(full, "dec")
    BY <1>1, <1>3, <1>5, <2>1, XorIs, XorFree
  <2>3. /\ mode = "ctr" => r.next = Counted(c, 1)
        /\ mode = "ofb" => r.next = mask
        /\ mode = "cfb" /\ dir = "encrypt" => r.next = full
        /\ mode = "cfb" /\ dir = "decrypt" => r.next = short
    <3> HIDE DEF full
    <3>1. mode = "ctr" => next = Counted(c, 1)
      OBVIOUS
    <3>2. mode = "ofb" => next = mask
      OBVIOUS
    <3>3. mode = "cfb" /\ dir = "encrypt" => next = full
      OBVIOUS
    <3>4. mode = "cfb" /\ dir = "decrypt" => next = short
      OBVIOUS
    <3> QED BY <1>2, <3>1, <3>2, <3>3, <3>4
  <2> HIDE DEF full, next
  <2>4. /\ Long(r.out, n) /\ \A i \in 1 .. n : r.out[i] = full[i]
        /\ n = Block => r.out = full
    BY <1>2, <2>2, FrontOf
  <2>5. r.out = Xor(x, mask)
    <3>1. Long(Xor(x, mask), n) /\ \A i \in 1 .. n : Xor(x, mask)[i] = XorByte(x[i], mask[i])
      BY <1>1, XorIs
    <3>2. \A i \in 1 .. n : i \in 1 .. Block
      BY <1>1
    <3>3. \A i \in 1 .. n : r.out[i] = Xor(x, mask)[i]
      BY <1>3, <2>2, <2>4, <3>1, <3>2
    <3> QED BY <2>4, <3>1, <3>3, TextEqual
  <2>6. x = Xor(r.out, mask)
    BY <1>1, <2>5, XorTwice
  <2>7. Coupled(mode, k, c, PlainOf(dir, x, r.out), CodedOf(dir, x, r.out))
    BY <1>8, <2>5, <2>6 DEF Coupled, PlainOf, CodedOf, mask
  <2>8. mode = "ctr" \/ mode = "ofb" \/ mode = "cfb"
    BY <1>8 DEF Modes
  <2>9. dir = "encrypt" \/ dir = "decrypt"
    BY DEF Directions
  <2>10. mode = "cfb" /\ n = Block => r.next = CodedOf(dir, x, r.out)
    BY <1>3, <2>3, <2>4, <2>9 DEF CodedOf
  <2>11. ChainBlock(r.next)
    <3>1. ChainBlock(Counted(c, 1))
      BY CountedIs
    <3>2. ChainBlock(mask) /\ ChainBlock(full) /\ ChainBlock(short)
      BY <1>3, <1>5, <2>2 DEF ChainBlock
    <3> QED BY <2>3, <2>8, <2>9, <3>1, <3>2
  <2> QED BY <1>8, <2>3, <2>4, <2>7, <2>10, <2>11 DEF mask, BlockDone
<1>9. CASE mode = "ofb" /\ n < Block
  <2>1. full = short /\ next = mask
    BY <1>9
  <2> HIDE DEF full, next
  <2>2. Long(r.out, n)
    BY <1>2, <1>3, <2>1, FrontOf
  <2>3. mode \in WholeBlockModes /\ n # Block
    BY <1>1, <1>9 DEF WholeBlockModes
  <2>4. r.next = Encipher(k, c)
    BY <1>2, <2>1 DEF mask
  <2> QED BY <1>9, <2>2, <2>3, <2>4 DEF BlockDone
<1>10. dir = "encrypt" \/ dir = "decrypt"
  BY DEF Directions
<1> QED BY <1>6, <1>7, <1>8, <1>10, <1>9

(* A text of a mode.                                                       *)

\* A block a text of mode may be chained from.
ChainStart(mode, c) ==
  /\ ChainBlock(c)
  /\ mode = "ctr" => \E v : \E n \in Nat : c = CounterBlock(v, n)

\* The block chained from after j blocks of cipher text c.
ChainAt(mode, k, iv, c, j) ==
  IF mode = "ctr" THEN Counted(iv, j)
  ELSE IF mode = "ofb" THEN OfbMask(k, iv, j)
  ELSE IF j = 0 THEN iv ELSE Piece(c, j)

\* The pieces of n bytes the mode says something of.
Related(mode, n) == IF mode \in WholeBlockModes THEN n \div Block ELSE PieceCount(n)

(* What the standard says of a text it says piece by piece.                *)
LEMMA RelatesIs ==
  ASSUME NEW mode \in Modes, NEW k, NEW iv, NEW p, NEW a, Long(p, a), NEW c, NEW n, Long(c, n),
         a \div Block = n \div Block
  PROVE  Relates(mode, k, iv, p, c) <=>
           \A j \in 1 .. Related(mode, n) :
             Coupled(mode, k, ChainAt(mode, k, iv, c, j - 1), Piece(p, j), Piece(c, j))
<1>1. n \in Nat /\ Len(c) = n /\ Blocks(c) = n \div Block /\ n \div Block \in Nat
      /\ Pieces(c) = 1 .. PieceCount(n) /\ PieceCount(n) \in Nat
  BY WholeAndRest, PieceIs, PiecesCounted
<1>2. CASE mode = "cbc"
  <2>1. ASSUME NEW j \in 1 .. (n \div Block)
        PROVE  /\ BlockAt(c, j) = Piece(c, j) /\ BlockAt(p, j) = Piece(p, j)
               /\ Before(c, iv, j) = ChainAt(mode, k, iv, c, j - 1)
    <3>1. BlockAt(c, j) = Piece(c, j) /\ BlockAt(p, j) = Piece(p, j)
      BY BlockOfText
    <3>2. j = 1 <=> j - 1 = 0
      BY <1>1
    <3> QED BY <1>2, <3>1, <3>2 DEF Before, ChainAt
  <2>2. Relates(mode, k, iv, p, c) <=>
          \A j \in 1 .. (n \div Block) :
            BlockAt(c, j) = Encipher(k, Xor(BlockAt(p, j), Before(c, iv, j)))
    BY <1>1, <1>2 DEF Relates
  <2>3. ASSUME NEW j \in 1 .. (n \div Block)
        PROVE  BlockAt(c, j) = Encipher(k, Xor(BlockAt(p, j), Before(c, iv, j))) <=>
               Coupled(mode, k, ChainAt(mode, k, iv, c, j - 1), Piece(p, j), Piece(c, j))
    BY <1>2, <2>1 DEF Coupled
  <2> QED BY <1>2, <2>2, <2>3 DEF Related, WholeBlockModes
<1>3. CASE mode = "cfb"
  <2>1. ASSUME NEW j \in 1 .. PieceCount(n)
        PROVE  Before(c, iv, j) = ChainAt(mode, k, iv, c, j - 1)
    <3>2. j = 1 <=> j - 1 = 0
      BY <1>1
    <3> QED BY <1>3, <3>2 DEF Before, ChainAt
  <2>2. Relates(mode, k, iv, p, c) <=>
          \A j \in 1 .. PieceCount(n) :
            Piece(c, j) = Xor(Piece(p, j), Encipher(k, Before(c, iv, j)))
    BY <1>1, <1>3 DEF Relates
  <2>3. ASSUME NEW j \in 1 .. PieceCount(n)
        PROVE  Piece(c, j) = Xor(Piece(p, j), Encipher(k, Before(c, iv, j))) <=>
               Coupled(mode, k, ChainAt(mode, k, iv, c, j - 1), Piece(p, j), Piece(c, j))
    BY <1>3, <2>1 DEF Coupled
  <2> QED BY <1>3, <2>2, <2>3 DEF Related, WholeBlockModes
<1>4. CASE mode = "ctr"
  <2>2. Relates(mode, k, iv, p, c) <=>
          \A j \in 1 .. PieceCount(n) :
            Piece(c, j) = Xor(Piece(p, j), Encipher(k, Counted(iv, j - 1)))
    BY <1>1, <1>4 DEF Relates
  <2>3. ASSUME NEW j \in 1 .. PieceCount(n)
        PROVE  Piece(c, j) = Xor(Piece(p, j), Encipher(k, Counted(iv, j - 1))) <=>
               Coupled(mode, k, ChainAt(mode, k, iv, c, j - 1), Piece(p, j), Piece(c, j))
    BY <1>4 DEF Coupled, ChainAt
  <2> QED BY <1>4, <2>2, <2>3 DEF Related, WholeBlockModes
<1>5. CASE mode = "ofb"
  <2>0. ASSUME NEW j \in 1 .. (n \div Block)
        PROVE  BlockAt(c, j) = Piece(c, j) /\ BlockAt(p, j) = Piece(p, j)
    BY BlockOfText
  <2>1. ASSUME NEW j \in 1 .. (n \div Block)
        PROVE  OfbMask(k, iv, j) = Encipher(k, ChainAt(mode, k, iv, c, j - 1))
    <3>1. j - 1 \in Nat /\ (j - 1) + 1 = j
      BY <1>1
    <3>2. OfbMask(k, iv, (j - 1) + 1) = Encipher(k, OfbMask(k, iv, j - 1))
      BY <3>1, OfbMaskIs
    <3> QED BY <1>5, <3>1, <3>2 DEF ChainAt
  <2>2. Relates(mode, k, iv, p, c) <=>
          \A j \in 1 .. (n \div Block) : BlockAt(c, j) = Xor(BlockAt(p, j), OfbMask(k, iv, j))
    BY <1>1, <1>5 DEF Relates
  <2>3. ASSUME NEW j \in 1 .. (n \div Block)
        PROVE  BlockAt(c, j) = Xor(BlockAt(p, j), OfbMask(k, iv, j)) <=>
               Coupled(mode, k, ChainAt(mode, k, iv, c, j - 1), Piece(p, j), Piece(c, j))
    BY <1>5, <2>0, <2>1 DEF Coupled
  <2> QED BY <1>5, <2>2, <2>3 DEF Related, WholeBlockModes
<1> QED BY <1>2, <1>3, <1>4, <1>5 DEF Modes

(* A piece of the caller's bytes is the caller's.                          *)
LEMMA RawPiece ==
  ASSUME NEW x, NEW m, RawBytes(x, m), NEW j \in 1 .. PieceCount(m)
  PROVE  RawBytes(Piece(x, j), PieceLen(m, j)) /\ PieceLen(m, j) \in 1 .. Block
<1>1. Long(x, m) /\ m \in Nat
  BY DEF RawBytes, Long
<1> DEFINE a == Block * (j - 1)
           n == PieceLen(m, j)
<1>2. Long(Piece(x, j), n) /\ \A i \in 1 .. n : Piece(x, j)[i] = x[a + i]
  BY <1>1, PieceIs
<1>3. a \in Nat /\ n \in 1 .. Block /\ a + n <= m
  BY <1>1, PieceWithin
<1> HIDE DEF a, n
<1>4. \A i \in 1 .. n : a + i \in 1 .. m
  BY <1>1, <1>3, BlockIs
<1>5. \A i \in 1 .. m : \A t \in x[i] : t[1] = "raw"
  BY DEF RawBytes
<1>6. \A i \in 1 .. n : \A t \in Piece(x, j)[i] : t[1] = "raw"
  BY <1>2, <1>4, <1>5
<1> QED BY <1>2, <1>3, <1>6 DEF RawBytes, n

(* The chaining blocks of a call are blocks to chain from.                 *)
LEMMA ChainIsGood ==
  ASSUME NEW mode \in Modes, NEW dir \in Directions, NEW k, NEW c, ChainBlock(c),
         NEW x, NEW m, RawBytes(x, m)
  PROVE  \A j \in 0 .. (m \div Block) : ChainBlock(Chain(mode, dir, k, c, x)[j])
<1> DEFINE at == Chain(mode, dir, k, c, x)
           q == m \div Block
           T == {j \in Nat : ChainBlock(at[j])}
<1>1. Long(x, m) /\ m \in Nat /\ q \in Nat /\ Blocks(x) = q
  BY WholeAndRest DEF RawBytes
<1>2. at[0] = c /\ \A j \in 1 .. q : at[j] = ModeBlock(mode, dir, k, at[j - 1], BlockAt(x, j)).next
  BY <1>1, ChainIs
<1> HIDE DEF at
<1>3. 0 \in T
  BY <1>2
<1>4. ASSUME NEW j \in 0 .. q - 1, j \in T PROVE j + 1 \in T
  <2>1. j + 1 \in 1 .. q /\ (j + 1) - 1 = j /\ j + 1 \in Nat
    BY <1>1
  <2> DEFINE b == BlockAt(x, j + 1)
             r == ModeBlock(mode, dir, k, at[j], b)
  <2>2. at[j + 1] = r.next
    BY <1>2, <2>1
  <2>3. j + 1 \in 1 .. PieceCount(m) /\ b = Piece(x, j + 1) /\ PieceLen(m, j + 1) = Block
    BY <1>1, <2>1, BlockOfText
  <2>4. RawBytes(b, Block)
    BY <2>3, RawPiece
  <2>5. ChainBlock(at[j]) /\ Block \in 1 .. Block
    BY <1>4, BlockIs
  <2> HIDE DEF b
  <2>6. BlockDone(mode, dir, k, at[j], b, Block, r)
    BY <2>4, <2>5, ModeBlockIs
  <2> QED BY <2>1, <2>2, <2>6 DEF BlockDone
<1>5. 0 .. q \subseteq T
  <2> HIDE DEF T, q
  <2> QED BY <1>1, <1>3, <1>4, ByInduction
<1> QED BY <1>5 DEF at

\* The bytes a call on m bytes writes.
TextLen(mode, dir, m) ==
  IF mode = "cbc" /\ dir = "decrypt" THEN Block * (m \div Block) ELSE m

(* The length of what comes out, in blocks and pieces.                     *)
LEMMA TextLenIs ==
  ASSUME NEW mode, NEW dir, NEW m \in Nat
  PROVE  LET n == TextLen(mode, dir, m)
             q == m \div Block
         IN /\ n \in Nat /\ n \div Block = q
            /\ mode # "cbc" => n = m
            /\ PieceCount(n) \in Nat /\ PieceCount(n) <= PieceCount(m)
            /\ PieceCount(n) = IF m = Block * q \/ (mode = "cbc" /\ dir = "decrypt") THEN q ELSE q + 1
            /\ \A j \in 1 .. PieceCount(n) : PieceLen(n, j) = PieceLen(m, j)
            /\ n = IF m = Block * q \/ (mode = "cbc" /\ dir = "decrypt") THEN Block * q ELSE m
<1> DEFINE n == TextLen(mode, dir, m)
           q == m \div Block
<1>1. q \in Nat /\ Block * q \in Nat
  BY InBlocks
<1>2. PieceCount(m) \in Nat /\ PieceCount(m) = IF m = Block * q THEN q ELSE q + 1
  BY PiecesCounted
<1>3. (Block * q) \div Block = q /\ PieceCount(Block * q) = q
  BY <1>1, CountOfJoin
<1>4. n = (IF mode = "cbc" /\ dir = "decrypt" THEN Block * q ELSE m)
  BY DEF TextLen
<1> HIDE DEF n
<1>5. n = m \/ n = Block * q
  BY <1>4
<1>6. n \in Nat /\ n \div Block = q
  BY <1>1, <1>3, <1>5
<1>7. PieceCount(n) \in Nat /\ PieceCount(n) <= PieceCount(m)
  BY <1>1, <1>2, <1>3, <1>5
<1>8. PieceCount(n) = IF m = Block * q \/ (mode = "cbc" /\ dir = "decrypt") THEN q ELSE q + 1
  BY <1>2, <1>3, <1>4
<1>9. ASSUME NEW j \in 1 .. PieceCount(n) PROVE PieceLen(n, j) = PieceLen(m, j)
  <2>1. CASE n = m
    BY <2>1
  <2>2. CASE n = Block * q
    <3>1. j \in 1 .. q
      BY <1>3, <2>2
    <3>2. j <= n \div Block /\ j <= m \div Block /\ j \in 1 .. PieceCount(m)
      BY <1>1, <1>2, <1>6, <3>1
    <3>3. PieceLen(n, j) = Block
      BY <1>6, <1>9, <3>2, PieceWithin
    <3>4. PieceLen(m, j) = Block
      BY <3>2, PieceWithin
    <3> QED BY <3>3, <3>4
  <2> QED BY <1>5, <2>1, <2>2
<1>10. n = IF m = Block * q \/ (mode = "cbc" /\ dir = "decrypt") THEN Block * q ELSE m
  BY <1>4
<1> QED BY <1>4, <1>6, <1>7, <1>8, <1>9, <1>10 DEF n

(* The caller's bytes as a text.                                           *)
LEMMA RawIsLong ==
  ASSUME NEW x, NEW m, RawBytes(x, m)
  PROVE  /\ Long(x, m) /\ m \in Nat /\ Len(x) = m
         /\ Blocks(x) = m \div Block /\ m \div Block \in Nat
         /\ Remainder(x) = <<>> <=> m = Block * (m \div Block)
<1>1. Long(x, m)
  BY DEF RawBytes
<1>2. /\ m \in Nat /\ Len(x) = m /\ Blocks(x) = m \div Block /\ Blocks(x) \in Nat
      /\ Remainder(x) = <<>> <=> m = Block * Blocks(x)
  BY <1>1, WholeAndRest
<1> QED BY <1>1, <1>2

(* Each piece of what a call writes is the mode's, chained from the block  *)
(* the kernel has come to.                                                 *)
LEMMA ModeTextPieces ==
  ASSUME NEW mode \in Modes, NEW dir \in Directions, NEW k, NEW c, ChainBlock(c),
         NEW x, NEW m, RawBytes(x, m), NEW y, y = ModeText(mode, dir, k, c, x).out,
         NEW at, at = Chain(mode, dir, k, c, x), NEW n, n = TextLen(mode, dir, m)
  PROVE  /\ Long(y, n)
         /\ \A j \in 1 .. PieceCount(n) :
              /\ ChainBlock(at[j - 1])
              /\ RawBytes(Piece(x, j), PieceLen(m, j)) /\ PieceLen(m, j) \in 1 .. Block
              /\ Piece(y, j) = ModeBlock(mode, dir, k, at[j - 1], Piece(x, j)).out
<1> DEFINE q == m \div Block
           even == Remainder(x) = <<>> \/ (mode = "cbc" /\ dir = "decrypt")
           ys == [j \in 1 .. (IF even THEN q ELSE q + 1) |->
                    ModeBlock(mode, dir, k, at[j - 1], Piece(x, j)).out]
<1>1. /\ Long(x, m) /\ m \in Nat /\ q \in Nat /\ Blocks(x) = q /\ Len(x) = m
      /\ Remainder(x) = <<>> <=> m = Block * q
  BY RawIsLong
<1>2. /\ n \in Nat /\ PieceCount(n) \in Nat /\ PieceCount(n) <= PieceCount(m)
      /\ PieceCount(n) = IF even THEN q ELSE q + 1
      /\ \A j \in 1 .. PieceCount(n) : PieceLen(n, j) = PieceLen(m, j)
      /\ n = IF even THEN Block * q ELSE m
  <2>1. even <=> (m = Block * q \/ (mode = "cbc" /\ dir = "decrypt"))
    BY <1>1
  <2> HIDE DEF even
  <2> QED BY <1>1, <2>1, TextLenIs
<1>3. y = Joined(ys, n)
  BY <1>1, <1>2 DEF ModeText, Chained
<1>4. \A j \in 0 .. q : ChainBlock(at[j])
  BY ChainIsGood
<1>5. ys = [j \in 1 .. PieceCount(n) |-> ModeBlock(mode, dir, k, at[j - 1], Piece(x, j)).out]
  BY <1>2
<1> HIDE DEF ys, even
<1>6. ASSUME NEW j \in 1 .. PieceCount(n)
      PROVE  /\ ChainBlock(at[j - 1])
             /\ RawBytes(Piece(x, j), PieceLen(m, j)) /\ PieceLen(m, j) \in 1 .. Block
             /\ ys[j] = ModeBlock(mode, dir, k, at[j - 1], Piece(x, j)).out
             /\ Long(ys[j], PieceLen(n, j))
  <2>1. j \in 1 .. PieceCount(m) /\ j - 1 \in 0 .. q
    <3>1. PieceCount(m) \in Nat
      BY <1>1, PiecesCounted
    <3>2. PieceCount(n) = q \/ PieceCount(n) = q + 1
      BY <1>2
    <3> HIDE DEF q
    <3> QED BY <1>1, <1>2, <3>1, <3>2
  <2>2. ChainBlock(at[j - 1])
    BY <1>4, <2>1
  <2>3. RawBytes(Piece(x, j), PieceLen(m, j)) /\ PieceLen(m, j) \in 1 .. Block
    BY <2>1, RawPiece
  <2>4. ys[j] = ModeBlock(mode, dir, k, at[j - 1], Piece(x, j)).out
    BY <1>5
  <2> DEFINE r == ModeBlock(mode, dir, k, at[j - 1], Piece(x, j))
  <2>5. BlockDone(mode, dir, k, at[j - 1], Piece(x, j), PieceLen(m, j), r)
    BY <2>2, <2>3, ModeBlockIs
  <2> QED BY <1>2, <2>2, <2>3, <2>4, <2>5 DEF BlockDone
<1>7. Long(y, n) /\ \A j \in 1 .. PieceCount(n) : Piece(y, j) = ys[j]
  BY <1>2, <1>3, <1>6, JoinedIs
<1> QED BY <1>6, <1>7

(* A block of what is written, and what is chained from it.                *)
LEMMA ModeTextBlock ==
  ASSUME NEW mode \in Modes, NEW dir \in Directions, NEW k, NEW c, ChainBlock(c),
         NEW x, NEW m, RawBytes(x, m), NEW y, y = ModeText(mode, dir, k, c, x).out,
         NEW at, at = Chain(mode, dir, k, c, x), NEW j \in 1 .. (m \div Block)
  PROVE  /\ mode = "ctr" => at[j] = Counted(at[j - 1], 1)
         /\ mode = "ofb" => at[j] = Encipher(k, at[j - 1])
         /\ mode \in {"cbc", "cfb"} => at[j] = Piece(CodedOf(dir, x, y), j)
<1> DEFINE n == TextLen(mode, dir, m)
           r == ModeBlock(mode, dir, k, at[j - 1], Piece(x, j))
<1>1. Long(x, m) /\ m \in Nat /\ Blocks(x) = m \div Block /\ m \div Block \in Nat
  BY RawIsLong
<1>2. j \in 1 .. PieceCount(n)
  <2>1. PieceCount(n) \in Nat /\ (PieceCount(n) = m \div Block \/ PieceCount(n) = m \div Block + 1)
    BY <1>1, TextLenIs
  <2> HIDE DEF n
  <2> QED BY <1>1, <2>1
<1>3. /\ ChainBlock(at[j - 1])
      /\ RawBytes(Piece(x, j), PieceLen(m, j)) /\ PieceLen(m, j) \in 1 .. Block
      /\ Piece(y, j) = r.out
  <2>1. \A i \in 1 .. PieceCount(n) :
          /\ ChainBlock(at[i - 1])
          /\ RawBytes(Piece(x, i), PieceLen(m, i)) /\ PieceLen(m, i) \in 1 .. Block
          /\ Piece(y, i) = ModeBlock(mode, dir, k, at[i - 1], Piece(x, i)).out
    BY ModeTextPieces
  <2> QED BY <1>2, <2>1
<1>4. BlockAt(x, j) = Piece(x, j) /\ PieceLen(m, j) = Block
  BY <1>1, BlockOfText
<1>5. at[j] = r.next
  BY <1>1, <1>4, ChainIs
<1> DEFINE z == Piece(x, j)
           b == at[j - 1]
<1>6. ChainBlock(b) /\ RawBytes(z, Block) /\ Block \in 1 .. Block /\ r = ModeBlock(mode, dir, k, b, z)
  BY <1>3, <1>4
<1> HIDE DEF r, z, b
<1>7. /\ mode = "ctr" => r.next = Counted(b, 1)
      /\ mode = "ofb" => r.next = Encipher(k, b)
      /\ mode \in {"cbc", "cfb"} => r.next = CodedOf(dir, z, r.out)
  <2>1. BlockDone(mode, dir, k, b, z, Block, r)
    BY <1>6, ModeBlockIs
  <2> QED BY <2>1 DEF BlockDone
<1>8. CodedOf(dir, z, r.out) = Piece(CodedOf(dir, x, y), j)
  BY <1>3 DEF CodedOf, z
<1> QED BY <1>5, <1>7, <1>8 DEF b

(* The chaining blocks of a call are the mode's.                           *)
LEMMA ChainIsChainAt ==
  ASSUME NEW mode \in Modes, NEW dir \in Directions, NEW k, NEW c, ChainStart(mode, c),
         NEW x, NEW m, RawBytes(x, m), NEW y, y = ModeText(mode, dir, k, c, x).out,
         NEW at, at = Chain(mode, dir, k, c, x)
  PROVE  \A j \in 0 .. (m \div Block) : at[j] = ChainAt(mode, k, c, CodedOf(dir, x, y), j)
<1> DEFINE q == m \div Block
           z == CodedOf(dir, x, y)
<1>1. Long(x, m) /\ m \in Nat /\ Blocks(x) = q /\ q \in Nat
  BY RawIsLong
<1>2. ChainBlock(c) /\ at[0] = c
  BY <1>1, ChainIs DEF ChainStart
<1>3. \A j \in 1 .. q :
        /\ mode = "ctr" => at[j] = Counted(at[j - 1], 1)
        /\ mode = "ofb" => at[j] = Encipher(k, at[j - 1])
        /\ mode \in {"cbc", "cfb"} => at[j] = Piece(z, j)
  BY <1>2, ModeTextBlock
<1> HIDE DEF z, q
<1>4. CASE mode \in {"cbc", "cfb"}
  <2> SUFFICES ASSUME NEW j \in 0 .. q PROVE at[j] = ChainAt(mode, k, c, z, j)
    BY DEF q, z
  <2>1. CASE j = 0
    BY <1>2, <1>4, <2>1 DEF ChainAt
  <2>2. CASE j # 0
    <3>1. j \in 1 .. q
      BY <1>1, <2>2
    <3> QED BY <1>3, <1>4, <2>2, <3>1 DEF ChainAt
  <2> QED BY <2>1, <2>2
<1>5. CASE mode = "ctr"
  <2>1. PICK v : \E n \in Nat : c = CounterBlock(v, n)
    BY <1>5 DEF ChainStart
  <2>2. PICK n \in Nat : c = CounterBlock(v, n)
    BY <2>1
  <2> DEFINE T == {j \in Nat : at[j] = CounterBlock(v, n + j)}
  <2>3. 0 \in T
    BY <1>2, <2>2
  <2>4. ASSUME NEW j \in 0 .. q - 1, j \in T PROVE j + 1 \in T
    <3>1. j + 1 \in 1 .. q /\ (j + 1) - 1 = j /\ j + 1 \in Nat /\ n + j \in Nat /\ (n + j) + 1 = n + (j + 1)
      BY <1>1
    <3>2. at[j + 1] = Counted(at[j], 1)
      BY <1>3, <1>5, <3>1
    <3>3. at[j] = CounterBlock(v, n + j)
      BY <2>4
    <3>4. Counted(CounterBlock(v, n + j), 1) = CounterBlock(v, (n + j) + 1)
      BY <3>1, CounterIs
    <3> QED BY <3>1, <3>2, <3>3, <3>4
  <2>5. 0 .. q \subseteq T
    <3> HIDE DEF T
    <3> QED BY <1>1, <2>3, <2>4, ByInduction
  <2>6. ASSUME NEW j \in 0 .. q PROVE at[j] = ChainAt(mode, k, c, z, j)
    <3>1. j \in Nat
      BY <1>1
    <3>2. at[j] = CounterBlock(v, n + j)
      BY <2>5
    <3>3. Counted(c, j) = CounterBlock(v, n + j)
      BY <2>2, <3>1, CounterIs
    <3> QED BY <1>5, <3>2, <3>3 DEF ChainAt
  <2> QED BY <2>6 DEF q, z
<1>6. CASE mode = "ofb"
  <2> DEFINE T == {j \in Nat : at[j] = OfbMask(k, c, j)}
  <2>3. 0 \in T
    BY <1>2, OfbMaskIs
  <2>4. ASSUME NEW j \in 0 .. q - 1, j \in T PROVE j + 1 \in T
    <3>1. j + 1 \in 1 .. q /\ (j + 1) - 1 = j /\ j + 1 \in Nat /\ j \in Nat
      BY <1>1
    <3>2. at[j + 1] = Encipher(k, at[j])
      BY <1>3, <1>6, <3>1
    <3>3. at[j] = OfbMask(k, c, j)
      BY <2>4
    <3>4. OfbMask(k, c, j + 1) = Encipher(k, OfbMask(k, c, j))
      BY <3>1, OfbMaskIs
    <3> QED BY <3>1, <3>2, <3>3, <3>4
  <2>5. 0 .. q \subseteq T
    <3> HIDE DEF T
    <3> QED BY <1>1, <2>3, <2>4, ByInduction
  <2>6. ASSUME NEW j \in 0 .. q PROVE at[j] = ChainAt(mode, k, c, z, j)
    BY <1>6, <2>5 DEF ChainAt
  <2> QED BY <2>6 DEF q, z
<1> QED BY <1>4, <1>5, <1>6 DEF Modes

(* A call writes the mode's text from the block it chains from, and leaves *)
(* the block the mode goes on from, if it ends with a block.               *)
LEMMA ModeTextIs ==
  ASSUME NEW mode \in Modes, NEW dir \in Directions, NEW k, NEW c, ChainStart(mode, c),
         NEW x, NEW m, RawBytes(x, m), NEW r, r = ModeText(mode, dir, k, c, x)
  PROVE  /\ Long(r.out, TextLen(mode, dir, m))
         /\ Relates(mode, k, c, PlainOf(dir, x, r.out), CodedOf(dir, x, r.out))
         /\ m = Block * (m \div Block) =>
              r.next = ChainAt(mode, k, c, CodedOf(dir, x, r.out), m \div Block)
<1> DEFINE q == m \div Block
           n == TextLen(mode, dir, m)
           at == Chain(mode, dir, k, c, x)
           p == PlainOf(dir, x, r.out)
           z == CodedOf(dir, x, r.out)
<1>1. /\ Long(x, m) /\ m \in Nat /\ Blocks(x) = q /\ q \in Nat
      /\ Remainder(x) = <<>> <=> m = Block * q
  BY RawIsLong
<1>2. ChainBlock(c)
  BY DEF ChainStart
<1>3. /\ Long(r.out, n)
      /\ \A j \in 1 .. PieceCount(n) :
           /\ ChainBlock(at[j - 1])
           /\ RawBytes(Piece(x, j), PieceLen(m, j)) /\ PieceLen(m, j) \in 1 .. Block
           /\ Piece(r.out, j) = ModeBlock(mode, dir, k, at[j - 1], Piece(x, j)).out
  BY <1>2, ModeTextPieces
<1>4. \A j \in 0 .. q : at[j] = ChainAt(mode, k, c, z, j)
  BY ChainIsChainAt
<1>5. /\ n \in Nat /\ n \div Block = q /\ (mode # "cbc" => n = m)
      /\ PieceCount(n) \in Nat
      /\ PieceCount(n) = q \/ PieceCount(n) = q + 1
  BY <1>1, TextLenIs
<1>6. dir = "encrypt" \/ dir = "decrypt"
  BY DEF Directions
<1> HIDE DEF n, at
<1>7. ASSUME NEW j \in 1 .. Related(mode, m)
      PROVE  Coupled(mode, k, ChainAt(mode, k, c, z, j - 1), Piece(p, j), Piece(z, j))
  <2>1. j \in 1 .. PieceCount(n) /\ j - 1 \in 0 .. q
    <3>1. CASE mode \in WholeBlockModes
      BY <1>1, <1>5, <3>1 DEF Related
    <3>2. CASE mode \notin WholeBlockModes
      BY <1>1, <1>5, <3>2 DEF Related, WholeBlockModes
    <3> QED BY <3>1, <3>2
  <2> DEFINE u == Piece(x, j)
             b == at[j - 1]
             w == ModeBlock(mode, dir, k, b, u)
             l == PieceLen(m, j)
  <2>2. ChainBlock(b) /\ RawBytes(u, l) /\ l \in 1 .. Block /\ Piece(r.out, j) = w.out
    BY <1>3, <2>1
  <2>3. mode \in WholeBlockModes => l = Block
    <3>1. mode \in WholeBlockModes => j \in 1 .. q
      BY DEF Related
    <3>2. j \in 1 .. q => PieceLen(m, j) = Block
      BY <1>1, BlockOfText
    <3> QED BY <3>1, <3>2
  <2>4. b = ChainAt(mode, k, c, z, j - 1)
    BY <1>4, <2>1
  <2> HIDE DEF u, b, l
  <2>5. BlockDone(mode, dir, k, b, u, l, w)
    BY <2>2, ModeBlockIs
  <2>5a. Coupled(mode, k, b, PlainOf(dir, u, w.out), CodedOf(dir, u, w.out))
    BY <2>3, <2>5 DEF BlockDone
  <2>6. PlainOf(dir, u, w.out) = Piece(p, j) /\ CodedOf(dir, u, w.out) = Piece(z, j)
    BY <2>2 DEF PlainOf, CodedOf, u
  <2> QED BY <2>4, <2>5a, <2>6
<1>8. Relates(mode, k, c, p, z)
  <2>1. CASE dir = "encrypt"
    <3>1. Long(p, m) /\ Long(z, n) /\ m \div Block = n \div Block
      BY <1>1, <1>3, <1>5, <2>1 DEF PlainOf, CodedOf
    <3>2. Related(mode, n) = Related(mode, m)
      BY <1>5 DEF Related, WholeBlockModes
    <3> HIDE DEF p, z
    <3> QED BY <1>7, <3>1, <3>2, RelatesIs
  <2>2. CASE dir = "decrypt"
    <3>1. Long(p, n) /\ Long(z, m) /\ n \div Block = m \div Block
      BY <1>1, <1>3, <1>5, <2>2 DEF PlainOf, CodedOf
    <3> HIDE DEF p, z
    <3> QED BY <1>7, <3>1, RelatesIs
  <2> QED BY <1>6, <2>1, <2>2
<1>9. ASSUME m = Block * q PROVE r.next = ChainAt(mode, k, c, z, q)
  <2>1. Remainder(x) = <<>>
    BY <1>1, <1>9
  <2>2. r.next = at[q]
    BY <1>1, <2>1 DEF ModeText, Chained, at
  <2>3. q \in 0 .. q
    BY <1>1
  <2> QED BY <1>4, <2>2, <2>3
<1> QED BY <1>3, <1>8, <1>9 DEF n

(* The block a call leaves is one to chain from.                           *)
LEMMA ModeTextGoesOn ==
  ASSUME NEW mode \in Modes, NEW dir \in Directions, NEW k, NEW c, ChainStart(mode, c),
         NEW x, NEW m, RawBytes(x, m), m = Block * (m \div Block),
         NEW r, r = ModeText(mode, dir, k, c, x)
  PROVE  ChainStart(mode, r.next)
<1> DEFINE q == m \div Block
           at == Chain(mode, dir, k, c, x)
           z == CodedOf(dir, x, r.out)
<1>1. Long(x, m) /\ m \in Nat /\ Blocks(x) = q /\ q \in Nat /\ Remainder(x) = <<>>
  BY RawIsLong
<1>2. r.next = at[q]
  BY <1>1 DEF ModeText, Chained, at
<1>3. q \in 0 .. q /\ ChainBlock(c)
  BY <1>1 DEF ChainStart
<1>4. ChainBlock(at[q])
  BY <1>3, ChainIsGood
<1>5. at[q] = ChainAt(mode, k, c, z, q)
  BY <1>3, ChainIsChainAt
<1>6. ASSUME mode = "ctr" PROVE \E v : \E n \in Nat : at[q] = CounterBlock(v, n)
  <2>1. PICK v : \E n \in Nat : c = CounterBlock(v, n)
    BY <1>6 DEF ChainStart
  <2>2. PICK n \in Nat : c = CounterBlock(v, n)
    BY <2>1
  <2> HIDE DEF at, z, q
  <2>3. at[q] = Counted(c, q)
    BY <1>5, <1>6 DEF ChainAt
  <2>4. Counted(c, q) = CounterBlock(v, n + q)
    BY <1>1, <2>2, CounterIs
  <2>5. n + q \in Nat
    BY <1>1
  <2> QED BY <2>3, <2>4, <2>5
<1> HIDE DEF at
<1> QED BY <1>2, <1>4, <1>6 DEF ChainStart

(* Chaining from where a text of whole blocks ends.                        *)
LEMMA ChainAtFront ==
  ASSUME NEW mode, NEW k, NEW iv, NEW a \in Nat, NEW c, Long(c, Block * a),
         NEW d, NEW n, Long(d, n), NEW j \in 0 .. a
  PROVE  ChainAt(mode, k, iv, c \o d, j) = ChainAt(mode, k, iv, c, j)
<1>1. CASE j = 0
  BY <1>1 DEF ChainAt
<1>2. CASE j # 0
  <2>1. j \in 1 .. a
    BY <1>2
  <2>2. Piece(c \o d, j) = Piece(c, j)
    BY <2>1, PieceOfFront
  <2> QED BY <2>2 DEF ChainAt
<1> QED BY <1>1, <1>2

\* Block j after the chaining of c is block a + j of c with d behind it.
ChainsOn(mode, k, iv, a, c, d, j) ==
  ChainAt(mode, k, iv, c \o d, a + j) = ChainAt(mode, k, ChainAt(mode, k, iv, c, a), d, j)

(* The chaining of a text behind whole blocks goes on from theirs.         *)
LEMMA ChainAtBehind ==
  ASSUME NEW mode, mode # "ofb", NEW k, NEW iv, ChainStart(mode, iv),
         NEW a \in Nat, NEW c, Long(c, Block * a),
         NEW d, NEW n \in Nat, Long(d, n),
         NEW j \in Nat, j <= n \div Block
  PROVE  ChainsOn(mode, k, iv, a, c, d, j)
<1> SUFFICES ChainAt(mode, k, iv, c \o d, a + j) =
               ChainAt(mode, k, ChainAt(mode, k, iv, c, a), d, j)
  BY DEF ChainsOn
<1>0. n \in Nat /\ n \div Block \in Nat /\ j \in Nat
  <2>1. n \in Nat /\ n \div Block \in Nat
    BY InBlocks DEF Long
  <2> QED BY <2>1
<1>1. CASE mode = "ctr"
  <2>1. PICK v : \E l \in Nat : iv = CounterBlock(v, l)
    BY <1>1 DEF ChainStart
  <2>2. PICK l \in Nat : iv = CounterBlock(v, l)
    BY <2>1
  <2>3. Counted(iv, a + j) = CounterBlock(v, l + (a + j)) /\ Counted(iv, a) = CounterBlock(v, l + a)
    BY <1>0, <2>2, CounterIs
  <2>4. Counted(CounterBlock(v, l + a), j) = CounterBlock(v, (l + a) + j)
    <3>1. l + a \in Nat
      OBVIOUS
    <3> QED BY <1>0, <3>1, CounterIs
  <2>5. (l + a) + j = l + (a + j)
    BY <1>0
  <2> QED BY <1>1, <2>3, <2>4, <2>5 DEF ChainAt
<1>2. CASE mode # "ctr"
  <2>1. \A iw, e, i : ChainAt(mode, k, iw, e, i) = IF i = 0 THEN iw ELSE Piece(e, i)
    BY <1>2 DEF ChainAt
  <2>2. CASE j = 0
    <3>1. a + j = a /\ a \in 0 .. a
      BY <2>2
    <3>2. ChainAt(mode, k, iv, c \o d, a) = ChainAt(mode, k, iv, c, a)
      BY <3>1, ChainAtFront
    <3> QED BY <2>1, <2>2, <3>1, <3>2
  <2>3. CASE j # 0
    <3>1. a + j # 0 /\ j \in 1 .. (n \div Block)
      BY <1>0, <2>3
    <3>2. j \in 1 .. PieceCount(n)
      BY <3>1, BlockOfText
    <3>3. Piece(c \o d, a + j) = Piece(d, j)
      BY <3>2, PieceOfBehind
    <3> QED BY <2>1, <2>3, <3>1, <3>3
  <2> QED BY <2>2, <2>3
<1> QED BY <1>1, <1>2

(* Two texts of which the second is chained from the first are one.        *)
LEMMA RelatesJoin ==
  ASSUME NEW mode \in Modes \ {"ofb"}, NEW k, NEW iv, ChainStart(mode, iv),
         NEW a \in Nat, NEW p, Long(p, Block * a), NEW c, Long(c, Block * a),
         Relates(mode, k, iv, p, c),
         NEW e, NEW n, Long(e, n), NEW d, Long(d, n),
         Relates(mode, k, ChainAt(mode, k, iv, c, a), e, d)
  PROVE  Relates(mode, k, iv, p \o e, c \o d)
<1> DEFINE w == Block * a
           jv == ChainAt(mode, k, iv, c, a)
           pe == p \o e
           cd == c \o d
<1>0. n \in Nat /\ mode \in Modes /\ mode # "ofb"
  BY DEF Long
<1>1. /\ w \in Nat /\ w + n \in Nat /\ (w + n) \div Block = a + n \div Block
      /\ PieceCount(w + n) = a + PieceCount(n) /\ w \div Block = a /\ PieceCount(w) = a
  BY <1>0, CountOfJoin
<1>2. n \div Block \in Nat /\ PieceCount(n) \in Nat
      /\ (PieceCount(n) = n \div Block \/ PieceCount(n) = n \div Block + 1)
  BY <1>0, InBlocks, PiecesCounted
<1>3. Long(pe, w + n) /\ Long(cd, w + n)
  <2>1. Joins(pe, p, w, e, n) /\ Joins(cd, c, w, d, n)
    BY TextJoin
  <2> QED BY <2>1 DEF Joins
<1>4. Related(mode, w + n) = a + Related(mode, n) /\ Related(mode, w) = a
      /\ Related(mode, n) \in Nat /\ Related(mode, n) <= PieceCount(n)
  BY <1>1, <1>2 DEF Related
<1>5. \A j \in 1 .. a : Coupled(mode, k, ChainAt(mode, k, iv, c, j - 1), Piece(p, j), Piece(c, j))
  <2>1. Long(p, w) /\ Long(c, w)
    OBVIOUS
  <2> HIDE DEF w
  <2> QED BY <1>0, <1>4, <2>1, RelatesIs
<1>6. \A j \in 1 .. Related(mode, n) :
        Coupled(mode, k, ChainAt(mode, k, jv, d, j - 1), Piece(e, j), Piece(d, j))
  <2> HIDE DEF jv
  <2>1. Relates(mode, k, jv, e, d)
    BY DEF jv
  <2> QED BY <1>0, <2>1, RelatesIs
<1>7. ASSUME NEW j \in 1 .. Related(mode, w + n)
      PROVE  Coupled(mode, k, ChainAt(mode, k, iv, cd, j - 1), Piece(pe, j), Piece(cd, j))
  <2>1. CASE j <= a
    <3>1. j \in 1 .. a /\ j - 1 \in 0 .. a
      BY <1>4, <2>1
    <3>2. Piece(pe, j) = Piece(p, j) /\ Piece(cd, j) = Piece(c, j)
      BY <3>1, PieceOfFront
    <3>3. ChainAt(mode, k, iv, cd, j - 1) = ChainAt(mode, k, iv, c, j - 1)
      BY <3>1, ChainAtFront
    <3> QED BY <1>5, <3>1, <3>2, <3>3
  <2>2. CASE j > a
    <3> DEFINE i == j - a
    <3>1. i \in 1 .. Related(mode, n) /\ a + i = j /\ j - 1 = a + (i - 1)
      BY <1>4, <2>2
    <3>2. i \in 1 .. PieceCount(n) /\ i - 1 \in 0 .. (n \div Block)
      <4> HIDE DEF i
      <4> QED BY <1>2, <1>4, <3>1
    <3> HIDE DEF i
    <3>3. Piece(pe, a + i) = Piece(e, i) /\ Piece(cd, a + i) = Piece(d, i)
      BY <3>2, PieceOfBehind
    <3>4. ChainAt(mode, k, iv, cd, a + (i - 1)) = ChainAt(mode, k, jv, d, i - 1)
      <4> DEFINE u == i - 1
      <4>1. u \in Nat /\ u <= n \div Block
        BY <1>2, <3>2
      <4> HIDE DEF u
      <4>2. ChainAt(mode, k, iv, c \o d, a + u) =
              ChainAt(mode, k, ChainAt(mode, k, iv, c, a), d, u)
        <5>1. ChainsOn(mode, k, iv, a, c, d, u)
          BY <1>0, <4>1, ChainAtBehind
        <5> QED BY <5>1 DEF ChainsOn
      <4> QED BY <4>2 DEF u
    <3>5. Coupled(mode, k, ChainAt(mode, k, jv, d, i - 1), Piece(e, i), Piece(d, i))
      BY <1>6, <3>1
    <3> HIDE DEF pe, cd, jv
    <3> QED BY <3>1, <3>3, <3>4, <3>5
  <2> QED BY <1>1, <1>4, <2>1, <2>2
<1>8. Relates(mode, k, iv, pe, cd)
  <2> HIDE DEF pe, cd, w
  <2> QED BY <1>0, <1>3, <1>7, RelatesIs
<1> QED BY <1>8

(* Only whole blocks count in CBC.                                         *)
LEMMA CbcWholeOnly ==
  ASSUME NEW k, NEW iv, NEW p, NEW a, Long(p, a), NEW c, NEW n, Long(c, n), NEW q \in Nat,
         a \div Block = q, n \div Block = q,
         Relates("cbc", k, iv, First(p, Block * q), First(c, Block * q))
  PROVE  Relates("cbc", k, iv, p, c)
<1> DEFINE w == Block * q
           mode == "cbc"
           First1(x) == First(x, w)
<1>1. ASSUME NEW x, NEW m, Long(x, m), m \div Block = q
      PROVE  /\ Long(First(x, w), w) /\ \A j \in 1 .. q : Piece(First(x, w), j) = Piece(x, j)
  <2>1. Blocks(x) = q /\ w \in Nat /\ w <= m /\ Long(Remainder(x), m - w)
        /\ Remainder(x) = Cut(x, w, m - w) /\ m \in Nat
    BY <1>1, WholeAndRest
  <2>2. First(x, w) = Cut(x, 0, w)
    BY <2>1, FirstIsCut
  <2> HIDE DEF w
  <2>3. 0 + w <= m /\ 0 + w = w /\ m - w \in Nat /\ 0 + w + (m - w) <= m /\ w + (m - w) = m /\ 0 \in Nat
    BY <2>1
  <2>4. Long(First(x, w), w)
    BY <2>1, <2>2, <2>3, <1>1, CutIs
  <2>5. Cut(x, 0, w) \o Cut(x, w, m - w) = Cut(x, 0, w + (m - w))
    <3> DEFINE l == m - w
    <3>1. w \in Nat /\ l \in Nat /\ w + l <= m
      BY <2>1, <2>3
    <3> HIDE DEF l
    <3>2. Cut(x, 0, w) \o Cut(x, w, l) = Cut(x, 0, w + l)
      BY <1>1, <3>1, CutsJoinFront
    <3> QED BY <3>2 DEF l
  <2>6. x = First(x, w) \o Remainder(x)
    BY <1>1, <2>1, <2>2, <2>3, <2>5, CutAll
  <2> DEFINE f == First(x, w)
             r == Remainder(x)
  <2>7. Long(f, Block * q) /\ Long(r, m - w) /\ x = f \o r
    BY <2>1, <2>4, <2>6 DEF w
  <2> HIDE DEF f, r
  <2>8. \A j \in 1 .. q : Piece(f \o r, j) = Piece(f, j)
    BY <2>7, PieceOfFront
  <2> QED BY <2>4, <2>7, <2>8 DEF f
<1>2. w \in Nat /\ w \div Block = q
  BY CountOfJoin, BlockMultiple
<1> DEFINE f == First(p, w)
           g == First(c, w)
<1>3. Long(f, w) /\ Long(g, w) /\ (\A j \in 1 .. q : Piece(f, j) = Piece(p, j))
      /\ \A j \in 1 .. q : Piece(g, j) = Piece(c, j)
  BY <1>1
<1>4. Relates(mode, k, iv, f, g) /\ mode \in Modes
  BY DEF Modes
<1> HIDE DEF f, g, w
<1>5. Related(mode, w) = q /\ Related(mode, n) = q
  BY <1>2 DEF Related, WholeBlockModes
<1> HIDE DEF mode
<1>6. \A j \in 1 .. q : Coupled(mode, k, ChainAt(mode, k, iv, g, j - 1), Piece(f, j), Piece(g, j))
  BY <1>2, <1>3, <1>4, <1>5, RelatesIs
<1>7. ASSUME NEW j \in 1 .. q
      PROVE  Coupled(mode, k, ChainAt(mode, k, iv, c, j - 1), Piece(p, j), Piece(c, j))
  <2>1. j - 1 = 0 \/ j - 1 \in 1 .. q
    OBVIOUS
  <2>2. ChainAt(mode, k, iv, c, j - 1) = ChainAt(mode, k, iv, g, j - 1)
    BY <1>3, <2>1 DEF ChainAt
  <2> QED BY <1>3, <1>6, <2>2
<1>8. Relates(mode, k, iv, p, c)
  BY <1>4, <1>5, <1>7, RelatesIs
<1> QED BY <1>8 DEF mode

-----------------------------------------------------------------------------
(* XTS.                                                                    *)

\* A tweak of the class.
TweakShaped(t) == DOMAIN t = {"key", "iv", "n"} /\ t.n \in Nat

(* Advancing the tweak moves its block number.                             *)
LEMMA TweakIs ==
  ASSUME NEW t, TweakShaped(t), NEW n \in Int, NEW k, NEW v, t.key = k, t.iv = v
  PROVE  TweakBlock([t EXCEPT !.n = @ + n]) = TweakBlock([key |-> k, iv |-> v, n |-> t.n + n])
<1> DEFINE u == [t EXCEPT !.n = @ + n]
           w == [key |-> k, iv |-> v, n |-> t.n + n]
<1>1. u.key = k /\ u.iv = v /\ u.n = t.n + n
  BY DEF TweakShaped
<1>2. w.key = k /\ w.iv = v /\ w.n = t.n + n
  OBVIOUS
<1> HIDE DEF u, w
<1>3. TweakBlock(u) = TweakBlock(w)
  BY <1>1, <1>2, Zenon DEF TweakBlock
<1> QED BY <1>3 DEF u, w

(* A tweak block is no image of the cipher.                                *)
LEMMA TweakFree ==
  ASSUME NEW t
  PROVE  /\ Long(TweakBlock(t), Block)
         /\ Free(TweakBlock(t), "enc") /\ Free(TweakBlock(t), "dec")
<1>1. Block \in Nat /\ 1 \in 1 .. Block
  BY BlockIs
<1>2. Long(TweakBlock(t), Block) /\ TweakBlock(t)[1] = {<<"tweak", t.key, t.iv, t.n, 1>>}
  BY <1>1 DEF TweakBlock, Long
<1>3. \A u \in {<<"tweak", t.key, t.iv, t.n, 1>>} : u[1] = "tweak"
  OBVIOUS
<1> QED BY <1>2, <1>3 DEF Free

(* Enciphering a block is what the standard says; deciphering it is the    *)
(* inverse.                                                                *)
LEMMA XexForth ==
  ASSUME NEW k, NEW v, NEW t, TweakShaped(t), t.key = k, t.iv = v, NEW n \in Int,
         NEW x, Long(x, Block), Free(x, "dec")
  PROVE  /\ XexBlock(k, t, n, x, "encrypt") = Xex(k, v, t.n + n, x)
         /\ Long(Xex(k, v, t.n + n, x), Block)
<1> DEFINE w == TweakBlock([key |-> k, iv |-> v, n |-> t.n + n])
           y == Xor(x, w)
           e == Encipher(k, y)
<1>1. TweakBlock([t EXCEPT !.n = @ + n]) = w
  BY TweakIs
<1>2. Long(w, Block) /\ Free(w, "dec")
  BY TweakFree
<1> HIDE DEF w
<1>3. Long(y, Block) /\ Free(y, "dec")
  BY <1>2, BlockIs, XorIs, XorFree
<1> HIDE DEF y
<1>4. Long(e, Block)
  BY <1>3, EncipherIs
<1> HIDE DEF e
<1>5. Long(Xor(e, w), Block)
  BY <1>4, XorIs
<1>6. XexBlock(k, t, n, x, "encrypt") = Xor(e, w)
  BY <1>1 DEF XexBlock, e, y
<1>7. Xex(k, v, t.n + n, x) = Xor(e, w)
  BY DEF Xex, e, y, w
<1> QED BY <1>5, <1>6, <1>7

(* Deciphering a block undoes the standard's encipherment.                 *)
LEMMA XexBack ==
  ASSUME NEW k, NEW v, NEW t, TweakShaped(t), t.key = k, t.iv = v, NEW n \in Int,
         NEW x, Long(x, Block), Free(x, "enc")
  PROVE  /\ Long(XexBlock(k, t, n, x, "decrypt"), Block)
         /\ Xex(k, v, t.n + n, XexBlock(k, t, n, x, "decrypt")) = x
<1> DEFINE w == TweakBlock([key |-> k, iv |-> v, n |-> t.n + n])
           y == Xor(x, w)
           d == Decipher(k, y)
           z == Xor(d, w)
<1>1. TweakBlock([t EXCEPT !.n = @ + n]) = w
  BY TweakIs
<1>2. Long(w, Block) /\ Free(w, "enc")
  BY TweakFree
<1> HIDE DEF w
<1>3. Long(y, Block) /\ Free(y, "enc") /\ Xor(y, w) = x
  BY <1>2, BlockIs, XorIs, XorFree, XorTwice
<1> HIDE DEF y
<1>4. Long(d, Block) /\ Encipher(k, d) = y
  BY <1>3, DecipherIs
<1> HIDE DEF d
<1>5. Long(z, Block) /\ Xor(z, w) = d
  BY <1>4, XorIs, XorTwice
<1> HIDE DEF z
<1>6. XexBlock(k, t, n, x, "decrypt") = z
  BY <1>1 DEF XexBlock, z, d, y
<1>7. Xex(k, v, t.n + n, z) = Xor(Encipher(k, Xor(z, w)), w)
  BY DEF Xex, w
<1> QED BY <1>3, <1>4, <1>5, <1>6, <1>7

(* A text of at most a block is one piece.                                 *)
LEMMA OnePiece ==
  ASSUME NEW x, NEW n, Long(x, n), n \in 1 .. Block
  PROVE  PieceCount(n) = 1 /\ Piece(x, 1) = x
<1>1. n \in Nat /\ Block \in Nat /\ Block * 0 = 0 /\ Block * 1 = Block /\ n >= 1 /\ n <= Block
  BY BlockIs DEF Long
<1>2. PieceCount(n) = 1
  <2>1. CASE n = Block
    <3>1. Block * 1 <= n /\ n < Block * 1 + Block
      BY <1>1, <2>1, BlockIs
    <3>2. n \div Block = 1
      BY <1>1, <3>1, BlocksUnique
    <3> QED BY <1>1, <2>1, <3>2, PiecesCounted
  <2>2. CASE n # Block
    <3>1. Block * 0 <= n /\ n < Block * 0 + Block /\ 0 \in Nat /\ n # 0
      BY <1>1, <2>2
    <3>2. n \div Block = 0
      BY <1>1, <3>1, BlocksUnique
    <3>3. 0 + 1 = 1
      OBVIOUS
    <3> QED BY <1>1, <3>1, <3>2, <3>3, PiecesCounted
  <2> QED BY <2>1, <2>2
<1>3. 1 \in 1 .. PieceCount(n) /\ 1 - 1 = 0
  BY <1>2
<1>4. PieceLen(n, 1) = n
  <2>1. ~(Block < n) /\ n - 0 = n
    BY <1>1
  <2> QED BY <1>1, <1>3, <2>1 DEF PieceLen
<1>5. Piece(x, 1) = Cut(x, Block * (1 - 1), PieceLen(n, 1))
  BY <1>3, PieceIs
<1> QED BY <1>1, <1>2, <1>3, <1>4, <1>5, CutAll

\* Piece j of y is piece p + j behind x.
PieceMoved(x, y, p, j) == Piece(x \o y, p + j) = Piece(y, j)

(* Pieces keep their bytes behind whole blocks.                            *)
LEMMA PieceBehind ==
  ASSUME NEW p \in Nat, NEW x, Long(x, Block * p), NEW y, NEW n, Long(y, n),
         NEW j \in 1 .. PieceCount(n)
  PROVE  PieceMoved(x, y, p, j)
BY PieceOfBehind DEF PieceMoved

(* Whole blocks, with a block z and a shorter remainder f behind them.     *)
Stolen(y, h, z, f, q, r) ==
  /\ Long(y, Block * q + r) /\ (Block * q + r) \div Block = q
  /\ \A j \in 1 .. q - 1 : BlockAt(y, j) = Piece(h, j)
  /\ BlockAt(y, q) = z /\ Remainder(y) = f

(* A text put together for ciphertext stealing has its parts in their      *)
(* places.                                                                 *)
LEMMA StolenPlaces ==
  ASSUME NEW q \in Nat \ {0}, NEW h, Long(h, Block * (q - 1)), NEW z, Long(z, Block),
         NEW f, NEW r \in 1 .. Block - 1, Long(f, r),
         NEW y, y = h \o (z \o f)
  PROVE  Stolen(y, h, z, f, q, r)
<1> DEFINE a == q - 1
           t == z \o f
           l == Block + r
           m == Block * q + r
<1>1. Block \in Nat /\ Block * 1 = Block /\ r \in Nat /\ l \in Nat /\ a \in Nat /\ q = a + 1 /\ r < Block
      /\ r >= 1 /\ 1 \in Nat
  BY BlockIs
<1>2. Long(t, l)
  BY <1>1, TextJoin DEF Joins
<1>3. m = Block * a + l /\ Block * a \in Nat /\ Block * q = Block * a + Block /\ m \in Nat
  <2>1. Block * q = Block * a + Block /\ Block * a \in Nat
    BY BlockStep
  <2> DEFINE b == Block * a
  <2>2. Block * q = b + Block /\ b \in Nat
    BY <2>1
  <2> HIDE DEF b, a
  <2>3. (b + Block) + r = b + (Block + r) /\ (b + Block) + r \in Nat
    BY <1>1, <2>2
  <2>4. m = (b + Block) + r /\ b + (Block + r) = b + l
    BY <2>2
  <2> HIDE DEF m, l
  <2>5. m = b + l /\ m \in Nat
    BY ONLY <2>3, <2>4
  <2> QED BY <2>2, <2>5 DEF b
<1> HIDE DEF t, l, a
<1>4. Long(y, m)
  <2>1. Long(h, Block * a) /\ y = h \o t
    BY DEF a, t
  <2>2. Joins(h \o t, h, Block * a, t, l)
    BY <1>2, <2>1, TextJoin
  <2> HIDE DEF m
  <2> QED BY <1>3, <2>1, <2>2 DEF Joins
<1>5. m \div Block = q
  <2>1. Block * q <= m /\ m < Block * q + Block /\ q \in Nat /\ Block * q \in Nat
    <3>1. Block * q \in Nat
      BY BlockMultiple
    <3> DEFINE b == Block * q
    <3>2. b \in Nat /\ m = b + r
      BY <3>1
    <3> HIDE DEF b, m
    <3>3. b <= m /\ m < b + Block
      BY <1>1, <3>2
    <3> QED BY <3>1, <3>3 DEF b
  <2> HIDE DEF m
  <2> QED BY <1>3, <2>1, BlocksUnique
<1>6. PieceCount(l) = 2
  <2>1. PieceCount(r) = 1
    BY <1>1, OnePiece
  <2>2. PieceCount(Block * 1 + r) = 1 + PieceCount(r)
    BY <1>1, CountOfJoin
  <2>3. Block * 1 + r = l
    BY <1>1 DEF l
  <2> QED BY <2>1, <2>2, <2>3
<1>7. Piece(t, 1) = z /\ Piece(t, 2) = f
  <2>1. Long(z, Block * 1) /\ Block \in 1 .. Block
    BY <1>1, BlockIs
  <2>2. Piece(z, 1) = z
    BY <2>1, OnePiece
  <2>3. Piece(f, 1) = f /\ PieceCount(r) = 1
    BY <1>1, OnePiece
  <2>4. 1 \in 1 .. 1 /\ 1 \in 1 .. PieceCount(r)
    BY <2>3
  <2>5. Piece(z \o f, 1) = Piece(z, 1)
    <3> DEFINE o == 1
    <3>1. o \in Nat /\ Long(z, Block * o) /\ o \in 1 .. o /\ Long(f, r)
      BY <1>1, <2>1
    <3> HIDE DEF o
    <3>2. Piece(z \o f, o) = Piece(z, o)
      BY <3>1, PieceOfFront
    <3> QED BY <3>2 DEF o
  <2>6. Piece(z \o f, 1 + 1) = Piece(f, 1)
    <3>1. PieceMoved(z, f, 1, 1)
      BY <1>1, <2>1, <2>4, PieceBehind
    <3> QED BY <3>1 DEF PieceMoved
  <2>7. 1 + 1 = 2
    OBVIOUS
  <2> QED BY <2>2, <2>3, <2>5, <2>6, <2>7 DEF t
<1>8. Long(h, Block * a) /\ y = h \o t
  BY DEF a, t
<1>9. \A j \in 1 .. a : BlockAt(y, j) = Piece(h, j)
  <2> TAKE j \in 1 .. a
  <2>1. j \in 1 .. (m \div Block)
    BY <1>1, <1>5
  <2>2. BlockAt(y, j) = Piece(y, j)
    BY <1>4, <2>1, BlockOfText
  <2>3. Piece(y, j) = Piece(h, j)
    BY <1>1, <1>2, <1>8, PieceOfFront
  <2> QED BY <2>2, <2>3
<1>10. Piece(y, a + 1) = z /\ Piece(y, a + 2) = f
  <2>1. 1 \in 1 .. PieceCount(l) /\ 2 \in 1 .. PieceCount(l)
    BY <1>6
  <2>2. Piece(h \o t, a + 1) = Piece(t, 1)
    <3>1. PieceMoved(h, t, a, 1)
      BY <1>1, <1>2, <1>8, <2>1, PieceBehind
    <3> QED BY <3>1 DEF PieceMoved
  <2>3. Piece(h \o t, a + 2) = Piece(t, 2)
    <3>1. PieceMoved(h, t, a, 2)
      BY <1>1, <1>2, <1>8, <2>1, PieceBehind
    <3> QED BY <3>1 DEF PieceMoved
  <2> QED BY <1>7, <1>8, <2>2, <2>3
<1>11. BlockAt(y, q) = z
  <2>1. q \in 1 .. (m \div Block)
    BY <1>5
  <2>2. BlockAt(y, q) = Piece(y, q)
    BY <1>4, <2>1, BlockOfText
  <2> QED BY <1>1, <1>10, <2>2
<1>12. Remainder(y) = f
  <2>1. m # Block * (m \div Block)
    <3>1. m \div Block = q
      BY <1>5
    <3>2. m # Block * q
      <4> DEFINE b == Block * q
      <4>1. b \in Nat /\ m = b + r
        BY BlockMultiple
      <4> HIDE DEF b, m
      <4>2. m # b
        BY <1>1, <4>1
      <4> QED BY <4>2 DEF b
    <3> QED BY <3>1, <3>2
  <2>2. Piece(y, m \div Block + 1) = Remainder(y)
    BY <1>4, <2>1, LastPiece
  <2>3. m \div Block + 1 = a + 2
    BY <1>1, <1>5
  <2> QED BY <1>10, <2>2, <2>3
<1> QED BY <1>4, <1>5, <1>9, <1>11, <1>12 DEF a, m, Stolen

(* In either direction the cipher block is the plain one's, as the         *)
(* standard says.                                                          *)
LEMMA XexBlockIs ==
  ASSUME NEW dir \in Directions, NEW k, NEW v, NEW t, TweakShaped(t), t.key = k, t.iv = v,
         NEW i \in Int, NEW x, Long(x, Block), Free(x, "enc"), Free(x, "dec"),
         NEW y, y = XexBlock(k, t, i, x, dir)
  PROVE  /\ Long(y, Block)
         /\ CodedOf(dir, x, y) = Xex(k, v, t.n + i, PlainOf(dir, x, y))
<1>1. CASE dir = "encrypt"
  <2>1. y = Xex(k, v, t.n + i, x) /\ Long(y, Block)
    BY <1>1, XexForth
  <2>2. CodedOf(dir, x, y) = y /\ PlainOf(dir, x, y) = x
    BY <1>1 DEF CodedOf, PlainOf
  <2> QED BY <2>1, <2>2
<1>2. CASE dir = "decrypt"
  <2>1. Xex(k, v, t.n + i, y) = x /\ Long(y, Block)
    BY <1>2, XexBack
  <2>2. CodedOf(dir, x, y) = x /\ PlainOf(dir, x, y) = y
    BY <1>2 DEF CodedOf, PlainOf
  <2> QED BY <2>1, <2>2
<1> QED BY <1>1, <1>2 DEF Directions

(* A block of the caller's bytes is no image.                              *)
LEMMA RawBlock ==
  ASSUME NEW x, NEW m, RawBytes(x, m), NEW j \in 1 .. (m \div Block)
  PROVE  Long(BlockAt(x, j), Block) /\ Free(BlockAt(x, j), "enc") /\ Free(BlockAt(x, j), "dec")
<1>1. Long(x, m) /\ m \in Nat
  BY RawIsLong
<1>2. j \in 1 .. PieceCount(m) /\ BlockAt(x, j) = Piece(x, j) /\ PieceLen(m, j) = Block
      /\ Long(BlockAt(x, j), Block)
  BY <1>1, BlockOfText
<1>3. RawBytes(Piece(x, j), PieceLen(m, j))
  BY <1>2, RawPiece
<1>4. RawBytes(BlockAt(x, j), Block) /\ Block >= 1
  BY <1>2, <1>3, BlockIs
<1> QED BY <1>2, <1>4, RawFree DEF RawBytes

(* The whole blocks, each under the tweak of its place.                    *)
XtsBlocks(k, t, x, dir, w) ==
  Joined([j \in 1 .. w |-> XexBlock(k, t, j - 1, BlockAt(x, j), dir)], Block * w)

(* The whole blocks of XTS are the standard's, in either direction.        *)
LEMMA XtsBlocksIs ==
  ASSUME NEW dir \in Directions, NEW k, NEW v, NEW t, TweakShaped(t), t.key = k, t.iv = v,
         NEW x, NEW m, RawBytes(x, m), NEW w \in Nat, w <= m \div Block,
         NEW h, h = XtsBlocks(k, t, x, dir, w)
  PROVE  /\ Long(h, Block * w)
         /\ \A j \in 1 .. w :
              CodedOf(dir, BlockAt(x, j), Piece(h, j))
                = Xex(k, v, t.n + (j - 1), PlainOf(dir, BlockAt(x, j), Piece(h, j)))
<1> DEFINE ys == [j \in 1 .. w |-> XexBlock(k, t, j - 1, BlockAt(x, j), dir)]
           n == Block * w
<1>1. n \in Nat /\ n \div Block = w /\ PieceCount(n) = w
  <2>1. 0 \in Nat
    OBVIOUS
  <2> QED BY <2>1, CountOfJoin
<1>2. \A j \in 1 .. w : j \in 1 .. (m \div Block) /\ j - 1 \in Int
  BY RawIsLong
<1>3. \A j \in 1 .. w : ys[j] = XexBlock(k, t, j - 1, BlockAt(x, j), dir)
  OBVIOUS
<1>4. h = Joined(ys, n)
  BY DEF XtsBlocks
<1> HIDE DEF ys, n
<1>5. \A j \in 1 .. w :
        /\ Long(ys[j], Block)
        /\ CodedOf(dir, BlockAt(x, j), ys[j])
             = Xex(k, v, t.n + (j - 1), PlainOf(dir, BlockAt(x, j), ys[j]))
  <2> TAKE j \in 1 .. w
  <2> DEFINE b == BlockAt(x, j)
             y == ys[j]
             i == j - 1
  <2>1. Long(b, Block) /\ Free(b, "enc") /\ Free(b, "dec")
    BY <1>2, RawBlock
  <2>2. y = XexBlock(k, t, i, b, dir) /\ i \in Int
    BY <1>2, <1>3
  <2> HIDE DEF b, y, i
  <2>3. Long(y, Block) /\ CodedOf(dir, b, y) = Xex(k, v, t.n + i, PlainOf(dir, b, y))
    BY <2>1, <2>2, XexBlockIs
  <2> QED BY <2>3 DEF b, y, i
<1>6. \A j \in 1 .. PieceCount(n) : Long(ys[j], PieceLen(n, j))
  <2> TAKE j \in 1 .. PieceCount(n)
  <2>1. j \in 1 .. w /\ j <= n \div Block
    BY <1>1
  <2>2. PieceLen(n, j) = Block
    BY <1>1, <2>1, PieceWithin
  <2> QED BY <1>5, <2>1, <2>2
<1>7. Long(h, n) /\ \A j \in 1 .. w : Piece(h, j) = ys[j]
  BY <1>1, <1>4, <1>6, JoinedIs
<1> QED BY <1>5, <1>7 DEF n

(* What XTS says of a text, the lengths being known.                       *)
XtsWhole(k, v, n, q, p, c) ==
  \A j \in 1 .. q : BlockAt(c, j) = Xex(k, v, n + j - 1, BlockAt(p, j))

\* The last two pieces, when the text does not end with a block.
XtsStolen(k, v, n, q, r, p, c) ==
  LET tail == Xex(k, v, n + q - 1, BlockAt(p, q))
  IN /\ Remainder(c) = First(tail, r)
     /\ BlockAt(c, q) = Xex(k, v, n + q, Remainder(p) \o Rest(tail, r))

(* XtsRelates, told apart by whether the text ends with a block.           *)
LEMMA XtsRelatesIs ==
  ASSUME NEW k, NEW v, NEW n \in Nat, NEW p, NEW m, Long(p, m), NEW c, Long(c, m),
         NEW q \in Nat \ {0}, q = m \div Block
  PROVE  XtsRelates(k, v, n, p, c) <=>
           IF m = Block * q THEN XtsWhole(k, v, n, q, p, c)
           ELSE /\ XtsWhole(k, v, n, q - 1, p, c)
                /\ XtsStolen(k, v, n, q, m - Block * q, p, c)
<1> DEFINE b == Block * q
<1>1. Len(p) = m /\ Len(c) = m /\ Blocks(p) = q /\ m \in Nat /\ b \in Nat
  BY WholeAndRest
<1>2. XtsRelates(k, v, n, p, c) <=>
        /\ XtsWhole(k, v, n, q - 1, p, c)
        /\ IF m - b = 0 THEN BlockAt(c, q) = Xex(k, v, n + q - 1, BlockAt(p, q))
           ELSE XtsStolen(k, v, n, q, m - b, p, c)
  BY <1>1 DEF XtsRelates, XtsWhole, XtsStolen
<1>3. XtsWhole(k, v, n, q, p, c) <=>
        /\ XtsWhole(k, v, n, q - 1, p, c)
        /\ BlockAt(c, q) = Xex(k, v, n + q - 1, BlockAt(p, q))
  <2>1. \A j : j \in 1 .. q <=> j \in 1 .. q - 1 \/ j = q
    OBVIOUS
  <2> QED BY <2>1 DEF XtsWhole
<1>4. m - b = 0 <=> m = b
  <2> HIDE DEF b
  <2> QED BY <1>1
<1> HIDE DEF b
<1>5. CASE m = b
  <2>1. XtsRelates(k, v, n, p, c) <=> XtsWhole(k, v, n, q, p, c)
    BY <1>2, <1>3, <1>4, <1>5
  <2> QED BY <1>5, <2>1 DEF b
<1>6. CASE m # b
  <2>1. XtsRelates(k, v, n, p, c) <=>
          XtsWhole(k, v, n, q - 1, p, c) /\ XtsStolen(k, v, n, q, m - b, p, c)
    BY <1>2, <1>4, <1>6
  <2> QED BY <1>6, <2>1 DEF b
<1> QED BY <1>5, <1>6

(* The bytes in front and behind make the block again.                     *)
LEMMA FrontAndBack ==
  ASSUME NEW y, Long(y, Block), NEW r \in 1 .. Block - 1, NEW x, Long(x, r)
  PROVE  /\ Long(First(y, r), r) /\ Long(Rest(y, r), Block - r)
         /\ First(y, r) \o Rest(y, r) = y
         /\ Long(x \o Rest(y, r), Block)
         /\ First(x \o Rest(y, r), r) = x
         /\ Rest(x \o Rest(y, r), r) = Rest(y, r)
<1> DEFINE g == Block - r
           e == Rest(y, r)
<1>1. r \in Nat /\ g \in Nat /\ r <= Block /\ r + g = Block /\ 0 + r = r /\ 0 \in Nat
      /\ r + 0 = r /\ g <= g /\ 0 + g = g /\ 0 + r + g = Block /\ 0 + r + g <= Block
  BY BlockIs
<1>2. First(y, r) = Cut(y, 0, r) /\ e = Cut(y, r, g)
  BY <1>1, FirstIsCut, RestIsCut
<1>3. Long(First(y, r), r) /\ Long(e, g)
  BY <1>1, <1>2, CutIs
<1>4. First(y, r) \o e = y
  <2>1. Cut(y, 0, r) \o Cut(y, r, g) = Cut(y, 0, r + g)
    <3>1. r \in Nat /\ g \in Nat /\ r + g <= Block
      BY <1>1
    <3> HIDE DEF g
    <3> QED BY <3>1, CutsJoinFront
  <2> QED BY <1>1, <1>2, <2>1, CutAll
<1> HIDE DEF e, g
<1>5. Long(x \o e, Block)
  <2>1. Joins(x \o e, x, r, e, g)
    BY <1>3, TextJoin
  <2> QED BY <1>1, <2>1 DEF Joins
<1>6. First(x \o e, r) = x
  <2>1. Cut(x \o e, 0, r) = Cut(x, 0, r)
    BY <1>1, <1>3, CutOfFront
  <2> QED BY <1>1, <2>1, CutAll, FirstIsCut
<1>7. Rest(x \o e, r) = e
  <2>1. Rest(x \o e, r) = Cut(x \o e, r, g)
    BY <1>1, <1>5, RestIsCut DEF g
  <2>2. Cut(x \o e, r + 0, g) = Cut(e, 0, g)
    BY <1>1, <1>3, CutOfBehind
  <2> QED BY <1>1, <1>3, <2>1, <2>2, CutAll
<1> QED BY <1>3, <1>4, <1>5, <1>6, <1>7 DEF e, g

(* A short piece of a raw text with something behind it is none of the     *)
(* cipher's blocks.                                                        *)
LEMMA RawInFront ==
  ASSUME NEW x, NEW r, RawBytes(x, r), r >= 1, NEW e, NEW g, Long(e, g)
  PROVE  Free(x \o e, "enc") /\ Free(x \o e, "dec")
<1>1. Long(x, r) /\ Free(x, "enc") /\ Free(x, "dec") /\ 1 \in 1 .. r
  BY RawFree DEF RawBytes, Long
<1>2. (x \o e)[1] = x[1]
  <2>1. Joins(x \o e, x, r, e, g)
    BY <1>1, TextJoin
  <2> QED BY <1>1, <2>1 DEF Joins
<1> QED BY <1>1, <1>2 DEF Free

\* y is XTS's text of x from block n on.
XtsDone(k, v, n, dir, x, m, y) ==
  Long(y, m) /\ XtsRelates(k, v, n, PlainOf(dir, x, y), CodedOf(dir, x, y))

(* XTS on whole blocks (aes_xts.cc).                                       *)
LEMMA XtsWholeText ==
  ASSUME NEW dir \in Directions, NEW k, NEW v, NEW t, TweakShaped(t), t.key = k, t.iv = v,
         NEW x, NEW m, RawBytes(x, m), NEW q \in Nat \ {0}, q = m \div Block, m = Block * q,
         NEW y, y = XtsText(k, t, x, dir)
  PROVE  XtsDone(k, v, t.n, dir, x, m, y)
<1> DEFINE h == XtsBlocks(k, t, x, dir, q)
<1>1. Remainder(x) = <<>> /\ Blocks(x) = q /\ Long(x, m) /\ m \in Nat /\ q <= m \div Block /\ q \in Nat
      /\ t.n \in Nat
  BY RawIsLong DEF TweakShaped
<1>2. y = h \o <<>>
  <2>1. XtsText(k, t, x, dir)
          = Joined([j \in 1 .. q |-> XexBlock(k, t, j - 1, BlockAt(x, j), dir)], Block * q) \o <<>>
    BY <1>1 DEF XtsText
  <2> QED BY <2>1 DEF XtsBlocks
<1>3. /\ Long(h, Block * q)
      /\ \A j \in 1 .. q :
           CodedOf(dir, BlockAt(x, j), Piece(h, j))
             = Xex(k, v, t.n + (j - 1), PlainOf(dir, BlockAt(x, j), Piece(h, j)))
  <2> DEFINE w == q
  <2>1. h = XtsBlocks(k, t, x, dir, w) /\ w \in Nat /\ w <= m \div Block
    BY <1>1
  <2> HIDE DEF h, w
  <2>2. /\ Long(h, Block * w)
        /\ \A j \in 1 .. w :
           CodedOf(dir, BlockAt(x, j), Piece(h, j))
             = Xex(k, v, t.n + (j - 1), PlainOf(dir, BlockAt(x, j), Piece(h, j)))
    BY <2>1, XtsBlocksIs
  <2> QED BY <2>2 DEF w
<1> HIDE DEF h
<1>4. y = h /\ Long(y, m)
  BY <1>2, <1>3, JoinEmpty
<1>5. \A j \in 1 .. q : Piece(h, j) = BlockAt(y, j)
  <2> TAKE j \in 1 .. q
  <2>1. j \in 1 .. (m \div Block)
    OBVIOUS
  <2> QED BY <1>4, <2>1, BlockOfText
<1>6. \A j \in 1 .. q : t.n + (j - 1) = t.n + j - 1
  BY <1>1
<1>7. XtsWhole(k, v, t.n, q, PlainOf(dir, x, y), CodedOf(dir, x, y))
  <2> DEFINE p == PlainOf(dir, x, y)
             c == CodedOf(dir, x, y)
  <2> SUFFICES ASSUME NEW j \in 1 .. q
               PROVE  BlockAt(c, j) = Xex(k, v, t.n + j - 1, BlockAt(p, j))
    BY DEF XtsWhole
  <2>1. CodedOf(dir, BlockAt(x, j), BlockAt(y, j)) = BlockAt(c, j)
        /\ PlainOf(dir, BlockAt(x, j), BlockAt(y, j)) = BlockAt(p, j)
    BY DEF CodedOf, PlainOf
  <2> HIDE DEF p, c
  <2> QED BY <1>3, <1>5, <1>6, <2>1
<1>8. XtsRelates(k, v, t.n, PlainOf(dir, x, y), CodedOf(dir, x, y))
  <2> DEFINE p == PlainOf(dir, x, y)
             c == CodedOf(dir, x, y)
  <2>1. Long(p, m) /\ Long(c, m)
    BY <1>1, <1>4 DEF CodedOf, PlainOf
  <2>2. XtsWhole(k, v, t.n, q, p, c)
    BY <1>7
  <2> HIDE DEF p, c
  <2>3. XtsRelates(k, v, t.n, p, c)
    BY <1>1, <2>1, <2>2, XtsRelatesIs
  <2> QED BY <2>3 DEF p, c
<1> QED BY <1>4, <1>8 DEF XtsDone

(* XTS with ciphertext stealing, in either direction.                      *)
LEMMA XtsStolenText ==
  ASSUME NEW dir \in Directions, NEW k, NEW v, NEW t, TweakShaped(t), t.key = k, t.iv = v,
         NEW x, NEW m, RawBytes(x, m), NEW q \in Nat \ {0}, q = m \div Block, m # Block * q,
         NEW y, y = XtsText(k, t, x, dir)
  PROVE  XtsDone(k, v, t.n, dir, x, m, y)
<1> DEFINE h == XtsBlocks(k, t, x, dir, q - 1)
           r == m - Block * q
           back == IF dir = "encrypt" THEN 1 ELSE 0
           u == XexBlock(k, t, q - back, BlockAt(x, q), dir)
           s1 == Remainder(x) \o Rest(u, r)
           z == XexBlock(k, t, q - (1 - back), s1, dir)
           f == First(u, r)
<1>1. Remainder(x) # <<>> /\ Blocks(x) = q /\ Long(x, m) /\ m \in Nat /\ q - 1 <= m \div Block
      /\ q - 1 \in Nat /\ t.n \in Nat /\ Len(x) = m /\ q - 1 # q
  BY RawIsLong DEF TweakShaped
<1>2. r \in 1 .. Block - 1 /\ m = Block * q + r /\ RawBytes(Remainder(x), r) /\ Long(Remainder(x), r)
      /\ r >= 1
  <2> DEFINE b == Block * q
  <2>1. b \in Nat /\ b <= m /\ m < b + Block /\ m # b
    BY <1>1, InBlocks
  <2> HIDE DEF b
  <2>2. m - b \in 1 .. Block - 1 /\ m = b + (m - b) /\ m - b >= 1
    BY <1>1, <2>1, BlockIs
  <2>3. m # Block * (m \div Block)
    OBVIOUS
  <2>4. /\ m \div Block + 1 \in 1 .. PieceCount(m)
        /\ Piece(x, m \div Block + 1) = Remainder(x)
        /\ PieceLen(m, m \div Block + 1) = m - Block * (m \div Block)
    BY <1>1, <2>3, LastPiece
  <2>5. RawBytes(Remainder(x), m - b)
    BY <2>4, RawPiece DEF b
  <2> QED BY <2>2, <2>5 DEF b, RawBytes
<1>3. y = h \o (z \o f)
  <2>1. StealFrom(k, t, x, dir) = z \o f
    <3>1. Len(x) - Block * Blocks(x) = r
      BY <1>1
    <3> QED BY <1>1, <3>1, Zenon DEF StealFrom
  <2>2. XtsText(k, t, x, dir)
          = Joined([j \in 1 .. q - 1 |-> XexBlock(k, t, j - 1, BlockAt(x, j), dir)], Block * (q - 1))
              \o StealFrom(k, t, x, dir)
    BY <1>1 DEF XtsText
  <2> QED BY <2>1, <2>2 DEF XtsBlocks
<1>4. /\ Long(h, Block * (q - 1))
      /\ \A j \in 1 .. q - 1 :
           CodedOf(dir, BlockAt(x, j), Piece(h, j))
             = Xex(k, v, t.n + (j - 1), PlainOf(dir, BlockAt(x, j), Piece(h, j)))
  <2> DEFINE w == q - 1
  <2>1. h = XtsBlocks(k, t, x, dir, w) /\ w \in Nat /\ w <= m \div Block
    BY <1>1
  <2> HIDE DEF h, w
  <2>2. /\ Long(h, Block * w)
        /\ \A j \in 1 .. w :
           CodedOf(dir, BlockAt(x, j), Piece(h, j))
             = Xex(k, v, t.n + (j - 1), PlainOf(dir, BlockAt(x, j), Piece(h, j)))
    BY <2>1, XtsBlocksIs
  <2> QED BY <2>2 DEF w
<1> HIDE DEF h
<1>5. q \in 1 .. (m \div Block) /\ q - back \in Int /\ q - (1 - back) \in Int
  BY <1>1
<1>6. Long(u, Block)
      /\ CodedOf(dir, BlockAt(x, q), u) = Xex(k, v, t.n + (q - back), PlainOf(dir, BlockAt(x, q), u))
  <2> DEFINE b == BlockAt(x, q)
             i == q - back
  <2>1. Long(b, Block) /\ Free(b, "enc") /\ Free(b, "dec") /\ i \in Int
    BY <1>5, RawBlock
  <2>2. u = XexBlock(k, t, i, b, dir)
    OBVIOUS
  <2> HIDE DEF u, b, i
  <2>3. Long(u, Block) /\ CodedOf(dir, b, u) = Xex(k, v, t.n + i, PlainOf(dir, b, u))
    BY <2>1, <2>2, XexBlockIs
  <2> QED BY <2>3 DEF b, i
<1> HIDE DEF u
<1>7. /\ Long(f, r) /\ Long(Rest(u, r), Block - r) /\ f \o Rest(u, r) = u
      /\ Long(s1, Block) /\ First(s1, r) = Remainder(x) /\ Rest(s1, r) = Rest(u, r)
  <2> HIDE DEF r
  <2> QED BY <1>2, <1>6, FrontAndBack
<1>8. Free(s1, "enc") /\ Free(s1, "dec")
  <2> DEFINE g == Block - r
             e == Rest(u, r)
  <2>1. Long(e, g)
    BY <1>7
  <2> HIDE DEF e, g, r
  <2> QED BY <1>2, <2>1, RawInFront DEF e
<1>9. Long(z, Block)
      /\ CodedOf(dir, s1, z) = Xex(k, v, t.n + (q - (1 - back)), PlainOf(dir, s1, z))
  <2> DEFINE i == q - (1 - back)
  <2>1. i \in Int /\ z = XexBlock(k, t, i, s1, dir)
    BY <1>5
  <2> HIDE DEF z, i, s1
  <2>2. Long(z, Block) /\ CodedOf(dir, s1, z) = Xex(k, v, t.n + i, PlainOf(dir, s1, z))
    BY <1>7, <1>8, <2>1, XexBlockIs
  <2> QED BY <2>2 DEF i
<1> HIDE DEF z, f
<1>10. /\ Long(y, m)
       /\ \A j \in 1 .. q - 1 : BlockAt(y, j) = Piece(h, j)
       /\ BlockAt(y, q) = z /\ Remainder(y) = f
  <2> HIDE DEF r
  <2>1. Stolen(y, h, z, f, q, r)
    BY <1>2, <1>3, <1>4, <1>7, <1>9, StolenPlaces
  <2> QED BY <1>2, <2>1 DEF Stolen
<1> DEFINE p == PlainOf(dir, x, y)
           c == CodedOf(dir, x, y)
<1>11. XtsWhole(k, v, t.n, q - 1, p, c)
  <2> SUFFICES ASSUME NEW j \in 1 .. q - 1
               PROVE  BlockAt(c, j) = Xex(k, v, t.n + j - 1, BlockAt(p, j))
    BY DEF XtsWhole
  <2>1. CodedOf(dir, BlockAt(x, j), BlockAt(y, j)) = BlockAt(c, j)
        /\ PlainOf(dir, BlockAt(x, j), BlockAt(y, j)) = BlockAt(p, j)
    BY DEF CodedOf, PlainOf
  <2>2. t.n + (j - 1) = t.n + j - 1
    BY <1>1
  <2> HIDE DEF p, c
  <2> QED BY <1>4, <1>10, <2>1, <2>2
<1>12. XtsStolen(k, v, t.n, q, r, p, c)
  <2>0. t.n + (q - 1) = t.n + q - 1 /\ q - 0 = q /\ q - (1 - 1) = q /\ q - (1 - 0) = q - 1
    BY <1>1
  <2>1. CASE dir = "encrypt"
    <3>1. p = x /\ c = y
      BY <2>1 DEF PlainOf, CodedOf
    <3>2. u = Xex(k, v, t.n + (q - 1), BlockAt(x, q))
      BY <1>6, <2>1 DEF CodedOf, PlainOf
    <3>3. z = Xex(k, v, t.n + (q - (1 - 1)), s1)
      BY <1>9, <2>1 DEF CodedOf, PlainOf
    <3>4. Remainder(c) = First(u, r) /\ BlockAt(c, q) = z
      BY <1>10, <3>1 DEF f
    <3>5. u = Xex(k, v, t.n + q - 1, BlockAt(p, q)) /\ z = Xex(k, v, t.n + q, s1)
      BY <2>0, <3>1, <3>2, <3>3
    <3>6. s1 = Remainder(p) \o Rest(u, r)
      BY <3>1
    <3> HIDE DEF p, c, s1, r
    <3> QED BY <3>4, <3>5, <3>6 DEF XtsStolen
  <2>2. CASE dir = "decrypt"
    <3>1. p = y /\ c = x
      BY <2>2 DEF PlainOf, CodedOf
    <3>2. BlockAt(x, q) = Xex(k, v, t.n + (q - 0), u)
      BY <1>6, <2>2 DEF CodedOf, PlainOf
    <3>3. s1 = Xex(k, v, t.n + (q - (1 - 0)), z)
      BY <1>9, <2>2 DEF CodedOf, PlainOf
    <3>4. s1 = Xex(k, v, t.n + q - 1, BlockAt(p, q))
      BY <1>10, <2>0, <3>1, <3>3
    <3>5. Remainder(c) = First(s1, r)
      BY <1>7, <3>1
    <3>6. u = Remainder(p) \o Rest(s1, r)
      BY <1>7, <1>10, <3>1
    <3>7. BlockAt(c, q) = Xex(k, v, t.n + q, u)
      BY <2>0, <3>1, <3>2
    <3> HIDE DEF p, c, s1, r
    <3> QED BY <3>4, <3>5, <3>6, <3>7 DEF XtsStolen
  <2> QED BY <2>1, <2>2 DEF Directions
<1>13. Long(p, m) /\ Long(c, m)
  BY <1>1, <1>10 DEF CodedOf, PlainOf
<1>14. XtsRelates(k, v, t.n, p, c)
  <2> HIDE DEF p, c
  <2> QED BY <1>1, <1>11, <1>12, <1>13, XtsRelatesIs
<1> QED BY <1>10, <1>14 DEF XtsDone

(* What the XTS kernels make of a text of a block or more is the           *)
(* standard's.                                                             *)
LEMMA XtsTextIs ==
  ASSUME NEW dir \in Directions, NEW k, NEW v, NEW t, TweakShaped(t), t.key = k, t.iv = v,
         NEW x, NEW m, RawBytes(x, m), m >= Block,
         NEW y, y = XtsText(k, t, x, dir)
  PROVE  XtsDone(k, v, t.n, dir, x, m, y)
<1> DEFINE q == m \div Block
<1>1. q \in Nat \ {0}
  <2>1. m \in Nat /\ m < Block * q + Block /\ q \in Nat
    BY RawIsLong, InBlocks
  <2>2. q # 0
    <3> SUFFICES ASSUME q = 0 PROVE FALSE
      OBVIOUS
    <3>1. Block * q = 0
      BY BlockMultiple
    <3> QED BY <2>1, <3>1, BlockIs
  <2> QED BY <2>1, <2>2
<1>2. q = m \div Block
  OBVIOUS
<1> HIDE DEF q
<1>3. CASE m = Block * q
  BY <1>1, <1>2, <1>3, XtsWholeText
<1>4. CASE m # Block * q
  BY <1>1, <1>2, <1>4, XtsStolenText
<1> QED BY <1>3, <1>4

\* Block j of y is block p + j behind x.
BlockMoved(x, y, p, j) == BlockAt(x \o y, p + j) = BlockAt(y, j)

(* Blocks keep their bytes behind whole blocks.                            *)
LEMMA BlockBehind ==
  ASSUME NEW p \in Nat, NEW x, Long(x, Block * p), NEW y, NEW n, Long(y, n),
         NEW j \in 1 .. (n \div Block)
  PROVE  BlockMoved(x, y, p, j)
<1> DEFINE a == Block * p
           m == a + n
           i == p + j
<1>1. n \in Nat /\ a \in Nat /\ m \in Nat /\ m \div Block = p + n \div Block /\ n \div Block \in Nat
  BY CountOfJoin, InBlocks DEF Long
<1> HIDE DEF a
<1>2. Long(x \o y, m)
  <2>1. Joins(x \o y, x, a, y, n)
    BY TextJoin DEF a
  <2> QED BY <2>1 DEF Joins
<1>3. i \in 1 .. (m \div Block)
  <2> HIDE DEF m
  <2> QED BY <1>1
<1> HIDE DEF m, i
<1>4. BlockAt(x \o y, i) = Piece(x \o y, i)
  BY <1>2, <1>3, BlockOfText
<1>5. j \in 1 .. PieceCount(n) /\ BlockAt(y, j) = Piece(y, j)
  BY BlockOfText
<1>6. PieceMoved(x, y, p, j)
  BY <1>5, PieceBehind
<1> QED BY <1>4, <1>5, <1>6 DEF BlockMoved, PieceMoved, i

(* What is left after the blocks is the same behind whole blocks.          *)
LEMMA RemainderBehind ==
  ASSUME NEW p \in Nat, NEW x, Long(x, Block * p), NEW y, NEW n, Long(y, n)
  PROVE  /\ Long(x \o y, Block * p + n) /\ Blocks(x \o y) = p + Blocks(y)
         /\ Remainder(x \o y) = Remainder(y)
<1> DEFINE a == Block * p
           m == a + n
           q == n \div Block
           b == Block * q
           l == n - b
<1>1. n \in Nat /\ a \in Nat /\ m \in Nat /\ m \div Block = p + q /\ q \in Nat
      /\ b \in Nat /\ b <= n
  BY CountOfJoin, InBlocks DEF Long
<1>2. Long(x \o y, m)
  <2> HIDE DEF m
  <2>1. Joins(x \o y, x, a, y, n)
    BY TextJoin
  <2> QED BY <2>1 DEF Joins, m
<1>3. Block * (p + q) = a + b
  BY <1>1, BlockMultiple
<1> HIDE DEF a, q, b
<1>4. m - (a + b) = l /\ l \in Nat /\ b + l <= n
  BY <1>1
<1> HIDE DEF m, l
<1>5. Blocks(x \o y) = p + q /\ Blocks(y) = q
  BY <1>1, <1>2, WholeAndRest DEF q
<1>6. Remainder(x \o y) = Cut(x \o y, a + b, l)
  <2>1. Remainder(x \o y) = Cut(x \o y, Block * Blocks(x \o y), m - Block * Blocks(x \o y))
    BY <1>2, WholeAndRest
  <2> QED BY <2>1, <1>3, <1>4, <1>5
<1>7. Remainder(y) = Cut(y, b, l)
  <2>1. Remainder(y) = Cut(y, Block * Blocks(y), n - Block * Blocks(y))
    BY WholeAndRest
  <2> QED BY <2>1, <1>5 DEF b, l
<1>8. Cut(x \o y, a + b, l) = Cut(y, b, l)
  <2>1. Long(x, a)
    BY DEF a
  <2> QED BY <1>1, <1>4, <2>1, CutOfBehind
<1> QED BY <1>2, <1>5, <1>6, <1>7, <1>8 DEF a, m

(* XTS on whole blocks goes on with the text that follows them.            *)
LEMMA XtsRelatesJoin ==
  ASSUME NEW k, NEW v, NEW n \in Nat, NEW a \in Nat \ {0},
         NEW p, Long(p, Block * a), NEW c, Long(c, Block * a), XtsRelates(k, v, n, p, c),
         NEW m, NEW e, Long(e, m), NEW d, Long(d, m), m >= Block, XtsRelates(k, v, n + a, e, d)
  PROVE  XtsRelates(k, v, n, p \o e, c \o d)
<1> DEFINE b == Block * a
           q == m \div Block
           l == b + m
           w == a + q
           P == p \o e
           C == c \o d
<1>1. m \in Nat /\ b \in Nat /\ l \in Nat /\ q \in Nat /\ l \div Block = w /\ b \div Block = a
      /\ a \in Nat /\ n + a \in Nat
  BY CountOfJoin, InBlocks DEF Long
<1>2. q \in Nat \ {0}
  <2>1. m < Block * q + Block
    BY <1>1, InBlocks
  <2>2. q # 0
    <3> SUFFICES ASSUME q = 0 PROVE FALSE
      OBVIOUS
    <3>1. Block * q = 0
      BY BlockMultiple
    <3> QED BY <1>1, <2>1, <3>1, BlockIs
  <2> QED BY <1>1, <2>2
<1>3. w \in Nat \ {0} /\ Block * w = b + Block * q /\ Block * q \in Nat
  <2> HIDE DEF q
  <2>1. a + q \in Nat \ {0}
    BY <1>1, <1>2
  <2>2. Block * (a + q) = Block * a + Block * q /\ Block * q \in Nat
    BY <1>1, BlockMultiple
  <2> QED BY <2>1, <2>2
<1>4. Long(P, l) /\ Long(C, l) /\ Remainder(P) = Remainder(e) /\ Remainder(C) = Remainder(d)
  BY <1>1, RemainderBehind
<1>5. XtsWhole(k, v, n, a, p, c)
  <2>1. Long(p, b) /\ Long(c, b) /\ a = b \div Block /\ b = Block * a
    BY <1>1
  <2> HIDE DEF b
  <2>2. XtsRelates(k, v, n, p, c) <=>
          IF b = Block * a THEN XtsWhole(k, v, n, a, p, c)
          ELSE XtsWhole(k, v, n, a - 1, p, c) /\ XtsStolen(k, v, n, a, b - Block * a, p, c)
    BY <2>1, XtsRelatesIs
  <2> QED BY <2>1, <2>2
<1>6. IF m = Block * q THEN XtsWhole(k, v, n + a, q, e, d)
      ELSE XtsWhole(k, v, n + a, q - 1, e, d) /\ XtsStolen(k, v, n + a, q, m - Block * q, e, d)
  <2> DEFINE u == n + a
  <2>1. q = m \div Block /\ u \in Nat /\ XtsRelates(k, v, u, e, d)
    BY <1>1
  <2> HIDE DEF q, u
  <2>2. IF m = Block * q THEN XtsWhole(k, v, u, q, e, d)
        ELSE XtsWhole(k, v, u, q - 1, e, d) /\ XtsStolen(k, v, u, q, m - Block * q, e, d)
    BY <1>2, <2>1, XtsRelatesIs
  <2> QED BY <2>2 DEF u
<1>7. \A j \in 1 .. a : BlockAt(P, j) = BlockAt(p, j) /\ BlockAt(C, j) = BlockAt(c, j)
  BY <1>1, PieceOfFront
<1>8. \A j \in 1 .. q : BlockAt(P, a + j) = BlockAt(e, j) /\ BlockAt(C, a + j) = BlockAt(d, j)
  <2> TAKE j \in 1 .. q
  <2>1. j \in 1 .. (m \div Block)
    OBVIOUS
  <2>2. BlockMoved(p, e, a, j) /\ BlockMoved(c, d, a, j)
    BY <1>1, <2>1, BlockBehind
  <2> QED BY <2>2 DEF BlockMoved
<1> HIDE DEF P, C
<1>9. ASSUME NEW h \in Nat, h <= q, XtsWhole(k, v, n + a, h, e, d)
      PROVE  XtsWhole(k, v, n, a + h, P, C)
  <2> SUFFICES ASSUME NEW j \in 1 .. a + h
               PROVE  BlockAt(C, j) = Xex(k, v, n + j - 1, BlockAt(P, j))
    BY DEF XtsWhole
  <2>1. CASE j <= a
    <3>1. j \in 1 .. a
      BY <1>1, <2>1
    <3> QED BY <1>5, <1>7, <3>1 DEF XtsWhole
  <2>2. CASE ~(j <= a)
    <3> DEFINE i == j - a
    <3>1. i \in 1 .. h /\ i \in 1 .. q /\ a + i = j /\ n + a + i - 1 = n + j - 1
      BY <1>1, <1>9, <2>2
    <3> HIDE DEF i
    <3>2. BlockAt(d, i) = Xex(k, v, n + a + i - 1, BlockAt(e, i))
      BY <1>9, <3>1 DEF XtsWhole
    <3>3. BlockAt(P, j) = BlockAt(e, i) /\ BlockAt(C, j) = BlockAt(d, i)
      BY <1>8, <3>1
    <3> QED BY <3>1, <3>2, <3>3
  <2> QED BY <2>1, <2>2
<1>10. IF l = Block * w THEN XtsWhole(k, v, n, w, P, C)
       ELSE XtsWhole(k, v, n, w - 1, P, C) /\ XtsStolen(k, v, n, w, l - Block * w, P, C)
  <2> DEFINE bq == Block * q
  <2>0. bq \in Nat /\ Block * w = b + bq
    BY <1>3
  <2>1. CASE m = bq
    <3>1. l = Block * w
      BY <2>0, <2>1
    <3>2. XtsWhole(k, v, n + a, q, e, d)
      BY <1>6, <2>1
    <3>3. XtsWhole(k, v, n, a + q, P, C)
      <4> HIDE DEF q
      <4> QED BY <1>2, <1>9, <3>2
    <3> QED BY <3>1, <3>3
  <2>2. CASE m # bq
    <3>1. l # Block * w /\ l - Block * w = m - bq
      <4> HIDE DEF b, bq
      <4>1. l = b + m /\ Block * w = b + bq
        BY <2>0
      <4> HIDE DEF w, l
      <4> QED BY <1>1, <2>0, <2>2, <4>1
    <3>2. XtsWhole(k, v, n + a, q - 1, e, d) /\ XtsStolen(k, v, n + a, q, m - bq, e, d)
      BY <1>6, <2>2
    <3>3. q - 1 \in Nat /\ q - 1 <= q /\ a + (q - 1) = w - 1 /\ n + a + q - 1 = n + w - 1
          /\ n + a + q = n + w /\ q \in 1 .. q
      <4> HIDE DEF q
      <4> QED BY <1>1, <1>2
    <3>4. XtsWhole(k, v, n, w - 1, P, C)
      <4> DEFINE h == q - 1
      <4>1. XtsWhole(k, v, n + a, h, e, d) /\ h \in Nat /\ h <= q
        BY <3>2, <3>3
      <4> HIDE DEF h
      <4>2. XtsWhole(k, v, n, a + h, P, C)
        BY <1>9, <4>1
      <4> QED BY <3>3, <4>2 DEF h
    <3>5. BlockAt(P, w) = BlockAt(e, q) /\ BlockAt(C, w) = BlockAt(d, q)
      BY <1>8, <3>3
    <3>6. XtsStolen(k, v, n, w, m - bq, P, C)
      <4> HIDE DEF w, bq, q
      <4> QED BY <1>4, <3>2, <3>3, <3>5 DEF XtsStolen, P, C
    <3> QED BY <3>1, <3>4, <3>6
  <2> QED BY <2>1, <2>2
<1>11. XtsRelates(k, v, n, P, C)
  <2>1. Long(P, l) /\ Long(C, l) /\ w = l \div Block
    BY <1>1, <1>4 DEF P, C
  <2> HIDE DEF w, l
  <2> QED BY <1>3, <1>10, <2>1, XtsRelatesIs
<1> QED BY <1>11 DEF P, C

-----------------------------------------------------------------------------
(* Texts in several calls.                                                 *)

(* The caller's bytes one behind the other are the caller's.               *)
LEMMA RawJoin ==
  ASSUME NEW x, NEW m, RawBytes(x, m), NEW y, NEW n, RawBytes(y, n)
  PROVE  RawBytes(x \o y, m + n)
<1>1. Long(x, m) /\ Long(y, n) /\ m \in Nat /\ n \in Nat
  BY DEF RawBytes, Long
<1>2. Joins(x \o y, x, m, y, n)
  BY <1>1, TextJoin
<1> DEFINE z == x \o y
<1>3. /\ Long(z, m + n)
      /\ \A i \in 1 .. m : z[i] = x[i]
      /\ \A i \in 1 .. n : z[m + i] = y[i]
  BY <1>2 DEF Joins
<1> HIDE DEF z
<1>4. ASSUME NEW i \in 1 .. m + n
      PROVE  \A t \in z[i] : t[1] = "raw"
  <2>1. CASE i <= m
    <3>1. i \in 1 .. m
      BY <1>1, <2>1
    <3> QED BY <1>3, <3>1 DEF RawBytes
  <2>2. CASE ~(i <= m)
    <3> DEFINE j == i - m
    <3>1. j \in 1 .. n /\ m + j = i
      BY <1>1, <2>2
    <3> HIDE DEF j
    <3>2. z[i] = y[j]
      BY <1>3, <3>1
    <3> QED BY <3>1, <3>2 DEF RawBytes
  <2> QED BY <2>1, <2>2
<1> QED BY <1>3, <1>4 DEF RawBytes, z

(* So is any part of them.                                                 *)
LEMMA RawCut ==
  ASSUME NEW x, NEW m, RawBytes(x, m), NEW a \in Nat, NEW n \in Nat, a + n <= m
  PROVE  RawBytes(Cut(x, a, n), n)
<1>1. Long(x, m) /\ m \in Nat
  BY DEF RawBytes, Long
<1>2. /\ Long(Cut(x, a, n), n)
      /\ \A i \in 1 .. n : Cut(x, a, n)[i] = x[a + i]
  BY <1>1, CutIs
<1>3. \A i \in 1 .. n : a + i \in 1 .. m
  BY <1>1
<1> QED BY <1>2, <1>3 DEF RawBytes

(* And no bytes at all.                                                    *)
LEMMA RawEmpty == RawBytes(<<>>, 0)
BY EmptyText DEF RawBytes

(* A text of numbers as bytes is the caller's.                             *)
LEMMA RawOf ==
  ASSUME NEW w \in Seq(Nat)
  PROVE  Len(w) \in Nat /\ RawBytes(Raw(w), Len(w))
<1>1. Len(w) \in Nat
  OBVIOUS
<1>2. Raw(w) = [i \in 1 .. Len(w) |-> {<<"raw", w[i]>>}]
  BY DEF Raw
<1>3. \A i \in 1 .. Len(w) : Raw(w)[i] = {<<"raw", w[i]>>}
  BY <1>2
<1>4. Long(Raw(w), Len(w))
  BY <1>1, <1>2 DEF Long
<1>5. \A i \in 1 .. Len(w) : \A t \in {<<"raw", w[i]>>} : t[1] = "raw"
  OBVIOUS
<1> QED BY <1>1, <1>3, <1>4, <1>5 DEF RawBytes

(* Text x of a blocks has become y under key k and IV v, and block c is the *)
(* one to go on from.                                                      *)
Streamed(mode, k, v, dir, a, x, y, c) ==
  /\ a \in Nat /\ Long(x, Block * a) /\ Long(y, Block * a)
  /\ Relates(mode, k, IvBlock(v), PlainOf(dir, x, y), CodedOf(dir, x, y))
  /\ c = ChainAt(mode, k, IvBlock(v), CodedOf(dir, x, y), a)
  /\ ChainStart(mode, c)

(* A message can begin at its IV.                                          *)
LEMMA IvStarts ==
  ASSUME NEW mode, NEW v
  PROVE  ChainStart(mode, IvBlock(v))
BY IvIsCounter DEF ChainStart

(* No text at all has become none, and the IV is the block to go on from.  *)
LEMMA StreamBegins ==
  ASSUME NEW mode \in Modes \ {"ofb"}, NEW k, NEW v, NEW dir
  PROVE  Streamed(mode, k, v, dir, 0, <<>>, <<>>, IvBlock(v))
<1> DEFINE e == <<>>
           c == IvBlock(v)
           o == 0
<1>1. o \in Nat /\ Block * o = o /\ o \div Block = o /\ Long(e, o)
  <2>1. 0 \in Nat /\ Block * 0 = 0
    BY BlockMultiple
  <2>2. (Block * 0) \div Block = 0
    BY <2>1, CountOfJoin
  <2> QED BY <2>1, <2>2, EmptyText
<1>2. PieceCount(o) = o
  <2> HIDE DEF o
  <2> QED BY <1>1, PiecesCounted
<1>3. Related(mode, o) = 0
  BY <1>1, <1>2 DEF Related
<1>4. Relates(mode, k, c, e, e)
  <2> HIDE DEF e, c
  <2>1. \A j \in 1 .. Related(mode, o) :
          Coupled(mode, k, ChainAt(mode, k, c, e, j - 1), Piece(e, j), Piece(e, j))
    BY <1>3
  <2> HIDE DEF o
  <2> QED BY <1>1, <2>1, RelatesIs
<1>5. ChainAt(mode, k, c, e, o) = c
  <2>1. CASE mode = "ctr"
    <3>1. CounterBlock(v, 0) = IvBlock(v) /\ 0 \in Nat /\ 0 + 0 = 0
      BY IvIsCounter
    <3>2. Counted(CounterBlock(v, 0), 0) = CounterBlock(v, 0 + 0)
      BY <3>1, CounterIs
    <3> QED BY <2>1, <3>1, <3>2 DEF ChainAt
  <2>2. CASE mode # "ctr"
    BY <2>2 DEF ChainAt
  <2> QED BY <2>1, <2>2
<1>6. PlainOf(dir, e, e) = e /\ CodedOf(dir, e, e) = e
  BY DEF PlainOf, CodedOf
<1> QED BY <1>1, <1>4, <1>5, <1>6, IvStarts DEF Streamed

\* The text with n more bytes z, which became d, is still the mode's.
StreamedOn(mode, k, v, dir, a, x, y, n, z, d, r) ==
  /\ Long(d, n)
  /\ Long(x \o z, Block * a + n) /\ Long(y \o d, Block * a + n)
  /\ Relates(mode, k, IvBlock(v), PlainOf(dir, x \o z, y \o d), CodedOf(dir, x \o z, y \o d))
  /\ n = Block * (n \div Block) =>
       Streamed(mode, k, v, dir, a + n \div Block, x \o z, y \o d, r)

(* A call that starts from the stored block goes on with the message       *)
(* (aes_generic.cc): what it makes, behind what came out before, is the    *)
(* mode's text of all of it.                                               *)
LEMMA StreamGoesOn ==
  ASSUME NEW mode \in Modes \ {"ofb"}, NEW k, NEW v, NEW dir \in Directions, NEW a, NEW x, NEW y,
         NEW c, Streamed(mode, k, v, dir, a, x, y, c),
         NEW z, NEW n, RawBytes(z, n),
         mode = "cbc" /\ dir = "decrypt" => n = Block * (n \div Block),
         NEW r, r = ModeText(mode, dir, k, c, z)
  PROVE  StreamedOn(mode, k, v, dir, a, x, y, n, z, r.out, r.next)
<1> DEFINE d == r.out
           iv == IvBlock(v)
           p == PlainOf(dir, x, y)
           q == CodedOf(dir, x, y)
           e == PlainOf(dir, z, d)
           f == CodedOf(dir, z, d)
           w == n \div Block
           P == PlainOf(dir, x \o z, y \o d)
           Q == CodedOf(dir, x \o z, y \o d)
<1>1. n \in Nat /\ Long(z, n) /\ w \in Nat /\ mode \in Modes /\ mode # "ofb"
  BY RawIsLong
<1>2. a \in Nat /\ Long(x, Block * a) /\ Long(y, Block * a) /\ Relates(mode, k, iv, p, q)
      /\ c = ChainAt(mode, k, iv, q, a) /\ ChainStart(mode, c)
  BY DEF Streamed
<1>3. TextLen(mode, dir, n) = n
  <2>1. mode = "cbc" /\ dir = "decrypt" => Block * (n \div Block) = n
    OBVIOUS
  <2> QED BY <2>1 DEF TextLen
<1>4. /\ Long(d, n) /\ Relates(mode, k, c, e, f)
      /\ n = Block * w => r.next = ChainAt(mode, k, c, f, w)
  BY <1>1, <1>2, <1>3, ModeTextIs
<1>5. n = Block * w => ChainStart(mode, r.next)
  BY <1>1, <1>2, ModeTextGoesOn
<1>6. P = p \o e /\ Q = q \o f
  BY DEF PlainOf, CodedOf
<1>7. Long(p, Block * a) /\ Long(q, Block * a) /\ Long(e, n) /\ Long(f, n)
  BY <1>1, <1>2, <1>4 DEF PlainOf, CodedOf
<1>8. ChainStart(mode, iv)
  BY IvStarts
<1> HIDE DEF d, iv, p, q, e, f, P, Q, w
<1>9. Relates(mode, k, iv, P, Q)
  <2>1. Relates(mode, k, ChainAt(mode, k, iv, q, a), e, f)
    BY <1>2, <1>4
  <2>2. Relates(mode, k, iv, p \o e, q \o f)
    BY <1>2, <1>7, <1>8, <2>1, RelatesJoin
  <2> QED BY <1>6, <2>2
<1>10. Long(x \o z, Block * a + n) /\ Long(y \o d, Block * a + n)
  BY <1>1, <1>2, <1>4, RemainderBehind
<1>11. ASSUME n = Block * w
       PROVE  Streamed(mode, k, v, dir, a + w, x \o z, y \o d, r.next)
  <2>1. ChainsOn(mode, k, iv, a, q, f, w)
    <3>1. w <= n \div Block
      BY <1>1 DEF w
    <3> QED BY <1>1, <1>2, <1>7, <1>8, <3>1, ChainAtBehind
  <2>2. ChainAt(mode, k, iv, Q, a + w) = r.next
    BY <1>2, <1>4, <1>6, <1>11, <2>1 DEF ChainsOn
  <2>3. Block * (a + w) = Block * a + n /\ a + w \in Nat
    <3>1. Block * (a + w) = Block * a + Block * w
      BY <1>1, <1>2, BlockMultiple
    <3>2. a + w \in Nat
      BY <1>1, <1>2
    <3> QED BY <1>11, <3>1, <3>2
  <2> QED BY <1>5, <1>9, <1>10, <1>11, <2>2, <2>3 DEF Streamed, P, Q, iv
<1> QED BY <1>4, <1>9, <1>10, <1>11 DEF StreamedOn, d, iv, P, Q, w

\* y behind the a blocks of x.
Behind(x, a, m, y, n) ==
  /\ Long(x \o y, m + n) /\ m + n \in Nat
  /\ Blocks(x \o y) = a + Blocks(y) /\ Remainder(x \o y) = Remainder(y)

(* Text behind whole blocks keeps its blocks and its remainder.            *)
LEMMA BehindIs ==
  ASSUME NEW a \in Nat, NEW m, m = Block * a, NEW x, Long(x, m), NEW y, NEW n, Long(y, n)
  PROVE  Behind(x, a, m, y, n)
<1>1. Long(x \o y, Block * a + n) /\ Blocks(x \o y) = a + Blocks(y)
      /\ Remainder(x \o y) = Remainder(y)
  BY RemainderBehind
<1> QED BY <1>1 DEF Behind, Long

(* A text is its whole blocks and the bytes behind them.                   *)
LEMMA WholeOf ==
  ASSUME NEW x, NEW m, RawBytes(x, m), NEW n, n = Block * Blocks(x)
  PROVE  /\ n \in Nat /\ n <= m /\ Blocks(x) \in Nat /\ n \div Block = Blocks(x)
         /\ RawBytes(First(x, n), n) /\ RawBytes(Rest(x, n), m - n) /\ Remainder(x) = Rest(x, n)
         /\ m - n \in Nat /\ m - n < Block
         /\ x = First(x, n) \o Rest(x, n)
<1>1. Long(x, m) /\ m \in Nat /\ Blocks(x) \in Nat /\ n \in Nat /\ n <= m /\ m < n + Block
  BY RawIsLong, WholeAndRest
<1>2. n \div Block = Blocks(x)
  BY <1>1, CountOfJoin
<1> DEFINE l == m - n
<1>3. l \in Nat /\ l < Block /\ 0 \in Nat /\ 0 + n <= m /\ n + l <= m /\ n + l = m /\ 0 + n = n
      /\ 0 + n + l <= m
  BY <1>1, BlockIs
<1> HIDE DEF l
<1>4. First(x, n) = Cut(x, 0, n) /\ Rest(x, n) = Cut(x, n, l)
  BY <1>1, FirstIsCut, RestIsCut DEF l
<1>5. RawBytes(First(x, n), n) /\ RawBytes(Rest(x, n), l)
  BY <1>1, <1>3, <1>4, RawCut
<1>6. Cut(x, 0, n) \o Cut(x, n, l) = Cut(x, 0, n + l)
  BY <1>1, <1>3, CutsJoinFront
<1>7. x = First(x, n) \o Rest(x, n)
  BY <1>1, <1>3, <1>4, <1>6, CutAll
<1>8. Remainder(x) = Rest(x, n)
  BY DEF Remainder
<1> QED BY <1>1, <1>2, <1>3, <1>5, <1>7, <1>8 DEF l

(* CBC in pieces: what is given out is the whole blocks of the message, and *)
(* what is kept the rest of it.                                            *)
CbcKept(k, v, dir, x, y, part, c) ==
  /\ part = Remainder(x)
  /\ Streamed("cbc", k, v, dir, Blocks(x), First(x, Block * Blocks(x)), y, c)

(* CBC with a partial block kept goes on with the message.                 *)
LEMMA CbcGoesOn ==
  ASSUME NEW k, NEW v, NEW dir \in Directions, NEW x, NEW l, RawBytes(x, l), NEW y, NEW part,
         NEW c, CbcKept(k, v, dir, x, y, part, c),
         NEW z, NEW m, RawBytes(z, m), NEW all, all = part \o z,
         NEW n, n = Block * Blocks(all),
         NEW r, r = ModeText("cbc", dir, k, c, First(all, n))
  PROVE  CbcKept(k, v, dir, x \o z, y \o r.out, Rest(all, n), r.next)
<1> DEFINE a == Blocks(x)
           b == Block * a
           F == First(x, b)
           R == Rest(x, b)
           g == First(all, n)
           u == Blocks(all)
           T == x \o z
<1>1. /\ b \in Nat /\ b <= l /\ a \in Nat /\ RawBytes(F, b) /\ RawBytes(R, l - b)
      /\ Remainder(x) = R /\ x = F \o R
  BY WholeOf
<1>2. part = R /\ Streamed("cbc", k, v, dir, a, F, y, c)
  BY <1>1 DEF CbcKept
<1>3. RawBytes(all, (l - b) + m)
  <2> HIDE DEF R
  <2> QED BY <1>1, <1>2, RawJoin
<1> DEFINE s1 == (l - b) + m
<1>4. /\ n \in Nat /\ n <= s1 /\ u \in Nat /\ n \div Block = u /\ RawBytes(g, n)
      /\ RawBytes(Rest(all, n), s1 - n) /\ Remainder(all) = Rest(all, n)
      /\ all = g \o Rest(all, n) /\ n = Block * u
  <2>1. RawBytes(all, s1)
    BY <1>3
  <2> HIDE DEF s1
  <2> QED BY <2>1, WholeOf
<1>5. Long(F, b) /\ Long(R, l - b) /\ Long(z, m) /\ Long(all, s1) /\ Long(g, n)
      /\ Long(Rest(all, n), s1 - n)
  BY <1>1, <1>3, <1>4 DEF RawBytes
<1> HIDE DEF s1, R, F, b, a, g, u
<1>6. T = F \o all
  <2> DEFINE lb == l - b
  <2>1. Long(R, lb) /\ Long(F, b) /\ Long(z, m)
    BY <1>5
  <2> HIDE DEF lb
  <2>2. (F \o R) \o z = F \o (R \o z)
    BY <2>1, JoinInThree
  <2> QED BY <1>1, <1>2, <2>2
<1>7. Behind(F, a, b, all, s1)
  <2>1. b = Block * a
    BY DEF b
  <2> QED BY <1>1, <1>5, <2>1, BehindIs
<1>71. Blocks(T) = a + u /\ Remainder(T) = Remainder(all) /\ Long(T, b + s1)
  <2> HIDE DEF T
  <2> QED BY <1>6, <1>7 DEF Behind, u
<1>8. Block * (a + u) = b + n
  BY <1>1, <1>4, BlockMultiple DEF b
<1>9. First(T, b + n) = F \o g
  <2>1. 0 \in Nat /\ b + n \in Nat /\ b + 0 = b /\ b <= b /\ 0 + b <= b
        /\ 0 + n <= s1 /\ s1 \in Nat /\ b + n <= b + s1 /\ b \in Nat /\ n \in Nat
    <3>1. s1 \in Nat
      BY <1>5 DEF Long
    <3>2. b \in Nat /\ n \in Nat /\ n <= s1
      BY <1>1, <1>4, <3>1 DEF s1
    <3> QED BY ONLY <3>1, <3>2
  <2>2. First(T, b + n) = Cut(T, 0, b + n)
    BY <2>1, FirstIsCut
  <2>3. Cut(T, 0, b) \o Cut(T, b, n) = Cut(T, 0, b + n)
    <3> DEFINE m1 == b + s1
    <3>1. Long(T, m1) /\ b \in Nat /\ n \in Nat /\ b + n <= m1
      BY <1>71, <2>1
    <3> HIDE DEF m1, T, b
    <3> QED BY ONLY <3>1, CutsJoinFront
  <2>4. Cut(T, 0, b) = F
    <3>1. Cut(F \o all, 0, b) = Cut(F, 0, b)
      BY <1>1, <1>5, <2>1, CutOfFront
    <3> QED BY <1>5, <1>6, <3>1, CutAll
  <2>5. Cut(T, b, n) = g
    <3>1. Cut(F \o all, b + 0, n) = Cut(all, 0, n)
      BY <1>4, <1>5, <2>1, CutOfBehind
    <3> QED BY <1>4, <1>6, <2>1, <3>1, FirstIsCut DEF g
  <2> QED BY <2>1, <2>2, <2>3, <2>4, <2>5
<1>10. Streamed("cbc", k, v, dir, a + u, F \o g, y \o r.out, r.next)
  <2>1. r = ModeText("cbc", dir, k, c, g) /\ "cbc" \in Modes \ {"ofb"} /\ n = Block * (n \div Block)
    BY <1>4 DEF g, Modes
  <2>2. StreamedOn("cbc", k, v, dir, a, F, y, n, g, r.out, r.next)
    BY <1>2, <1>4, <2>1, StreamGoesOn
  <2> QED BY <1>4, <2>1, <2>2 DEF StreamedOn
<1>11. CbcKept(k, v, dir, T, y \o r.out, Remainder(all), r.next)
  BY <1>71, <1>8, <1>9, <1>10 DEF CbcKept
<1> QED BY <1>4, <1>11

(* Such a message so far is what the property says.                        *)
LEMMA CbcKeptIsMode ==
  ASSUME NEW k, NEW v, NEW dir, NEW x, NEW l, RawBytes(x, l), NEW y, NEW part,
         NEW c, CbcKept(k, v, dir, x, y, part, c)
  PROVE  /\ Len(y) = Block * Blocks(x)
         /\ Relates("cbc", k, IvBlock(v), PlainOf(dir, x, y), CodedOf(dir, x, y))
<1> DEFINE q == Blocks(x)
           n == Block * q
           F == First(x, n)
           p == PlainOf(dir, x, y)
           e == CodedOf(dir, x, y)
<1>1. q \in Nat /\ n \in Nat /\ n \div Block = q /\ n <= l /\ Long(x, l) /\ l \div Block = q
  BY WholeOf, RawIsLong
<1>2. Long(F, n) /\ Long(y, n)
      /\ Relates("cbc", k, IvBlock(v), PlainOf(dir, F, y), CodedOf(dir, F, y))
  BY DEF CbcKept, Streamed
<1>3. Len(y) = n
  BY <1>2, LongIsText
<1>4. First(y, n) = y
  BY <1>1, <1>2, FirstIsCut, CutAll
<1>5. First(p, n) = PlainOf(dir, F, y) /\ First(e, n) = CodedOf(dir, F, y)
  BY <1>4 DEF PlainOf, CodedOf
<1> DEFINE i == IF dir = "encrypt" THEN l ELSE n
           j == IF dir = "encrypt" THEN n ELSE l
<1>6. Long(p, i) /\ Long(e, j) /\ i \div Block = q /\ j \div Block = q
  BY <1>1, <1>2 DEF PlainOf, CodedOf
<1>7. Relates("cbc", k, IvBlock(v), First(p, Block * q), First(e, Block * q))
  BY <1>2, <1>5
<1> HIDE DEF p, e, i, j, q
<1>8. Relates("cbc", k, IvBlock(v), p, e)
  BY <1>1, <1>6, <1>7, CbcWholeOnly
<1> QED BY <1>3, <1>8 DEF p, e, q

(* CBC begins with nothing kept.                                           *)
LEMMA CbcBegins ==
  ASSUME NEW k, NEW v, NEW dir
  PROVE  CbcKept(k, v, dir, <<>>, <<>>, <<>>, IvBlock(v))
<1> DEFINE e == <<>>
           q == Blocks(e)
           n == Block * q
<1>1. RawBytes(e, 0) /\ n = Block * Blocks(e)
  BY RawEmpty
<1>2. n \in Nat /\ n <= 0 /\ q \in Nat /\ Remainder(e) = Rest(e, n) /\ RawBytes(First(e, n), n)
      /\ RawBytes(Rest(e, n), 0 - n) /\ n \div Block = q
  <2> HIDE DEF e, n
  <2> QED BY <1>1, WholeOf DEF q
<1>3. n = 0
  <2> HIDE DEF n
  <2> QED BY <1>2
<1>4. q = 0 /\ First(e, n) = e /\ Remainder(e) = e
  <2>1. 0 \div Block = 0
    <3>1. Block * 0 = 0 /\ 0 \in Nat
      BY BlockMultiple
    <3>2. (Block * 0) \div Block = 0
      BY <3>1, CountOfJoin
    <3> QED BY <3>1, <3>2
  <2>2. q = 0
    BY <1>2, <1>3, <2>1
  <2>3. Long(First(e, n), 0) /\ Long(Rest(e, n), 0)
    BY <1>2, <1>3 DEF RawBytes
  <2> HIDE DEF q, n
  <2> QED BY <1>2, <2>2, <2>3, EmptyText DEF e
<1>5. Streamed("cbc", k, v, dir, 0, e, e, IvBlock(v))
  BY StreamBegins DEF Modes
<1> HIDE DEF q
<1> QED BY <1>4, <1>5 DEF CbcKept, q

-----------------------------------------------------------------------------
(* The message in progress.                                                *)

\* The fields of an XTS object.
XtsShaped(o) ==
  /\ DOMAIN o = {"multi", "st", "key", "iv", "tweak", "id"}
  /\ DOMAIN o.tweak = {"key", "iv", "n"}
  /\ o.multi \in BOOLEAN /\ o.id \in Int /\ o.tweak.n \in Int

\* The fields of an object of the other modes.
GenericShaped(o) ==
  /\ DOMAIN o = {"multi", "st", "keySet", "key", "iv", "ivSet", "part", "ivs", "data", "lens"}
  /\ o.multi \in BOOLEAN

\* The fields of the message in progress.
SessionShaped(ss) ==
  /\ DOMAIN ss = {"on", "whole", "key", "iv", "start", "dir", "text", "out"}
  /\ ss.on \in BOOLEAN /\ ss.whole \in BOOLEAN /\ ss.dir \in {"none"} \cup Directions

\* Whether a call goes on from the last one's end.
StreamsIn(kd, o) == o.multi /\ kd # "ofb"

\* The object is the message's: its key is in it, and an IV.
BoundTo(kd, o, ss) ==
  ss.on =>
    /\ o.key = ss.key
    /\ IF kd \in {"xts", "segment"}
       THEN o.iv = ss.iv /\ o.tweak.key = ss.key /\ o.tweak.iv = ss.iv /\ o.id \in Nat
       ELSE o.ivSet

\* It has what the next call in direction dir starts from.
ModeGoesOn(kd, o, ss, dir) ==
  IF ~StreamsIn(kd, o) THEN o.iv = IvBlock(ss.iv)
  ELSE IF kd = "cbc" THEN /\ \E m : RawBytes(ss.text, m)
                          /\ CbcKept(ss.key, ss.iv, dir, ss.text, ss.out, o.part, o.iv)
  ELSE \E a : Streamed(kd, ss.key, ss.iv, dir, a, ss.text, ss.out, o.iv)

\* x, of a blocks, has become XTS's y; before the first block there is
\* nothing to say.
XtsStreamed(k, v, dir, a, x, y) ==
  /\ a \in Nat /\ Long(x, Block * a) /\ Long(y, Block * a)
  /\ a = 0 \/ XtsRelates(k, v, 0, PlainOf(dir, x, y), CodedOf(dir, x, y))

\* The tweak is the one of the block the next call begins at.
XtsGoesOn(kd, o, ss, dir) ==
  IF kd = "segment" THEN o.multi => o.tweak.n = o.id
  ELSE IF ~o.multi THEN o.tweak.n = 0
  ELSE XtsStreamed(ss.key, ss.iv, dir, o.tweak.n, ss.text, ss.out)

\* A message that can go on has what its next call starts from.
GoesOn(kd, o, ss) ==
  ss.on /\ ss.whole =>
    \A dir \in Directions :
      ss.dir \in {"none", dir} =>
        IF kd \in {"xts", "segment"} THEN XtsGoesOn(kd, o, ss, dir) ELSE ModeGoesOn(kd, o, ss, dir)

\* What has come out so far is what the properties say.
ComesOut(kd, o, ss) ==
  ss.on /\ ss.dir # "none" =>
    LET p == PlainOf(ss.dir, ss.text, ss.out)
        c == CodedOf(ss.dir, ss.text, ss.out)
    IN CASE kd = "segment" -> o.multi => XtsRelates(ss.key, ss.iv, ss.start, p, c)
         [] kd = "xts" -> XtsRelates(ss.key, ss.iv, 0, p, c) /\ Len(ss.out) = Len(ss.text)
         [] OTHER -> /\ Relates(kd, ss.key, IvBlock(ss.iv), p, c)
                     /\ Len(ss.out) = IF kd = "cbc" /\ (StreamsIn(kd, o) \/ ss.dir = "decrypt")
                                      THEN Block * Blocks(ss.text) ELSE Len(ss.text)

\* The inductive invariant for the single text: the object is bound to the
\* message's key and IV, it holds what the next call goes on from, and what
\* has come out is the mode's.
SessionInv(kd, o, ss) ==
  /\ kd \in {"xts", "segment"} \cup Modes
  /\ IF kd \in {"xts", "segment"} THEN XtsShaped(o) ELSE GenericShaped(o)
  /\ SessionShaped(ss)
  /\ BoundTo(kd, o, ss) /\ GoesOn(kd, o, ss) /\ ComesOut(kd, o, ss)

(* Without a message there is nothing to say.                              *)
LEMMA NoMessage ==
  /\ SessionShaped(NoSession) /\ NoSession.on = FALSE
  /\ \A kd, o : BoundTo(kd, o, NoSession) /\ GoesOn(kd, o, NoSession) /\ ComesOut(kd, o, NoSession)
<1>1. SessionShaped(NoSession) /\ NoSession.on = FALSE
  BY DEF SessionShaped, NoSession
<1>2. \A kd, o : BoundTo(kd, o, NoSession) /\ GoesOn(kd, o, NoSession) /\ ComesOut(kd, o, NoSession)
  BY <1>1 DEF BoundTo, GoesOn, ComesOut
<1> QED BY <1>1, <1>2

(* A message begun on an object that has its key and IV.                   *)
NewMessage(k, v) == [NoSession EXCEPT !.on = TRUE, !.key = k, !.iv = v]

\* A message that has just begun.
Fresh(ss, k, v) ==
  /\ SessionShaped(ss) /\ ss.on = TRUE /\ ss.whole = TRUE /\ ss.key = k /\ ss.iv = v
  /\ ss.dir = "none" /\ ss.text = <<>> /\ ss.out = <<>>

(* A new message is a message that has just begun.                         *)
LEMMA NewMessageIs ==
  ASSUME NEW k, NEW v
  PROVE  Fresh(NewMessage(k, v), k, v)
BY DEF NewMessage, NoSession, SessionShaped, Fresh

(* XTS's invariant holds when a message begins.                            *)
LEMMA XtsMessageBegins ==
  ASSUME NEW k, NEW v, NEW kd \in {"xts", "segment"}, NEW o, XtsShaped(o), o.key = k, o.iv = v,
         o.tweak.key = k, o.tweak.iv = v, o.tweak.n = 0, o.id = 0
  PROVE  SessionInv(kd, o, NewMessage(k, v))
<1> DEFINE ss == NewMessage(k, v)
<1>1. /\ SessionShaped(ss) /\ ss.on = TRUE /\ ss.whole = TRUE /\ ss.key = k /\ ss.iv = v
      /\ ss.dir = "none" /\ ss.text = <<>> /\ ss.out = <<>>
  <2>1. Fresh(ss, k, v)
    BY NewMessageIs
  <2> HIDE DEF ss
  <2> QED BY <2>1 DEF Fresh
<1> HIDE DEF ss
<1>2. BoundTo(kd, o, ss)
  BY <1>1 DEF BoundTo
<1>3. ASSUME NEW dir PROVE XtsStreamed(k, v, dir, 0, <<>>, <<>>)
  BY EmptyText, BlockMultiple DEF XtsStreamed
<1>4. GoesOn(kd, o, ss)
  BY <1>1, <1>3 DEF GoesOn, XtsGoesOn
<1>5. ComesOut(kd, o, ss)
  BY <1>1 DEF ComesOut
<1> QED BY <1>1, <1>2, <1>4, <1>5 DEF SessionInv, ss

(* The other modes' invariant holds when a message begins.                 *)
LEMMA ModeMessageBegins ==
  ASSUME NEW k, NEW v, NEW kd \in Modes, NEW o, GenericShaped(o), o.key = k, o.iv = IvBlock(v),
         o.ivSet, o.part = <<>>
  PROVE  SessionInv(kd, o, NewMessage(k, v))
<1> DEFINE ss == NewMessage(k, v)
<1>0. kd \notin {"xts", "segment"}
  BY DEF Modes
<1>1. /\ SessionShaped(ss) /\ ss.on = TRUE /\ ss.whole = TRUE /\ ss.key = k /\ ss.iv = v
      /\ ss.dir = "none" /\ ss.text = <<>> /\ ss.out = <<>>
  <2>1. Fresh(ss, k, v)
    BY NewMessageIs
  <2> HIDE DEF ss
  <2> QED BY <2>1 DEF Fresh
<1> HIDE DEF ss
<1>2. BoundTo(kd, o, ss)
  BY <1>0, <1>1 DEF BoundTo
<1>3. ASSUME NEW dir PROVE ModeGoesOn(kd, o, ss, dir)
  <2>1. CASE ~StreamsIn(kd, o)
    BY <1>1, <2>1 DEF ModeGoesOn
  <2>2. CASE StreamsIn(kd, o) /\ kd = "cbc"
    <3>1. CbcKept(k, v, dir, <<>>, <<>>, <<>>, IvBlock(v))
      BY CbcBegins
    <3> QED BY <1>1, <2>2, <3>1, RawEmpty DEF ModeGoesOn
  <2>3. CASE StreamsIn(kd, o) /\ kd # "cbc"
    <3>1. kd \in Modes \ {"ofb"}
      BY <2>3 DEF StreamsIn
    <3>2. Streamed(kd, k, v, dir, 0, <<>>, <<>>, IvBlock(v))
      BY <3>1, StreamBegins
    <3> QED BY <1>1, <2>3, <3>2 DEF ModeGoesOn
  <2> QED BY <2>1, <2>2, <2>3
<1>4. GoesOn(kd, o, ss)
  BY <1>0, <1>3 DEF GoesOn
<1>5. ComesOut(kd, o, ss)
  BY <1>1 DEF ComesOut
<1> QED BY <1>0, <1>1, <1>2, <1>4, <1>5 DEF SessionInv, ss

(* A message is as good on an object that has the same in these fields.    *)
SameStream(o, p) ==
  /\ p.multi = o.multi /\ p.key = o.key /\ p.iv = o.iv /\ p.part = o.part
  /\ o.ivSet => p.ivSet

(* Calls that leave key, IV and partial block alone leave the message      *)
(* alone.                                                                  *)
LEMMA SameStreamIs ==
  ASSUME NEW kd \in Modes, NEW o, NEW ss, SessionInv(kd, o, ss), NEW p, GenericShaped(p),
         SameStream(o, p)
  PROVE  SessionInv(kd, p, ss)
<1>0. kd \notin {"xts", "segment"}
  BY DEF Modes
<1>1. SessionShaped(ss) /\ BoundTo(kd, o, ss) /\ GoesOn(kd, o, ss) /\ ComesOut(kd, o, ss)
  BY DEF SessionInv
<1>2. StreamsIn(kd, p) = StreamsIn(kd, o) /\ p.multi = o.multi
  BY DEF SameStream, StreamsIn
<1>3. BoundTo(kd, p, ss)
  BY <1>0, <1>1 DEF BoundTo, SameStream
<1>4. \A dir : ModeGoesOn(kd, o, ss, dir) => ModeGoesOn(kd, p, ss, dir)
  BY <1>2 DEF ModeGoesOn, SameStream
<1>5. GoesOn(kd, p, ss)
  BY <1>0, <1>1, <1>4 DEF GoesOn
<1>6. ComesOut(kd, p, ss)
  BY <1>1, <1>2 DEF ComesOut
<1> QED BY <1>0, <1>1, <1>3, <1>5, <1>6 DEF SessionInv

(* Without a message the invariant asks only for the object's fields.      *)
LEMMA MessageEnds ==
  ASSUME NEW kd \in {"xts", "segment"} \cup Modes, NEW o,
         IF kd \in {"xts", "segment"} THEN XtsShaped(o) ELSE GenericShaped(o)
  PROVE  SessionInv(kd, o, NoSession)
BY NoMessage DEF SessionInv

\* What a call that is not about the texts leaves as it was.
GenericKept(o, p) ==
  /\ GenericShaped(p) /\ p.multi = o.multi /\ p.part = o.part
  /\ p.ivs = o.ivs /\ p.data = o.data /\ p.lens = o.lens

(* Setting the IV changes no more than it.                                 *)
LEMMA SetIvIs ==
  ASSUME NEW o, GenericShaped(o), NEW b
  PROVE  /\ GenericKept(o, GenericSetIv(o, b)) /\ GenericSetIv(o, b).key = o.key
         /\ GenericSetIv(o, b).iv = b /\ GenericSetIv(o, b).ivSet
         /\ GenericSetIv(o, b).keySet = o.keySet
BY DEF GenericKept, GenericShaped, GenericSetIv

(* Setting the key changes no more than it.                                *)
LEMMA SetKeyIs ==
  ASSUME NEW o, GenericShaped(o), NEW k
  PROVE  /\ GenericKept(o, GenericSetKey(o, k)) /\ GenericSetKey(o, k).key = k
         /\ GenericSetKey(o, k).iv = o.iv /\ GenericSetKey(o, k).ivSet = o.ivSet
BY DEF GenericKept, GenericShaped, GenericSetKey

(* What two calls leave alone stays as it was.                             *)
LEMMA KeptTwice ==
  \A o, p, q : GenericKept(o, p) /\ GenericKept(p, q) => GenericKept(o, q)
BY DEF GenericKept

(* A call without output returns its object and its error.                 *)
LEMMA DoneIs ==
  \A o, e : Done(o, e).obj = o /\ Done(o, e).err = e
BY DEF Done

\* The object after init, refused or not.
GenericInitDone(o, k, v, r) ==
  /\ GenericKept(o, r.obj)
  /\ r.obj.key = o.key \/ (r.obj.key = k /\ k \notin {NoKey, BadKey})
  /\ r.err = "NONE" /\ k \notin {NoKey, BadKey} /\ v \notin {NoIv, BadIv} =>
       r.obj.key = k /\ r.obj.iv = IvBlock(v) /\ r.obj.ivSet

(* Init sets what it was given, and leaves the buffers alone.              *)
LEMMA GenericInitIs ==
  ASSUME NEW o, GenericShaped(o), NEW k, NEW v, NEW r, r = GenericInit(o, k, v)
  PROVE  GenericInitDone(o, k, v, r)
<1> DEFINE p == IF v = NoIv THEN o ELSE GenericSetIv(o, IvBlock(v))
           q == GenericSetKey(p, k)
           z == GenericSetIv(q, ZeroBlock)
<1>0. GenericKept(o, o)
  BY DEF GenericKept
<1>1. /\ GenericKept(o, p) /\ p.key = o.key
      /\ v # NoIv => p.iv = IvBlock(v) /\ p.ivSet
  BY <1>0, SetIvIs
<1>2. GenericShaped(p)
  BY <1>1 DEF GenericKept
<1>3. r = IF v = BadIv THEN Done(o, "INVALID_SIZE")
          ELSE IF k = BadKey THEN Done(p, "INVALID_SIZE")
          ELSE IF k = NoKey THEN Done(p, "NONE")
          ELSE Done(IF q.ivSet THEN q ELSE z, "NONE")
  BY DEF GenericInit
<1> HIDE DEF p
<1>4. GenericKept(p, q) /\ q.key = k /\ q.iv = p.iv /\ q.ivSet = p.ivSet
  BY <1>2, SetKeyIs
<1>5. GenericShaped(q)
  BY <1>4 DEF GenericKept
<1> HIDE DEF q
<1>6. GenericKept(q, z) /\ z.key = q.key
  BY <1>5, SetIvIs
<1> HIDE DEF z
<1>7. GenericKept(o, q) /\ GenericKept(o, z)
  BY <1>1, <1>4, <1>6, KeptTwice
<1>8. CASE v = BadIv
  <2>1. r.obj = o
    BY <1>3, <1>8, DoneIs
  <2> QED BY <1>0, <1>8, <2>1 DEF GenericInitDone
<1>9. CASE v # BadIv /\ (k = BadKey \/ k = NoKey)
  <2>1. r.obj = p
    BY <1>3, <1>9, DoneIs
  <2> QED BY <1>1, <1>9, <2>1 DEF GenericInitDone
<1>10. CASE v # BadIv /\ k # BadKey /\ k # NoKey
  <2>1. r.obj = IF q.ivSet THEN q ELSE z
    BY <1>3, <1>10, DoneIs
  <2>2. r.obj \in {q, z} /\ (q.ivSet => r.obj = q)
    BY <2>1
  <2> QED BY <1>1, <1>4, <1>6, <1>7, <1>10, <2>2 DEF GenericInitDone
<1> QED BY <1>8, <1>9, <1>10

\* The XTS object after init.
XtsInitDone(o, k, v, r) ==
  /\ XtsShaped(r.obj) /\ r.obj.multi = o.multi
  /\ r.err = "NONE" /\ k \notin {NoKey, BadKey} /\ v \notin {NoIv, BadIv} =>
       /\ r.obj.key = k /\ r.obj.iv = v /\ r.obj.tweak.key = k /\ r.obj.tweak.iv = v
       /\ r.obj.tweak.n = 0 /\ r.obj.id = 0

(* Init of XTS begins a data unit at block 0.                              *)
LEMMA XtsInitIs ==
  ASSUME NEW o, XtsShaped(o), NEW k, NEW v, NEW r, r = XtsInit(o, k, v)
  PROVE  XtsInitDone(o, k, v, r)
<1> DEFINE p == IF k = NoKey THEN o ELSE [o EXCEPT !.key = k, !.st = OnKeySet(@)]
           q == XtsSetIv(p, v)
           z == [q EXCEPT !.st = OnIvSet(@)]
<1>1. XtsShaped(p) /\ p.multi = o.multi /\ (k # NoKey => p.key = k)
  BY DEF XtsShaped
<1>2. r = IF k = BadKey THEN Done(o, "INVALID_SIZE")
          ELSE IF v = BadIv THEN Done(p, "INVALID_SIZE")
          ELSE IF v = NoIv THEN Done(p, "NONE")
          ELSE Done(z, "NONE")
  BY DEF XtsInit
<1> HIDE DEF p
<1> DEFINE t == TweakOf(p, v)
<1>3. DOMAIN t = {"key", "iv", "n"} /\ t.key = p.key /\ t.iv = v /\ t.n = 0
  BY DEF TweakOf
<1>4. q = [p EXCEPT !.iv = v, !.tweak = t, !.id = 0]
  BY DEF XtsSetIv
<1> HIDE DEF t, q
<1>5. /\ DOMAIN q = {"multi", "st", "key", "iv", "tweak", "id"} /\ q.multi = p.multi
      /\ q.key = p.key /\ q.iv = v /\ q.tweak = t /\ q.id = 0
  BY <1>1, <1>4 DEF XtsShaped
<1>6. /\ DOMAIN z = {"multi", "st", "key", "iv", "tweak", "id"} /\ z.multi = p.multi
      /\ z.key = p.key /\ z.iv = v /\ z.tweak = t /\ z.id = 0
  BY <1>5
<1> HIDE DEF z
<1>7. XtsShaped(z) /\ z.multi = o.multi /\ z.tweak.key = p.key /\ z.tweak.iv = v /\ z.tweak.n = 0
  BY <1>1, <1>3, <1>6 DEF XtsShaped
<1>8. r.obj \in {o, p, z} /\ (k # BadKey /\ v \notin {NoIv, BadIv} => r.obj = z)
  BY <1>2, DoneIs
<1> QED BY <1>1, <1>6, <1>7, <1>8 DEF XtsInitDone

(* New objects have their fields.                                          *)
LEMMA NewShaped ==
  ASSUME NEW multi \in BOOLEAN
  PROVE  XtsShaped(XtsNew(multi)) /\ GenericShaped(GenericNew(multi))
BY DEF XtsShaped, GenericShaped, XtsNew, GenericNew

\* The copy of an object.
CopyDone(o, p) ==
  /\ GenericShaped(p) /\ p.multi = o.multi /\ p.key = o.key /\ p.part = <<>>
  /\ p.data = <<>> /\ p.lens = <<>>
  /\ o.ivSet => p.iv = o.iv /\ p.ivSet

(* A copy has the key and the IV, and no partial block.                    *)
LEMMA GenericCopyIs ==
  ASSUME NEW o, GenericShaped(o)
  PROVE  CopyDone(o, GenericCopy(o).obj)
<1> DEFINE n == GenericNew(o.multi)
           p == GenericSetKey(n, o.key)
           q == [p EXCEPT !.keySet = o.keySet]
           z == GenericSetIv(q, o.iv)
           c == IF o.ivSet THEN z ELSE q
<1>1. GenericCopy(o).obj = c
  BY DoneIs DEF GenericCopy
<1>2. GenericShaped(n) /\ n.multi = o.multi /\ n.part = <<>> /\ n.data = <<>> /\ n.lens = <<>>
  <2>1. o.multi \in BOOLEAN
    BY DEF GenericShaped
  <2>2. GenericShaped(n)
    BY <2>1, NewShaped
  <2> QED BY <2>2 DEF GenericNew
<1> HIDE DEF n
<1>3. GenericShaped(p) /\ p.multi = o.multi /\ p.part = <<>> /\ p.data = <<>> /\ p.lens = <<>>
      /\ p.key = o.key
  BY <1>2, SetKeyIs DEF GenericKept
<1> HIDE DEF p
<1>4. GenericShaped(q) /\ q.multi = o.multi /\ q.part = <<>> /\ q.data = <<>> /\ q.lens = <<>>
      /\ q.key = o.key
  BY <1>3 DEF GenericShaped
<1> HIDE DEF q
<1>5. GenericShaped(z) /\ z.multi = o.multi /\ z.part = <<>> /\ z.data = <<>> /\ z.lens = <<>>
      /\ z.key = o.key /\ z.iv = o.iv /\ z.ivSet
  BY <1>4, SetIvIs DEF GenericKept
<1> HIDE DEF z
<1> QED BY <1>1, <1>4, <1>5 DEF CopyDone

\* The invariant of the handle.
SessionNow == SessionInv(kind, obj, s)

(* It holds when the handle is requested.                                  *)
LEMMA SessionStarts ==
  ASSUME CipherInit
  PROVE  SessionNow
<1>1. kind \in {"xts", "segment"} \cup Modes
  BY SessionAssumption DEF CipherInit, Modes
<1>2. PICK multi \in Builds[kind] : obj = IF IsXts THEN XtsNew(multi) ELSE GenericNew(multi)
  BY DEF CipherInit
<1>3. multi \in BOOLEAN
  BY <1>2, SessionAssumption DEF CipherInit
<1>4. IF kind \in {"xts", "segment"} THEN XtsShaped(obj) ELSE GenericShaped(obj)
  BY <1>2, <1>3, NewShaped DEF IsXts
<1> QED BY <1>1, <1>4, MessageEnds DEF CipherInit, SessionNow

(* What kind of object is behind the handle.                               *)
LEMMA SessionKinds ==
  ASSUME SessionNow
  PROVE  /\ kind \in {"xts", "segment"} \cup Modes
         /\ IsXts => kind \in {"xts", "segment"} /\ XtsShaped(obj)
         /\ ~IsXts => kind \in Modes /\ kind \notin {"xts", "segment"} /\ GenericShaped(obj)
         /\ IsMulti => ~IsXts
         /\ s \in {s} /\ SessionShaped(s)
BY DEF SessionNow, SessionInv, IsXts, IsMulti, Modes

\* Every key of the session is one the classes take.
LEMMA TakenKeys ==
  /\ \A k \in Keys : k \notin {NoKey, BadKey}
  /\ \A v \in Ivs : v \notin {NoIv, BadIv}
BY SessionAssumption

(* Init and the multi-buffer init begin a message, or end the one there    *)
(* was.                                                                    *)
LEMMA BegunIs ==
  ASSUME NEW k, NEW v, NEW o
  PROVE  \/ Begun(k, v, o) = NoSession
         \/ /\ k \in Keys /\ v \in Ivs /\ (IsXts \/ o.part = <<>>)
            /\ Begun(k, v, o) = NewMessage(k, v)
BY DEF Begun, NewMessage

(* alcp_cipher_init and its segment twin preserve the invariant, whatever  *)
(* they refuse.                                                            *)
LEMMA SessionInit ==
  ASSUME SessionNow, NEW k, NEW v, InitCall(k, v)
  PROVE  SessionNow'
<1> DEFINE r == IF k = NoKey /\ v = NoIv THEN Done(obj, "INVALID_ARG")
                ELSE IF IsXts THEN XtsInit(obj, k, v) ELSE GenericInit(obj, k, v)
<1>1. /\ obj' = r.obj /\ kind' = kind
      /\ s' = IF r.obj = obj /\ r.err # "NONE" THEN s
              ELSE IF r.err = "NONE" THEN Begun(k, v, obj) ELSE NoSession
  BY Zenon DEF InitCall
<1>2. CASE k = NoKey /\ v = NoIv
  <2>1. r.obj = obj /\ r.err # "NONE"
    BY <1>2, DoneIs
  <2> HIDE DEF r
  <2> QED BY <1>1, <2>1 DEF SessionNow
<1>3. CASE IsXts /\ ~(k = NoKey /\ v = NoIv)
  <2>1. XtsInitDone(obj, k, v, r)
    <3>1. r = XtsInit(obj, k, v)
      BY <1>3
    <3> HIDE DEF r
    <3> QED BY <1>3, <3>1, SessionKinds, XtsInitIs
  <2> HIDE DEF r
  <2>2. XtsShaped(r.obj) /\ kind \in {"xts", "segment"}
    BY <1>3, <2>1, SessionKinds DEF XtsInitDone
  <2>3. SessionInv(kind, r.obj, NoSession)
    BY <2>2, MessageEnds
  <2>4. k \in Keys /\ v \in Ivs /\ r.err = "NONE" => SessionInv(kind, r.obj, NewMessage(k, v))
    <3> SUFFICES ASSUME k \in Keys, v \in Ivs, r.err = "NONE"
                 PROVE  SessionInv(kind, r.obj, NewMessage(k, v))
      OBVIOUS
    <3> DEFINE o == r.obj
    <3>1. /\ XtsShaped(o) /\ o.key = k /\ o.iv = v /\ o.tweak.key = k /\ o.tweak.iv = v
          /\ o.tweak.n = 0 /\ o.id = 0
      BY <2>1, TakenKeys DEF XtsInitDone
    <3> HIDE DEF o
    <3>2. SessionInv(kind, o, NewMessage(k, v))
      BY <2>2, <3>1, XtsMessageBegins
    <3> QED BY <3>2 DEF o
  <2>5. \/ s' = s /\ r.obj = obj
        \/ s' = NoSession
        \/ s' = NewMessage(k, v) /\ k \in Keys /\ v \in Ivs /\ r.err = "NONE"
    BY <1>1, BegunIs, Zenon
  <2> QED BY <1>1, <2>3, <2>4, <2>5 DEF SessionNow
<1>4. CASE ~IsXts /\ ~(k = NoKey /\ v = NoIv)
  <2>1. GenericInitDone(obj, k, v, r)
    <3>1. r = GenericInit(obj, k, v)
      BY <1>4
    <3> HIDE DEF r
    <3> QED BY <1>4, <3>1, SessionKinds, GenericInitIs
  <2> HIDE DEF r
  <2>2. GenericShaped(r.obj) /\ kind \in Modes /\ kind \notin {"xts", "segment"}
        /\ r.obj.part = obj.part
    BY <1>4, <2>1, SessionKinds DEF GenericInitDone, GenericKept
  <2>3. SessionInv(kind, r.obj, NoSession)
    BY <2>2, MessageEnds
  <2>4. k \in Keys /\ v \in Ivs /\ r.err = "NONE" /\ obj.part = <<>>
          => SessionInv(kind, r.obj, NewMessage(k, v))
    <3> SUFFICES ASSUME k \in Keys, v \in Ivs, r.err = "NONE", obj.part = <<>>
                 PROVE  SessionInv(kind, r.obj, NewMessage(k, v))
      OBVIOUS
    <3> DEFINE o == r.obj
    <3>1. GenericShaped(o) /\ o.key = k /\ o.iv = IvBlock(v) /\ o.ivSet /\ o.part = <<>>
      BY <2>1, <2>2, TakenKeys DEF GenericInitDone
    <3> HIDE DEF o
    <3>2. SessionInv(kind, o, NewMessage(k, v))
      BY <2>2, <3>1, ModeMessageBegins
    <3> QED BY <3>2 DEF o
  <2>5. \/ s' = s /\ r.obj = obj
        \/ s' = NoSession
        \/ s' = NewMessage(k, v) /\ k \in Keys /\ v \in Ivs /\ r.err = "NONE" /\ obj.part = <<>>
    BY <1>1, <1>4, BegunIs, Zenon
  <2> QED BY <1>1, <2>3, <2>4, <2>5 DEF SessionNow
<1> QED BY <1>2, <1>3, <1>4

(* A copied handle goes on with the message (GenericCopy).                 *)
LEMMA SessionCopy ==
  ASSUME SessionNow, ContextCopy
  PROVE  SessionNow'
<1>1. CASE IsXts
  <2>1. obj' = obj /\ s' = s /\ kind' = kind
    BY <1>1, DoneIs DEF ContextCopy
  <2> QED BY <2>1 DEF SessionNow
<1>2. CASE ~IsXts
  <2> DEFINE p == GenericCopy(obj).obj
  <2>1. /\ obj' = p /\ kind' = kind
        /\ s' = IF obj.part = <<>> THEN s ELSE NoSession
    BY <1>2 DEF ContextCopy
  <2>2. CopyDone(obj, p) /\ kind \in Modes /\ kind \notin {"xts", "segment"}
    BY <1>2, SessionKinds, GenericCopyIs
  <2> HIDE DEF p
  <2>3. GenericShaped(p)
    BY <2>2 DEF CopyDone
  <2>4. SessionInv(kind, p, NoSession)
    BY <2>2, <2>3, MessageEnds
  <2>5. CASE obj.part = <<>> /\ s.on
    <3>1. obj.ivSet
      BY <2>2, <2>5 DEF SessionNow, SessionInv, BoundTo
    <3>2. SameStream(obj, p)
      BY <2>2, <2>5, <3>1 DEF CopyDone, SameStream
    <3>3. SessionInv(kind, p, s)
      BY <2>2, <2>3, <3>2, SameStreamIs DEF SessionNow
    <3> QED BY <2>1, <2>5, <3>3 DEF SessionNow
  <2>6. CASE obj.part = <<>> /\ ~s.on
    <3>1. SessionInv(kind, p, s)
      BY <2>2, <2>3, <2>6 DEF SessionNow, SessionInv, BoundTo, GoesOn, ComesOut
    <3> QED BY <2>1, <2>6, <3>1 DEF SessionNow
  <2>7. CASE obj.part # <<>>
    BY <2>1, <2>4, <2>7 DEF SessionNow
  <2> QED BY <2>5, <2>6, <2>7
<1> QED BY <1>1, <1>2

(* A call with output returns its object and its output.                   *)
LEMMA WroteIs ==
  \A o, y, n : Wrote(o, y, n).obj = o /\ Wrote(o, y, n).err = "NONE" /\ Wrote(o, y, n).out = y
BY DEF Wrote

\* The object after a call that wrote: another chaining block, and CBC's rest.
Moved(o, p, c, part) ==
  /\ GenericShaped(p) /\ p.multi = o.multi /\ p.key = o.key /\ p.ivSet = o.ivSet
  /\ p.iv = c /\ p.part = part
  /\ p.keySet = o.keySet /\ p.ivs = o.ivs /\ p.data = o.data /\ p.lens = o.lens

\* The object and the output of a kernel.
KernelDone(o, mode, dir, x, r) ==
  /\ Moved(o, r.obj, WrittenBack(o.multi, mode, o.iv, ModeText(mode, dir, o.key, o.iv, x)), o.part)
  /\ r.err = "NONE" /\ r.out = ModeText(mode, dir, o.key, o.iv, x).out

(* A kernel moves the IV and nothing else.                                 *)
LEMMA KernelIs ==
  ASSUME NEW o, GenericShaped(o), NEW mode, NEW dir, NEW x, NEW r, r = Kernel(o, mode, dir, x)
  PROVE  KernelDone(o, mode, dir, x, r)
<1> DEFINE t == ModeText(mode, dir, o.key, o.iv, x)
           c == WrittenBack(o.multi, mode, o.iv, t)
           p == [o EXCEPT !.iv = c]
<1>1. r = Wrote(p, t.out, Len(x))
  BY DEF Kernel
<1> HIDE DEF c, t
<1>2. Moved(o, p, c, o.part)
  BY DEF Moved, GenericShaped
<1> HIDE DEF p
<1>3. r.obj = p /\ r.err = "NONE" /\ r.out = t.out
  BY <1>1, WroteIs
<1> QED BY <1>2, <1>3 DEF KernelDone, c, t

\* The object and the output of CBC in pieces.
CbcDone(o, dir, x, r) ==
  LET all == o.part \o x
      n == Block * Blocks(all)
      t == ModeText("cbc", dir, o.key, o.iv, First(all, n))
  IN /\ Moved(o, r.obj, t.next, Rest(all, n))
     /\ r.err = "NONE" /\ r.out = t.out

(* CBC in pieces moves the IV and the partial block and nothing else.      *)
LEMMA CbcUpdateIs ==
  ASSUME NEW o, GenericShaped(o), NEW dir, NEW x, NEW r, r = CbcUpdate(o, dir, x)
  PROVE  CbcDone(o, dir, x, r)
<1> DEFINE all == o.part \o x
           n == Block * Blocks(all)
           t == ModeText("cbc", dir, o.key, o.iv, First(all, n))
           e == Rest(all, n)
           p == [o EXCEPT !.iv = t.next, !.part = e]
<1>1. r = Wrote(p, t.out, n)
  BY DEF CbcUpdate
<1>2. CbcDone(o, dir, x, r) <=> Moved(o, r.obj, t.next, e) /\ r.err = "NONE" /\ r.out = t.out
  BY DEF CbcDone
<1> HIDE DEF t, e, n
<1>3. Moved(o, p, t.next, e)
  BY DEF Moved, GenericShaped
<1> HIDE DEF p
<1>4. r.obj = p /\ r.err = "NONE" /\ r.out = t.out
  BY <1>1, WroteIs
<1> QED BY <1>2, <1>3, <1>4

\* The message with one more call.
Longer(ss, dir, text, y, whole) ==
  [ss EXCEPT !.dir = dir, !.text = text, !.out = y, !.whole = whole]

\* A message with another call in it.
LongerIs(ss, n, dir, text, y, whole) ==
  /\ SessionShaped(n) /\ n.on = ss.on /\ n.key = ss.key /\ n.iv = ss.iv
  /\ n.dir = dir /\ n.text = text /\ n.out = y /\ n.whole = whole

(* Its other fields are as they were.                                      *)
LEMMA LongerDone ==
  ASSUME NEW ss, SessionShaped(ss), NEW dir \in Directions, NEW text, NEW y, NEW whole \in BOOLEAN
  PROVE  LongerIs(ss, Longer(ss, dir, text, y, whole), dir, text, y, whole)
BY DEF LongerIs, Longer, SessionShaped

(* A message with a direction keeps it.                                    *)
LEMMA DirectionIs ==
  ASSUME NEW dir \in Directions, NEW d \in Directions, dir \in {"none", d}
  PROVE  d = dir
BY DEF Directions

(* CBC in pieces.                                                          *)
LEMMA CbcCall ==
  ASSUME NEW o, NEW ss, SessionInv("cbc", o, ss), ss.on, ss.whole, o.multi,
         NEW dir \in Directions, ss.dir \in {"none", dir}, NEW x, NEW m, RawBytes(x, m),
         NEW r, r = CbcUpdate(o, dir, x)
  PROVE  SessionInv("cbc", r.obj, Longer(ss, dir, ss.text \o x, ss.out \o r.out, TRUE))
<1> DEFINE n == Longer(ss, dir, ss.text \o x, ss.out \o r.out, TRUE)
           p == r.obj
           all == o.part \o x
           l == Block * Blocks(all)
           g == First(all, l)
           t == ModeText("cbc", dir, o.key, o.iv, g)
<1>0. "cbc" \in Modes /\ "cbc" \notin {"xts", "segment"} /\ "cbc" # "ofb" /\ "cbc" # "segment" /\ "cbc" # "xts"
  BY DEF Modes
<1>1. GenericShaped(o) /\ SessionShaped(ss) /\ BoundTo("cbc", o, ss) /\ GoesOn("cbc", o, ss)
  BY <1>0 DEF SessionInv
<1>2. Moved(o, p, t.next, Rest(all, l)) /\ r.out = t.out
  <2>1. CbcDone(o, dir, x, r)
    BY <1>1, CbcUpdateIs
  <2> QED BY <2>1 DEF CbcDone
<1> DEFINE T == ss.text \o x
           Y == ss.out \o r.out
<1>3. LongerIs(ss, n, dir, T, Y, TRUE)
  BY <1>1, LongerDone
<1> HIDE DEF n, p
<1>4. StreamsIn("cbc", o) /\ StreamsIn("cbc", p) /\ p.multi
  BY <1>0, <1>2 DEF StreamsIn, Moved
<1>5. o.key = ss.key /\ o.ivSet /\ ModeGoesOn("cbc", o, ss, dir)
  BY <1>0, <1>1 DEF BoundTo, GoesOn
<1>6. PICK a : RawBytes(ss.text, a)
  BY <1>4, <1>5 DEF ModeGoesOn
<1>7. CbcKept(ss.key, ss.iv, dir, ss.text, ss.out, o.part, o.iv)
  BY <1>4, <1>5 DEF ModeGoesOn
<1>8. CbcKept(ss.key, ss.iv, dir, T, ss.out \o t.out, Rest(all, l), t.next)
  <2>1. t = ModeText("cbc", dir, ss.key, o.iv, g)
    BY <1>5
  <2> HIDE DEF t, T
  <2> QED BY <1>6, <1>7, <2>1, CbcGoesOn DEF T
<1>9. CbcKept(n.key, n.iv, dir, n.text, n.out, p.part, p.iv)
  BY <1>2, <1>3, <1>8 DEF LongerIs, Moved
<1>10. RawBytes(n.text, a + m)
  BY <1>3, <1>6, RawJoin DEF LongerIs
<1>11. GenericShaped(p) /\ SessionShaped(n) /\ n.on = ss.on /\ n.dir = dir /\ n.key = ss.key
       /\ p.key = o.key /\ p.ivSet = o.ivSet
  BY <1>2, <1>3 DEF Moved, LongerIs
<1> HIDE DEF T, Y, t, l, all
<1>12. BoundTo("cbc", p, n)
  BY <1>0, <1>5, <1>11 DEF BoundTo
<1>13. GoesOn("cbc", p, n)
  <2> SUFFICES ASSUME NEW d \in Directions, n.dir \in {"none", d}
               PROVE  ModeGoesOn("cbc", p, n, d)
    BY <1>0 DEF GoesOn
  <2>1. d = dir
    BY <1>11, DirectionIs
  <2> QED BY <1>4, <1>9, <1>10, <2>1 DEF ModeGoesOn
<1>14. ComesOut("cbc", p, n)
  <2>1. /\ Len(n.out) = Block * Blocks(n.text)
        /\ Relates("cbc", n.key, IvBlock(n.iv), PlainOf(n.dir, n.text, n.out), CodedOf(n.dir, n.text, n.out))
    BY <1>9, <1>10, <1>11, CbcKeptIsMode
  <2> QED BY <1>0, <1>4, <2>1 DEF ComesOut
<1> QED BY <1>0, <1>11, <1>12, <1>13, <1>14 DEF SessionInv, n, p, T, Y

(* CFB and CTR in pieces.                                                  *)
LEMMA StreamCall ==
  ASSUME NEW kd \in {"cfb", "ctr"}, NEW o, NEW ss, SessionInv(kd, o, ss), ss.on, ss.whole, o.multi,
         NEW dir \in Directions, ss.dir \in {"none", dir}, NEW x, NEW m, RawBytes(x, m),
         NEW r, r = Kernel(o, kd, dir, x)
  PROVE  SessionInv(kd, r.obj, Longer(ss, dir, ss.text \o x, ss.out \o r.out, Remainder(x) = <<>>))
<1> DEFINE T == ss.text \o x
           Y == ss.out \o r.out
           w == Remainder(x) = <<>>
           n == Longer(ss, dir, T, Y, w)
           p == r.obj
           t == ModeText(kd, dir, o.key, o.iv, x)
<1>0. kd \in Modes \ {"ofb"} /\ kd \notin {"xts", "segment"} /\ kd # "ofb" /\ kd # "segment" /\ kd # "xts"
      /\ kd # "cbc"
  BY DEF Modes
<1>1. GenericShaped(o) /\ SessionShaped(ss) /\ BoundTo(kd, o, ss) /\ GoesOn(kd, o, ss)
  BY <1>0 DEF SessionInv
<1>2. Moved(o, p, t.next, o.part) /\ r.out = t.out
  <2>1. KernelDone(o, kd, dir, x, r)
    BY <1>1, KernelIs
  <2>2. WrittenBack(o.multi, kd, o.iv, t) = t.next
    BY <1>0 DEF WrittenBack
  <2> QED BY <2>1, <2>2 DEF KernelDone
<1>3. LongerIs(ss, n, dir, T, Y, w)
  <2>1. w \in BOOLEAN
    OBVIOUS
  <2> HIDE DEF T, Y, w
  <2> QED BY <1>1, <2>1, LongerDone
<1> HIDE DEF n, p
<1>4. StreamsIn(kd, o) /\ StreamsIn(kd, p) /\ p.multi
  BY <1>0, <1>2 DEF StreamsIn, Moved
<1>5. o.key = ss.key /\ o.ivSet /\ ModeGoesOn(kd, o, ss, dir)
  BY <1>0, <1>1 DEF BoundTo, GoesOn
<1>6. PICK a : Streamed(kd, ss.key, ss.iv, dir, a, ss.text, ss.out, o.iv)
  BY <1>0, <1>4, <1>5 DEF ModeGoesOn
<1>7. StreamedOn(kd, ss.key, ss.iv, dir, a, ss.text, ss.out, m, x, t.out, t.next)
  <2>1. t = ModeText(kd, dir, ss.key, o.iv, x)
    BY <1>5
  <2> HIDE DEF t
  <2> QED BY <1>0, <1>6, <2>1, StreamGoesOn
<1>8. /\ Long(T, Block * a + m) /\ Long(Y, Block * a + m)
      /\ Relates(kd, ss.key, IvBlock(ss.iv), PlainOf(dir, T, Y), CodedOf(dir, T, Y))
      /\ m = Block * (m \div Block) =>
           Streamed(kd, ss.key, ss.iv, dir, a + m \div Block, T, Y, t.next)
  BY <1>2, <1>7 DEF StreamedOn
<1>9. w => m = Block * (m \div Block)
  BY RawIsLong
<1>10. GenericShaped(p) /\ SessionShaped(n) /\ n.on = ss.on /\ n.dir = dir /\ n.key = ss.key /\ n.iv = ss.iv
       /\ p.key = o.key /\ p.ivSet = o.ivSet /\ n.text = T /\ n.out = Y /\ n.whole = w /\ p.iv = t.next
  BY <1>2, <1>3 DEF Moved, LongerIs
<1> HIDE DEF T, Y, t, w
<1>11. BoundTo(kd, p, n)
  BY <1>0, <1>5, <1>10 DEF BoundTo
<1>12. GoesOn(kd, p, n)
  <2> SUFFICES ASSUME NEW d \in Directions, n.dir \in {"none", d}, n.whole
               PROVE  ModeGoesOn(kd, p, n, d)
    BY <1>0 DEF GoesOn
  <2>1. d = dir
    BY <1>10, DirectionIs
  <2>2. Streamed(kd, n.key, n.iv, dir, a + m \div Block, n.text, n.out, p.iv)
    BY <1>8, <1>9, <1>10
  <2> QED BY <1>0, <1>4, <2>1, <2>2 DEF ModeGoesOn
<1>13. ComesOut(kd, p, n)
  <2>1. Len(n.out) = Len(n.text)
    BY <1>8, <1>10, LongIsText
  <2> QED BY <1>0, <1>8, <1>10, <2>1 DEF ComesOut
<1> QED BY <1>0, <1>10, <1>11, <1>12, <1>13 DEF SessionInv, n, p, T, Y, w

(* Each call a message of its own: nothing is left in the stored IV.       *)
LEMMA SingleCall ==
  ASSUME NEW kd \in Modes, NEW o, NEW ss, SessionInv(kd, o, ss), ss.on, ss.whole,
         ~StreamsIn(kd, o),
         NEW dir \in Directions, ss.dir \in {"none", dir}, NEW x, NEW m, RawBytes(x, m),
         NEW r, r = Kernel(o, kd, dir, x)
  PROVE  SessionInv(kd, r.obj, Longer(ss, dir, x, r.out, TRUE))
<1> DEFINE n == Longer(ss, dir, x, r.out, TRUE)
           p == r.obj
           t == ModeText(kd, dir, o.key, o.iv, x)
<1>0. kd \notin {"xts", "segment"} /\ kd # "segment" /\ kd # "xts"
  BY DEF Modes
<1>1. GenericShaped(o) /\ SessionShaped(ss) /\ BoundTo(kd, o, ss) /\ GoesOn(kd, o, ss)
  BY <1>0 DEF SessionInv
<1>2. Moved(o, p, o.iv, o.part) /\ r.out = t.out
  <2>1. KernelDone(o, kd, dir, x, r)
    BY <1>1, KernelIs
  <2>2. WrittenBack(o.multi, kd, o.iv, t) = o.iv
    BY DEF WrittenBack, StreamsIn
  <2> QED BY <2>1, <2>2 DEF KernelDone
<1>3. LongerIs(ss, n, dir, x, r.out, TRUE)
  BY <1>1, LongerDone
<1> HIDE DEF n, p
<1>4. ~StreamsIn(kd, p)
  BY <1>2 DEF StreamsIn, Moved
<1>5. o.key = ss.key /\ o.ivSet /\ o.iv = IvBlock(ss.iv)
  <2>1. ModeGoesOn(kd, o, ss, dir)
    BY <1>0, <1>1 DEF GoesOn
  <2> QED BY <1>0, <1>1, <2>1 DEF BoundTo, ModeGoesOn
<1>6. /\ Long(t.out, TextLen(kd, dir, m))
      /\ Relates(kd, o.key, o.iv, PlainOf(dir, x, t.out), CodedOf(dir, x, t.out))
  <2>1. ChainStart(kd, o.iv)
    BY <1>5, IvStarts
  <2> HIDE DEF t
  <2>2. t = ModeText(kd, dir, o.key, o.iv, x)
    BY DEF t
  <2> QED BY <2>1, <2>2, ModeTextIs
<1>10. GenericShaped(p) /\ SessionShaped(n) /\ n.on = ss.on /\ n.dir = dir /\ n.key = ss.key /\ n.iv = ss.iv
       /\ p.key = o.key /\ p.ivSet = o.ivSet /\ n.text = x /\ n.out = t.out /\ p.iv = o.iv
  BY <1>2, <1>3 DEF Moved, LongerIs
<1> HIDE DEF t
<1>11. BoundTo(kd, p, n)
  BY <1>0, <1>5, <1>10 DEF BoundTo
<1>12. GoesOn(kd, p, n)
  BY <1>0, <1>4, <1>5, <1>10 DEF GoesOn, ModeGoesOn
<1>13. ComesOut(kd, p, n)
  <2>1. Len(n.out) = TextLen(kd, dir, m) /\ Len(n.text) = m /\ Blocks(n.text) = m \div Block
    BY <1>6, <1>10, LongIsText, RawIsLong
  <2>2. Len(n.out) = IF kd = "cbc" /\ (StreamsIn(kd, p) \/ n.dir = "decrypt")
                     THEN Block * Blocks(n.text) ELSE Len(n.text)
    BY <1>4, <1>10, <2>1 DEF TextLen
  <2> QED BY <1>0, <1>5, <1>6, <1>10, <2>2 DEF ComesOut
<1> QED BY <1>0, <1>10, <1>11, <1>12, <1>13 DEF SessionInv, n, p

\* What an XTS call does.
XtsDoneBy(o, x, m, dir, drift, r) ==
  /\ XtsShaped(r.obj) /\ r.obj.multi = o.multi
  /\ r.obj.key = o.key /\ r.obj.iv = o.iv /\ r.obj.tweak.key = o.tweak.key /\ r.obj.tweak.iv = o.tweak.iv
  /\ r.err = "NONE" =>
       /\ m >= Block
       /\ r.out = XtsText(o.key, o.tweak, x, dir)
       /\ r.obj.id = o.id + m \div Block
       /\ r.obj.tweak.n = IF ~o.multi THEN o.tweak.n
                          ELSE o.tweak.n + m \div Block + IF Remainder(x) = <<>> THEN 0 ELSE drift
  /\ r.err # "NONE" => r.obj = o

(* XTS refuses less than a block, and otherwise moves its tweak.           *)
LEMMA XtsCryptIs ==
  ASSUME NEW o, XtsShaped(o), NEW x, NEW m, RawBytes(x, m), NEW dir, NEW drift \in Int,
         NEW r, r = XtsCrypt(o, x, dir, drift)
  PROVE  XtsDoneBy(o, x, m, dir, drift, r)
<1> DEFINE q == m \div Block
           i == o.id + q
           j == IF ~o.multi THEN o.tweak.n
                ELSE o.tweak.n + q + IF Remainder(x) = <<>> THEN 0 ELSE drift
           p == [o EXCEPT !.id = i, !.tweak.n = j]
           y == XtsText(o.key, o.tweak, x, dir)
<1>1. q \in Nat /\ m \in Nat /\ Blocks(x) = q /\ Len(x) = m
  BY RawIsLong
<1>2. i \in Int /\ j \in Int
  BY <1>1 DEF XtsShaped
<1>3. r = IF o.st # "Ready" THEN Done(o, "BAD_STATE")
          ELSE IF m < Block \/ m > XtsMaxLen THEN Done(o, "INVALID_DATA")
          ELSE Wrote(p, y, m)
  BY <1>1 DEF XtsCrypt
<1> HIDE DEF y, q, i, j
<1>4. /\ XtsShaped(p) /\ p.multi = o.multi /\ p.key = o.key /\ p.iv = o.iv
      /\ p.tweak.key = o.tweak.key /\ p.tweak.iv = o.tweak.iv /\ p.id = i /\ p.tweak.n = j
  BY <1>2 DEF XtsShaped
<1> HIDE DEF p
<1>5. CASE o.st # "Ready" \/ m < Block \/ m > XtsMaxLen
  <2>1. r.obj = o /\ r.err # "NONE"
    BY <1>3, <1>5, DoneIs
  <2> QED BY <2>1 DEF XtsDoneBy
<1>6. CASE ~(o.st # "Ready" \/ m < Block \/ m > XtsMaxLen)
  <2>1. r.obj = p /\ r.out = y /\ r.err = "NONE"
    BY <1>3, <1>6, WroteIs
  <2>2. m >= Block
    BY <1>1, <1>6, BlockIs
  <2> QED BY <1>4, <2>1, <2>2 DEF XtsDoneBy, y, i, j, q
<1> QED BY <1>5, <1>6

(* XTS in pieces.                                                          *)
XtsGoneOn(k, v, dir, a, x, y, z, e, m) ==
  /\ XtsRelates(k, v, 0, PlainOf(dir, x \o z, y \o e), CodedOf(dir, x \o z, y \o e))
  /\ Len(x \o z) = Len(y \o e)
  /\ Remainder(z) = <<>> => XtsStreamed(k, v, dir, a + m \div Block, x \o z, y \o e)

(* A call of XTS whose tweak is the message's goes on with the message.    *)
LEMMA XtsStreamGoesOn ==
  ASSUME NEW k, NEW v, NEW dir \in Directions, NEW a, NEW x, NEW y, XtsStreamed(k, v, dir, a, x, y),
         NEW t, TweakShaped(t), t.key = k, t.iv = v, t.n = a,
         NEW z, NEW m, RawBytes(z, m), m >= Block, NEW e, e = XtsText(k, t, z, dir)
  PROVE  XtsGoneOn(k, v, dir, a, x, y, z, e, m)
<1> DEFINE q == m \div Block
           T == x \o z
           Y == y \o e
           b == Block * a
<1>1. a \in Nat /\ b \in Nat /\ Long(x, b) /\ Long(y, b) /\ q \in Nat /\ m \in Nat /\ Long(z, m)
  BY BlockMultiple, RawIsLong DEF XtsStreamed
<1>2. XtsDone(k, v, a, dir, z, m, e)
  BY XtsTextIs
<1>3. Long(e, m) /\ XtsRelates(k, v, a, PlainOf(dir, z, e), CodedOf(dir, z, e))
  BY <1>2 DEF XtsDone
<1>4. Long(T, b + m) /\ Long(Y, b + m)
  <2>1. Behind(x, a, b, z, m) /\ Behind(y, a, b, e, m)
    BY <1>1, <1>3, BehindIs
  <2> QED BY <2>1 DEF Behind
<1>5. PlainOf(dir, T, Y) = PlainOf(dir, x, y) \o PlainOf(dir, z, e)
      /\ CodedOf(dir, T, Y) = CodedOf(dir, x, y) \o CodedOf(dir, z, e)
  BY DEF PlainOf, CodedOf
<1> HIDE DEF T, Y
<1>6. XtsRelates(k, v, 0, PlainOf(dir, T, Y), CodedOf(dir, T, Y))
  <2>1. CASE a = 0
    <3>1. b = 0
      BY <2>1, BlockMultiple
    <3>2. x = <<>> /\ y = <<>>
      BY <1>1, <3>1, EmptyText
    <3>3. T = z /\ Y = e
      BY <1>1, <1>3, <3>2, JoinEmpty DEF T, Y
    <3> QED BY <1>3, <2>1, <3>3
  <2>2. CASE a # 0
    <3> DEFINE p == PlainOf(dir, x, y)
               c == CodedOf(dir, x, y)
               f == PlainOf(dir, z, e)
               d == CodedOf(dir, z, e)
               o == 0
    <3>1. Long(p, b) /\ Long(c, b) /\ Long(f, m) /\ Long(d, m)
      BY <1>1, <1>3 DEF PlainOf, CodedOf
    <3>2. XtsRelates(k, v, o, p, c) /\ o \in Nat /\ o + a = a /\ a \in Nat \ {0}
      BY <1>1, <2>2 DEF XtsStreamed
    <3>3. XtsRelates(k, v, o + a, f, d)
      BY <1>3, <3>2
    <3> HIDE DEF p, c, f, d, o
    <3>4. XtsRelates(k, v, o, p \o f, c \o d)
      BY <3>1, <3>2, <3>3, XtsRelatesJoin
    <3> QED BY <1>5, <3>4 DEF p, c, f, d, o
  <2> QED BY <2>1, <2>2
<1>7. Len(T) = Len(Y)
  BY <1>4, LongIsText
<1>8. ASSUME Remainder(z) = <<>>
      PROVE  XtsStreamed(k, v, dir, a + q, T, Y)
  <2>1. m = Block * q
    BY <1>8, RawIsLong
  <2>2. a + q \in Nat /\ Block * (a + q) = Block * a + Block * q
    <3> HIDE DEF q
    <3> QED BY <1>1, BlockMultiple
  <2>3. Block * (a + q) = b + m
    BY <2>1, <2>2
  <2> HIDE DEF q
  <2> QED BY <1>4, <1>6, <2>2, <2>3 DEF XtsStreamed
<1> QED BY <1>6, <1>7, <1>8 DEF T, Y, XtsGoneOn

(* A call of XTS goes on with the message (aes_xts.cc).                    *)
LEMMA XtsStreamCall ==
  ASSUME NEW o, NEW ss, SessionInv("xts", o, ss), ss.on, ss.whole, o.multi,
         NEW dir \in Directions, ss.dir \in {"none", dir}, NEW x, NEW m, RawBytes(x, m),
         NEW drift \in Int, NEW r, r.err = "NONE", XtsDoneBy(o, x, m, dir, drift, r)
  PROVE  SessionInv("xts", r.obj, Longer(ss, dir, ss.text \o x, ss.out \o r.out, Remainder(x) = <<>>))
<1> DEFINE T == ss.text \o x
           Y == ss.out \o r.out
           w == Remainder(x) = <<>>
           n == Longer(ss, dir, T, Y, w)
           p == r.obj
           t == o.tweak
           q == m \div Block
<1>0. "xts" \in {"xts", "segment"} /\ "xts" # "segment"
  OBVIOUS
<1>1. XtsShaped(o) /\ SessionShaped(ss) /\ BoundTo("xts", o, ss) /\ GoesOn("xts", o, ss)
  BY DEF SessionInv
<1>2. LongerIs(ss, n, dir, T, Y, w)
  <2>1. w \in BOOLEAN
    OBVIOUS
  <2> HIDE DEF T, Y, w
  <2> QED BY <1>1, <2>1, LongerDone
<1> HIDE DEF n
<1>3. o.key = ss.key /\ o.iv = ss.iv /\ t.key = ss.key /\ t.iv = ss.iv /\ o.id \in Nat
      /\ XtsStreamed(ss.key, ss.iv, dir, t.n, ss.text, ss.out)
  <2>1. XtsGoesOn("xts", o, ss, dir)
    BY <1>1 DEF GoesOn
  <2> QED BY <1>1, <2>1 DEF BoundTo, XtsGoesOn
<1>4. TweakShaped(t) /\ t.n \in Nat
  BY <1>1, <1>3 DEF TweakShaped, XtsShaped, XtsStreamed
<1>5. XtsShaped(p) /\ p.multi = o.multi /\ p.key = o.key /\ p.iv = o.iv /\ p.tweak.key = t.key /\ p.tweak.iv = t.iv
      /\ m >= Block /\ r.out = XtsText(ss.key, t, x, dir) /\ p.id = o.id + q
      /\ p.tweak.n = t.n + q + IF w THEN 0 ELSE drift
  BY <1>3 DEF XtsDoneBy
<1>6. /\ XtsRelates(ss.key, ss.iv, 0, PlainOf(dir, T, Y), CodedOf(dir, T, Y))
      /\ Len(T) = Len(Y)
      /\ w => XtsStreamed(ss.key, ss.iv, dir, t.n + q, T, Y)
  <2> DEFINE a == t.n
             e == r.out
  <2>1. XtsStreamed(ss.key, ss.iv, dir, a, ss.text, ss.out) /\ e = XtsText(ss.key, t, x, dir) /\ t.n = a
    BY <1>3, <1>5
  <2> HIDE DEF a, t, e
  <2>2. XtsGoneOn(ss.key, ss.iv, dir, a, ss.text, ss.out, x, e, m)
    BY <1>3, <1>4, <1>5, <2>1, XtsStreamGoesOn
  <2> QED BY <2>2 DEF a, e, t, XtsGoneOn
<1>7. q \in Nat
  BY RawIsLong
<1>8. XtsShaped(p) /\ SessionShaped(n) /\ n.on = ss.on /\ n.dir = dir /\ n.key = ss.key /\ n.iv = ss.iv
      /\ n.text = T /\ n.out = Y /\ n.whole = w /\ p.id \in Nat
  BY <1>2, <1>3, <1>5, <1>7 DEF LongerIs
<1> HIDE DEF T, Y, w, p, q, t
<1>9. BoundTo("xts", p, n)
  BY <1>3, <1>5, <1>8 DEF BoundTo
<1>10. GoesOn("xts", p, n)
  <2> SUFFICES ASSUME NEW d \in Directions, n.dir \in {"none", d}, n.whole
               PROVE  XtsGoesOn("xts", p, n, d)
    BY DEF GoesOn
  <2>1. d = dir
    BY <1>8, DirectionIs
  <2>2. t.n + q + 0 = t.n + q
    BY <1>4, <1>7
  <2>3. p.tweak.n = t.n + q
    BY <1>5, <1>8, <2>2
  <2> QED BY <1>5, <1>6, <1>8, <2>1, <2>3 DEF XtsGoesOn
<1>11. ComesOut("xts", p, n)
  BY <1>6, <1>8 DEF ComesOut
<1> QED BY <1>8, <1>9, <1>10, <1>11 DEF SessionInv, n, p, T, Y, w

(* Without AES_MULTI_UPDATE each call is a message of its own.             *)
LEMMA XtsSingleCall ==
  ASSUME NEW o, NEW ss, SessionInv("xts", o, ss), ss.on, ss.whole, ~o.multi,
         NEW dir \in Directions, ss.dir \in {"none", dir}, NEW x, NEW m, RawBytes(x, m),
         NEW drift \in Int, NEW r, r.err = "NONE", XtsDoneBy(o, x, m, dir, drift, r)
  PROVE  SessionInv("xts", r.obj, Longer(ss, dir, x, r.out, TRUE))
<1> DEFINE n == Longer(ss, dir, x, r.out, TRUE)
           p == r.obj
           t == o.tweak
           q == m \div Block
<1>1. XtsShaped(o) /\ SessionShaped(ss) /\ BoundTo("xts", o, ss) /\ GoesOn("xts", o, ss)
  BY DEF SessionInv
<1>2. LongerIs(ss, n, dir, x, r.out, TRUE)
  BY <1>1, LongerDone
<1> HIDE DEF n
<1>3. o.key = ss.key /\ o.iv = ss.iv /\ t.key = ss.key /\ t.iv = ss.iv /\ o.id \in Nat /\ t.n = 0
  <2>1. XtsGoesOn("xts", o, ss, dir)
    BY <1>1 DEF GoesOn
  <2> QED BY <1>1, <2>1 DEF BoundTo, XtsGoesOn
<1>4. TweakShaped(t)
  BY <1>1, <1>3 DEF TweakShaped, XtsShaped
<1>5. XtsShaped(p) /\ p.multi = o.multi /\ p.key = o.key /\ p.iv = o.iv /\ p.tweak.key = t.key /\ p.tweak.iv = t.iv
      /\ m >= Block /\ r.out = XtsText(ss.key, t, x, dir) /\ p.id = o.id + q /\ p.tweak.n = 0
  BY <1>3 DEF XtsDoneBy
<1>6. XtsDone(ss.key, ss.iv, t.n, dir, x, m, r.out)
  <2> HIDE DEF t
  <2> QED BY <1>3, <1>4, <1>5, XtsTextIs
<1>7. q \in Nat /\ Len(x) = m
  BY RawIsLong
<1>8. XtsShaped(p) /\ SessionShaped(n) /\ n.on = ss.on /\ n.dir = dir /\ n.key = ss.key /\ n.iv = ss.iv
      /\ n.text = x /\ n.out = r.out /\ p.id \in Nat
  BY <1>2, <1>3, <1>5, <1>7 DEF LongerIs
<1>9. Len(r.out) = m /\ XtsRelates(ss.key, ss.iv, 0, PlainOf(dir, x, r.out), CodedOf(dir, x, r.out))
  BY <1>3, <1>6, LongIsText DEF XtsDone
<1> HIDE DEF p, q, t
<1>10. BoundTo("xts", p, n)
  BY <1>3, <1>5, <1>8 DEF BoundTo
<1>11. GoesOn("xts", p, n)
  BY <1>5 DEF GoesOn, XtsGoesOn
<1>12. ComesOut("xts", p, n)
  BY <1>7, <1>8, <1>9 DEF ComesOut
<1> QED BY <1>8, <1>10, <1>11, <1>12 DEF SessionInv, n, p

\* The tweak is block b's, if it was the one the class believes it to be.
MovedTo(o, b, p) ==
  /\ XtsShaped(p) /\ p.multi = o.multi /\ p.key = o.key /\ p.iv = o.iv /\ p.id = b
  /\ b < o.id => p.tweak.key = o.key /\ p.tweak.iv = o.iv /\ p.tweak.n = b
  /\ ~(b < o.id) => /\ p.tweak.key = o.tweak.key /\ p.tweak.iv = o.tweak.iv
                    /\ o.tweak.n = o.id => p.tweak.n = b

(* A seek goes from the block the class believes to be at, or starts over. *)
LEMMA TweakBlockSetIs ==
  ASSUME NEW o, XtsShaped(o), NEW b \in Int, NEW p, p = TweakBlockSet(o, b)
  PROVE  MovedTo(o, b, p)
<1> DEFINE q == IF b < o.id THEN [o EXCEPT !.tweak = TweakOf(o, o.iv)] ELSE o
           inc == IF b < o.id THEN b ELSE b - o.id
           n == q.tweak.n + inc
           t == TweakOf(o, o.iv)
<1>1. DOMAIN t = {"key", "iv", "n"} /\ t.key = o.key /\ t.iv = o.iv /\ t.n = 0
  BY DEF TweakOf
<1>2. o.id \in Int /\ o.tweak.n \in Int
  BY DEF XtsShaped
<1>3. p = [q EXCEPT !.tweak.n = @ + inc, !.id = b]
  BY DEF TweakBlockSet
<1> HIDE DEF t
<1>4. /\ DOMAIN q = {"multi", "st", "key", "iv", "tweak", "id"} /\ DOMAIN q.tweak = {"key", "iv", "n"}
      /\ q.multi = o.multi /\ q.key = o.key /\ q.iv = o.iv
      /\ b < o.id => q.tweak = t
      /\ ~(b < o.id) => q.tweak = o.tweak
  <2>1. CASE b < o.id
    <3>1. q = [o EXCEPT !.tweak = t]
      BY <2>1 DEF t
    <3> HIDE DEF q
    <3> QED BY <1>1, <2>1, <3>1 DEF XtsShaped
  <2>2. CASE ~(b < o.id)
    BY <2>2 DEF XtsShaped
  <2> QED BY <2>1, <2>2
<1>5. inc \in Int
  BY <1>2
<1>6. q.tweak.n \in Int
  BY <1>1, <1>2, <1>4
<1> HIDE DEF q, inc
<1>7. /\ DOMAIN p = {"multi", "st", "key", "iv", "tweak", "id"} /\ DOMAIN p.tweak = {"key", "iv", "n"}
      /\ p.multi = o.multi /\ p.key = o.key /\ p.iv = o.iv /\ p.id = b
      /\ p.tweak.key = q.tweak.key /\ p.tweak.iv = q.tweak.iv /\ p.tweak.n = n
  BY <1>3, <1>4
<1>8. XtsShaped(p)
  BY <1>5, <1>6, <1>7 DEF XtsShaped
<1>9. CASE b < o.id
  <2>1. n = b
    BY <1>1, <1>4, <1>9 DEF inc
  <2> QED BY <1>1, <1>4, <1>7, <1>8, <1>9, <2>1 DEF MovedTo
<1>10. CASE ~(b < o.id)
  <2>1. o.tweak.n = o.id => n = b
    BY <1>2, <1>4, <1>10 DEF inc
  <2> QED BY <1>4, <1>7, <1>8, <1>10, <2>1 DEF MovedTo
<1> QED BY <1>9, <1>10

\* The message after a segment.
Unsettled(ss, sound) == [ss EXCEPT !.whole = sound, !.dir = "none"]

\* The message after a segment that went well.
SegmentDone(ss, dir, whole, b, x, y) ==
  [ss EXCEPT !.dir = dir, !.whole = whole, !.start = b, !.text = x, !.out = y]

(* A refused segment has sought all the same, and nothing came out.        *)
LEMMA SegmentFails ==
  ASSUME NEW o, NEW ss, SessionInv("segment", o, ss), ss.on, NEW b \in Nat,
         NEW p, MovedTo(o, b, p)
  PROVE  SessionInv("segment", p, Unsettled(ss, ss.whole \/ b < o.id))
<1> DEFINE sound == ss.whole \/ b < o.id
           n == Unsettled(ss, sound)
<1>1. XtsShaped(o) /\ SessionShaped(ss) /\ BoundTo("segment", o, ss) /\ GoesOn("segment", o, ss)
  BY DEF SessionInv
<1>2. sound \in BOOLEAN
  BY <1>1 DEF SessionShaped
<1> HIDE DEF sound
<1>3. SessionShaped(n) /\ n.on = ss.on /\ n.key = ss.key /\ n.iv = ss.iv /\ n.dir = "none" /\ n.whole = sound
  BY <1>1, <1>2 DEF SessionShaped, Unsettled
<1> HIDE DEF n
<1>4. /\ o.key = ss.key /\ o.iv = ss.iv /\ o.tweak.key = ss.key /\ o.tweak.iv = ss.iv
  BY <1>1 DEF BoundTo
<1>5. XtsShaped(p) /\ BoundTo("segment", p, n)
  BY <1>3, <1>4 DEF MovedTo, BoundTo
<1>6. GoesOn("segment", p, n)
  <2> SUFFICES ASSUME sound, p.multi PROVE p.tweak.n = p.id
    BY <1>3 DEF GoesOn, XtsGoesOn
  <2>1. CASE b < o.id
    BY <2>1 DEF MovedTo
  <2>2. CASE ~(b < o.id)
    <3>1. ss.whole /\ o.multi
      BY <2>2 DEF sound, MovedTo
    <3>2. "encrypt" \in Directions /\ "decrypt" \in Directions /\ ss.dir \in {"none"} \cup Directions
      BY <1>1 DEF Directions, SessionShaped
    <3>3. PICK d \in Directions : ss.dir \in {"none", d}
      BY <3>2
    <3>4. XtsGoesOn("segment", o, ss, d)
      BY <1>1, <3>1, <3>3 DEF GoesOn
    <3>5. o.tweak.n = o.id
      BY <3>1, <3>4 DEF XtsGoesOn
    <3> QED BY <2>2, <3>5 DEF MovedTo
  <2> QED BY <2>1, <2>2
<1>7. ComesOut("segment", p, n)
  BY <1>3 DEF ComesOut
<1> QED BY <1>3, <1>5, <1>6, <1>7 DEF SessionInv, n, sound

(* A segment's text is XTS's from the block that was named.                *)
LEMMA SegmentCalled ==
  ASSUME NEW o, NEW ss, SessionInv("segment", o, ss), ss.on, NEW b \in Nat,
         NEW p, MovedTo(o, b, p), NEW sound, sound = (ss.whole \/ b < o.id),
         NEW dir \in Directions, NEW x, NEW m, RawBytes(x, m),
         NEW drift \in Int, NEW r, r.err = "NONE", XtsDoneBy(p, x, m, dir, drift, r)
  PROVE  SessionInv("segment", r.obj,
                    SegmentDone(ss, IF sound THEN dir ELSE "none", sound /\ Remainder(x) = <<>>, b, x, r.out))
<1> DEFINE w == sound /\ Remainder(x) = <<>>
           e == IF sound THEN dir ELSE "none"
           n == SegmentDone(ss, e, w, b, x, r.out)
           u == r.obj
           t == p.tweak
           q == m \div Block
<1>1. XtsShaped(o) /\ SessionShaped(ss)
  BY DEF SessionInv
<1>2. sound \in BOOLEAN /\ w \in BOOLEAN /\ e \in {"none"} \cup Directions
  BY <1>1 DEF SessionShaped
<1>3. (w => sound) /\ (e # "none" => sound /\ e = dir) /\ (w <=> sound /\ Remainder(x) = <<>>)
  OBVIOUS
<1> HIDE DEF w, e
<1>4. SessionShaped(n) /\ n.on = ss.on /\ n.key = ss.key /\ n.iv = ss.iv /\ n.dir = e /\ n.whole = w
      /\ n.start = b /\ n.text = x /\ n.out = r.out
  BY <1>1, <1>2 DEF SessionShaped, SegmentDone
<1> HIDE DEF n
<1>5. SessionInv("segment", p, Unsettled(ss, sound))
  BY SegmentFails
<1> DEFINE f == Unsettled(ss, sound)
<1>6. SessionShaped(f) /\ f.on = ss.on /\ f.key = ss.key /\ f.iv = ss.iv /\ f.dir = "none" /\ f.whole = sound
  BY <1>1, <1>2 DEF SessionShaped, Unsettled
<1> HIDE DEF f
<1>7. XtsShaped(p) /\ BoundTo("segment", p, f) /\ GoesOn("segment", p, f)
  BY <1>5 DEF SessionInv, f
<1>8. p.key = ss.key /\ p.iv = ss.iv /\ t.key = ss.key /\ t.iv = ss.iv /\ p.id = b
  BY <1>6, <1>7 DEF BoundTo, MovedTo
<1>9. sound /\ p.multi => t.n = b
  <2> SUFFICES ASSUME sound, p.multi PROVE t.n = b
    OBVIOUS
  <2>1. XtsGoesOn("segment", p, f, dir)
    BY <1>6, <1>7 DEF GoesOn
  <2> QED BY <1>8, <2>1 DEF XtsGoesOn
<1>10. XtsShaped(u) /\ u.multi = p.multi /\ u.key = p.key /\ u.iv = p.iv /\ u.tweak.key = t.key /\ u.tweak.iv = t.iv
       /\ m >= Block /\ r.out = XtsText(p.key, t, x, dir) /\ u.id = p.id + q
       /\ u.tweak.n = IF ~p.multi THEN t.n ELSE t.n + q + IF Remainder(x) = <<>> THEN 0 ELSE drift
  BY DEF XtsDoneBy
<1>11. q \in Nat
  BY RawIsLong
<1>12. u.id \in Nat /\ u.id = b + q
  BY <1>8, <1>10, <1>11
<1>13. BoundTo("segment", u, n)
  BY <1>4, <1>8, <1>10, <1>12 DEF BoundTo
<1>14. GoesOn("segment", u, n)
  <2> SUFFICES ASSUME w, u.multi PROVE u.tweak.n = u.id
    BY <1>4 DEF GoesOn, XtsGoesOn
  <2>1. t.n = b /\ Remainder(x) = <<>> /\ p.multi
    BY <1>3, <1>9, <1>10
  <2>2. u.tweak.n = t.n + q + 0
    BY <1>10, <2>1
  <2> HIDE DEF u, q, t
  <2> QED BY <1>11, <1>12, <2>1, <2>2
<1>15. ComesOut("segment", u, n)
  <2> SUFFICES ASSUME e # "none", u.multi
               PROVE  XtsRelates(n.key, n.iv, n.start, PlainOf(n.dir, n.text, n.out), CodedOf(n.dir, n.text, n.out))
    BY <1>4 DEF ComesOut
  <2>1. t.n = b /\ e = dir
    BY <1>3, <1>9, <1>10
  <2>2. TweakShaped(t)
    BY <1>7, <2>1 DEF TweakShaped, XtsShaped
  <2>3. XtsDone(ss.key, ss.iv, t.n, dir, x, m, r.out)
    <3>1. r.out = XtsText(ss.key, t, x, dir)
      BY <1>8, <1>10
    <3>2. m >= Block
      BY <1>10
    <3> HIDE DEF t
    <3> QED BY <1>8, <2>2, <3>1, <3>2, XtsTextIs
  <2> QED BY <1>4, <2>1, <2>3 DEF XtsDone
<1> QED BY <1>4, <1>10, <1>13, <1>14, <1>15 DEF SessionInv, n, w, e

(* A call on an XTS handle is one of XTS.                                  *)
LEMMA XtsCalled ==
  ASSUME XtsShaped(obj), kind = "xts", NEW x, NEW m, RawBytes(x, m), NEW dir \in Directions,
         NEW drift \in Int, NEW r, r = CryptOf(x, dir, drift)
  PROVE  XtsDoneBy(obj, x, m, dir, drift, r)
<1> DEFINE z == XtsCrypt(obj, x, dir, drift)
<1>1. XtsDoneBy(obj, x, m, dir, drift, z)
  BY XtsCryptIs
<1>2. r.obj = z.obj /\ r.err = z.err /\ r.out = z.out
  <2>1. CASE dir = "encrypt"
    BY <2>1 DEF CryptOf
  <2>2. CASE dir = "decrypt"
    <3>1. r = [z EXCEPT !.outlen = 0]
      BY <2>2 DEF CryptOf, XtsDecryptT
    <3>2. "obj" \in DOMAIN z /\ "err" \in DOMAIN z /\ "out" \in DOMAIN z
      BY DEF XtsCrypt, Done, Wrote
    <3> HIDE DEF z
    <3> QED BY <3>1, <3>2
  <2> QED BY <2>1, <2>2 DEF Directions
<1> HIDE DEF z
<1> QED BY <1>1, <1>2 DEF XtsDoneBy

(* A call on another handle runs its mode, or is refused.                  *)
LEMMA ModeCalled ==
  ASSUME GenericShaped(obj), kind # "xts", NEW x, NEW dir, NEW drift, NEW r, r = CryptOf(x, dir, drift)
  PROVE  /\ GenericShaped(r.obj)
         /\ r.err # "NONE" => r.obj = obj
         /\ r.err = "NONE" => r = IF kind = "cbc" /\ obj.multi THEN CbcUpdate(obj, dir, x)
                                  ELSE Kernel(obj, kind, dir, x)
<1>1. r = IF obj.st # "Ready" THEN Done(obj, "BAD_STATE")
          ELSE IF kind = "cbc" /\ obj.multi THEN CbcUpdate(obj, dir, x) ELSE Kernel(obj, kind, dir, x)
  BY DEF CryptOf, GenericCrypt
<1>2. CASE obj.st # "Ready"
  <2>1. r = Done(obj, "BAD_STATE")
    BY <1>1, <1>2
  <2>2. r.obj = obj /\ r.err = "BAD_STATE"
    BY <2>1, DoneIs
  <2> QED BY <2>2
<1>3. CASE obj.st = "Ready" /\ kind = "cbc" /\ obj.multi
  <2>1. r = CbcUpdate(obj, dir, x)
    BY <1>1, <1>3
  <2>2. CbcDone(obj, dir, x, r)
    BY <2>1, CbcUpdateIs
  <2> QED BY <1>3, <2>1, <2>2 DEF CbcDone, Moved
<1>4. CASE obj.st = "Ready" /\ ~(kind = "cbc" /\ obj.multi)
  <2>1. r = Kernel(obj, kind, dir, x)
    BY <1>1, <1>4
  <2>2. KernelDone(obj, kind, dir, x, r)
    BY <2>1, KernelIs
  <2> QED BY <1>4, <2>1, <2>2 DEF KernelDone, Moved
<1> QED BY <1>2, <1>3, <1>4

\* The message of the action, in the words of the lemmas.
LEMMA ContinuedIs ==
  ASSUME NEW x, NEW r, NEW dir
  PROVE  \/ Continued(x, r, dir) = NoSession
         \/ /\ s.on /\ s.whole /\ s.dir \in {"none", dir}
            /\ Streams => Continued(x, r, dir)
                 = Longer(s, dir, s.text \o x, s.out \o r.out, kind = "cbc" \/ Remainder(x) = <<>>)
            /\ ~Streams => Continued(x, r, dir) = Longer(s, dir, x, r.out, TRUE)
BY DEF Continued, Longer

(* alcp_cipher_encrypt and decrypt preserve the invariant.                 *)
LEMMA SessionCrypt ==
  ASSUME SessionNow, NEW x, NEW m, RawBytes(x, m), NEW dir \in Directions, NEW drift \in Int,
         Crypt(x, dir, drift)
  PROVE  SessionNow'
<1> DEFINE r == CryptOf(x, dir, drift)
<1>1. /\ kind # "segment" /\ kind' = kind /\ obj' = r.obj
      /\ s' = IF r.err = "NONE" THEN Continued(x, r, dir) ELSE s
  BY Zenon DEF Crypt
<1>2. SessionInv(kind, obj, s)
  BY DEF SessionNow
<1>3. Streams <=> StreamsIn(kind, obj)
  BY DEF Streams, StreamsIn
<1> SUFFICES SessionInv(kind, r.obj, s')
  BY <1>1 DEF SessionNow
<1>4. CASE kind = "xts"
  <2>1. XtsShaped(obj)
    BY <1>2, <1>4 DEF SessionInv
  <2>2. XtsDoneBy(obj, x, m, dir, drift, r)
    <3> HIDE DEF r
    <3> QED BY <1>4, <2>1, XtsCalled DEF r
  <2> HIDE DEF r
  <2>3. CASE r.err # "NONE"
    BY <1>1, <1>2, <2>2, <2>3 DEF XtsDoneBy
  <2>4. CASE r.err = "NONE" /\ s' = NoSession
    <3>1. XtsShaped(r.obj) /\ kind \in {"xts", "segment"}
      BY <1>4, <2>2 DEF XtsDoneBy
    <3> QED BY <2>4, <3>1, MessageEnds
  <2>5. CASE r.err = "NONE" /\ s' # NoSession
    <3>1. s.on /\ s.whole /\ s.dir \in {"none", dir} /\ SessionInv("xts", obj, s)
      BY <1>1, <1>2, <1>4, <2>5, ContinuedIs
    <3>2. CASE Streams
      <4>1. s' = Longer(s, dir, s.text \o x, s.out \o r.out, kind = "cbc" \/ Remainder(x) = <<>>)
        BY <1>1, <2>5, <3>2, ContinuedIs
      <4>2. (kind = "cbc" \/ Remainder(x) = <<>>) = (Remainder(x) = <<>>) /\ obj.multi
        BY <1>4, <3>2 DEF Streams
      <4>3. SessionInv("xts", r.obj, Longer(s, dir, s.text \o x, s.out \o r.out, Remainder(x) = <<>>))
        BY <2>2, <2>5, <3>1, <4>2, XtsStreamCall
      <4> QED BY <1>4, <4>1, <4>2, <4>3
    <3>3. CASE ~Streams
      <4>1. s' = Longer(s, dir, x, r.out, TRUE)
        BY <1>1, <2>5, <3>3, ContinuedIs
      <4>2. ~obj.multi
        BY <1>4, <3>3 DEF Streams
      <4>3. SessionInv("xts", r.obj, Longer(s, dir, x, r.out, TRUE))
        BY <2>2, <2>5, <3>1, <4>2, XtsSingleCall
      <4> QED BY <1>4, <4>1, <4>3
    <3> QED BY <3>2, <3>3
  <2> QED BY <2>3, <2>4, <2>5
<1>5. CASE kind # "xts"
  <2>1. GenericShaped(obj) /\ kind \in Modes /\ kind \notin {"xts", "segment"}
    BY <1>1, <1>2, <1>5 DEF SessionInv
  <2>2. /\ GenericShaped(r.obj)
        /\ r.err # "NONE" => r.obj = obj
        /\ r.err = "NONE" => r = IF kind = "cbc" /\ obj.multi THEN CbcUpdate(obj, dir, x)
                                 ELSE Kernel(obj, kind, dir, x)
    <3> HIDE DEF r
    <3> QED BY <1>5, <2>1, ModeCalled DEF r
  <2> HIDE DEF r
  <2>3. CASE r.err # "NONE"
    BY <1>1, <1>2, <2>2, <2>3
  <2>4. CASE r.err = "NONE" /\ s' = NoSession
    BY <2>1, <2>2, <2>4, MessageEnds
  <2>5. CASE r.err = "NONE" /\ s' # NoSession
    <3>1. s.on /\ s.whole /\ s.dir \in {"none", dir}
      BY <1>1, <2>5, ContinuedIs
    <3>2. CASE Streams /\ kind = "cbc"
      <4>1. s' = Longer(s, dir, s.text \o x, s.out \o r.out, kind = "cbc" \/ Remainder(x) = <<>>)
        BY <1>1, <2>5, <3>2, ContinuedIs
      <4>2. (kind = "cbc" \/ Remainder(x) = <<>>) = TRUE /\ obj.multi /\ SessionInv("cbc", obj, s)
        BY <1>2, <3>2 DEF Streams
      <4>3. r = CbcUpdate(obj, dir, x)
        BY <2>2, <2>5, <3>2, <4>2
      <4>4. SessionInv("cbc", r.obj, Longer(s, dir, s.text \o x, s.out \o r.out, TRUE))
        BY <3>1, <4>2, <4>3, CbcCall
      <4> QED BY <3>2, <4>1, <4>2, <4>4
    <3>3. CASE Streams /\ kind # "cbc"
      <4>1. s' = Longer(s, dir, s.text \o x, s.out \o r.out, kind = "cbc" \/ Remainder(x) = <<>>)
        BY <1>1, <2>5, <3>3, ContinuedIs
      <4>2. (kind = "cbc" \/ Remainder(x) = <<>>) = (Remainder(x) = <<>>) /\ obj.multi
            /\ kind \in {"cfb", "ctr"}
        BY <2>1, <3>3 DEF Streams, Modes
      <4>3. r = Kernel(obj, kind, dir, x)
        BY <2>2, <2>5, <3>3
      <4>4. SessionInv(kind, r.obj, Longer(s, dir, s.text \o x, s.out \o r.out, Remainder(x) = <<>>))
        BY <1>2, <3>1, <4>2, <4>3, StreamCall
      <4> QED BY <4>1, <4>2, <4>4
    <3>4. CASE ~Streams
      <4>1. s' = Longer(s, dir, x, r.out, TRUE)
        BY <1>1, <2>5, <3>4, ContinuedIs
      <4>2. ~(kind = "cbc" /\ obj.multi)
        BY <3>4 DEF Streams
      <4>3. r = Kernel(obj, kind, dir, x)
        BY <2>2, <2>5, <4>2
      <4>4. SessionInv(kind, r.obj, Longer(s, dir, x, r.out, TRUE))
        BY <1>2, <1>3, <2>1, <3>1, <3>4, <4>3, SingleCall
      <4> QED BY <4>1, <4>4
    <3> QED BY <3>2, <3>3, <3>4
  <2> QED BY <2>3, <2>4, <2>5
<1> QED BY <1>4, <1>5

(* alcp_cipher_segment_* preserves it.                                     *)
LEMMA SessionSegment ==
  ASSUME SessionNow, NEW x, NEW m, RawBytes(x, m), NEW b \in Nat, NEW dir \in Directions,
         NEW drift \in Int, Segment(x, b, dir, drift)
  PROVE  SessionNow'
<1> DEFINE p == TweakBlockSet(obj, b)
           r == XtsCrypt(p, x, dir, drift)
           sound == s.whole \/ b < obj.id
<1>1. /\ kind = "segment" /\ kind' = kind /\ obj' = r.obj
      /\ s' = IF ~s.on THEN s
              ELSE IF r.err # "NONE" THEN Unsettled(s, sound)
              ELSE SegmentDone(s, IF sound THEN dir ELSE "none", sound /\ Remainder(x) = <<>>, b, x, r.out)
  <2>1. r = XtsSegment(obj, x, b, dir, drift)
    BY DEF XtsSegment
  <2> HIDE DEF r
  <2> QED BY <2>1 DEF Segment, Unsettled, SegmentDone
<1>2. SessionInv("segment", obj, s) /\ XtsShaped(obj)
  BY <1>1 DEF SessionNow, SessionInv
<1>3. MovedTo(obj, b, p)
  BY <1>2, TweakBlockSetIs
<1> HIDE DEF p
<1>4. XtsDoneBy(p, x, m, dir, drift, r)
  BY <1>3, XtsCryptIs DEF MovedTo
<1> HIDE DEF r
<1> SUFFICES SessionInv("segment", r.obj, s')
  BY <1>1 DEF SessionNow
<1>5. CASE ~s.on
  <2>1. XtsShaped(r.obj)
    BY <1>4 DEF XtsDoneBy
  <2> QED BY <1>1, <1>2, <1>5, <2>1 DEF SessionInv, BoundTo, GoesOn, ComesOut
<1>6. CASE s.on /\ r.err # "NONE"
  <2>1. r.obj = p
    BY <1>4, <1>6 DEF XtsDoneBy
  <2>2. SessionInv("segment", p, Unsettled(s, s.whole \/ b < obj.id))
    BY <1>2, <1>3, <1>6, SegmentFails
  <2> QED BY <1>1, <1>6, <2>1, <2>2
<1>7. CASE s.on /\ r.err = "NONE"
  <2> DEFINE n == SegmentDone(s, IF sound THEN dir ELSE "none", sound /\ Remainder(x) = <<>>, b, x, r.out)
  <2>1. s' = n
    BY <1>1, <1>7
  <2>2. sound = (s.whole \/ b < obj.id)
    OBVIOUS
  <2> HIDE DEF sound
  <2>3. SessionInv("segment", r.obj, n)
    BY <1>2, <1>3, <1>4, <1>7, <2>2, SegmentCalled
  <2> QED BY <2>1, <2>3
<1> QED BY <1>5, <1>6, <1>7

(* A bounded set of numbers that is not empty has a greatest one.          *)
LEMMA GreatestNumber ==
  ASSUME NEW m \in Nat, NEW T, T \subseteq 0 .. m, T # {}
  PROVE  \E n \in T : \A i \in T : i <= n
<1> DEFINE U == {m - i : i \in T}
<1>1. U \subseteq Nat /\ U # {}
  <2>1. \A i \in T : i \in 0 .. m
    OBVIOUS
  <2>2. \A i \in T : m - i \in Nat
    BY <2>1
  <2>3. PICK i \in T : TRUE
    OBVIOUS
  <2>4. m - i \in U
    BY <2>3
  <2> QED BY <2>2, <2>4
<1>2. PICK u \in U : \A w \in U : u <= w
  BY <1>1, LeastNumber
<1>3. PICK n \in T : u = m - n
  OBVIOUS
<1>4. ASSUME NEW i \in T PROVE i <= n
  <2>1. m - i \in U
    OBVIOUS
  <2>2. u <= m - i
    BY <1>2, <2>1
  <2> HIDE DEF U
  <2> QED BY <1>3, <2>2
<1> QED BY <1>4

\* The object after a multi-buffer init.
MultibufferDone(o, k, vs, r) ==
  /\ GenericShaped(r.obj) /\ r.obj.multi = o.multi /\ r.obj.part = o.part
  /\ r.obj.data = o.data /\ r.obj.lens = o.lens
  /\ r.err = "NONE" =>
       /\ Len(vs) \in 1 .. MaxBuffers /\ r.obj.iv = IvBlock(vs[1]) /\ r.obj.ivSet
       /\ r.obj.key = IF k = NoKey THEN o.key ELSE k
       /\ \A j \in 1 .. Len(vs) : r.obj.ivs[j] = IvBlock(vs[j])

(* A multi-buffer init that succeeds has taken the key and every IV.       *)
LEMMA MultibufferInitIs ==
  ASSUME NEW o, GenericShaped(o), NEW k, NEW vs, NEW r, r = MultibufferInit(o, k, vs)
  PROVE  MultibufferDone(o, k, vs, r)
<1> DEFINE p == IF k = NoKey THEN o ELSE GenericSetKey(o, k)
           valid == {n \in 0 .. Len(vs) : \A j \in 1 .. n : vs[j] # NoIv}
           taken == CHOOSE n \in valid : \A m \in valid : m <= n
           ivs == [j \in 1 .. MaxBuffers |-> IF j <= taken THEN IvBlock(vs[j]) ELSE p.ivs[j]]
           q == [p EXCEPT !.ivs = ivs]
           z == GenericSetIv(q, IvBlock(vs[1]))
<1>1. r = IF Len(vs) \notin 1 .. MaxBuffers THEN Done(o, "INVALID_ARG")
          ELSE IF k = BadKey THEN Done(o, "INVALID_SIZE")
          ELSE IF taken < Len(vs) THEN Done(q, "INVALID_ARG")
          ELSE Done(z, "NONE")
  BY DEF MultibufferInit
<1>2. GenericKept(o, p) /\ p.key = IF k = NoKey THEN o.key ELSE k
  <2>1. GenericKept(o, o)
    BY DEF GenericKept
  <2> QED BY <2>1, SetKeyIs
<1> HIDE DEF p, taken
<1>3. /\ GenericShaped(q) /\ q.multi = o.multi /\ q.part = o.part /\ q.data = o.data /\ q.lens = o.lens
      /\ q.key = p.key /\ q.ivs = ivs
  <2> HIDE DEF ivs
  <2> QED BY <1>2 DEF GenericKept, GenericShaped
<1> HIDE DEF q, ivs
<1>4. GenericKept(q, z) /\ z.key = q.key /\ z.iv = IvBlock(vs[1]) /\ z.ivSet
  BY <1>3, SetIvIs
<1> HIDE DEF z
<1>5. CASE Len(vs) \notin 1 .. MaxBuffers \/ k = BadKey
  <2>1. r.obj = o /\ r.err # "NONE"
    BY <1>1, <1>5, DoneIs
  <2> QED BY <2>1 DEF MultibufferDone
<1>6. CASE Len(vs) \in 1 .. MaxBuffers /\ k # BadKey /\ taken < Len(vs)
  <2>1. r.obj = q /\ r.err # "NONE"
    BY <1>1, <1>6, DoneIs
  <2> QED BY <1>3, <2>1 DEF MultibufferDone
<1>7. CASE Len(vs) \in 1 .. MaxBuffers /\ k # BadKey /\ ~(taken < Len(vs))
  <2>1. r.obj = z
    BY <1>1, <1>7, DoneIs
  <2>2. taken \in 0 .. Len(vs)
    <3>1. 0 \in valid /\ valid \subseteq 0 .. Len(vs) /\ Len(vs) \in Nat
      BY <1>7
    <3> HIDE DEF valid
    <3>2. \E n \in valid : \A i \in valid : i <= n
      BY <3>1, GreatestNumber
    <3> QED BY <3>1, <3>2 DEF taken
  <2>3. taken = Len(vs)
    BY <1>7, <2>2
  <2>4. \A j \in 1 .. Len(vs) : ivs[j] = IvBlock(vs[j])
    BY <1>7, <2>3, BlockModesAssumption DEF ivs
  <2>5. z.ivs = ivs /\ z.multi = o.multi /\ z.part = o.part /\ z.data = o.data /\ z.lens = o.lens
        /\ GenericShaped(z) /\ z.key = p.key
    BY <1>3, <1>4 DEF GenericKept
  <2> QED BY <1>2, <1>4, <1>7, <2>1, <2>4, <2>5 DEF MultibufferDone
<1> QED BY <1>5, <1>6, <1>7

(* A multi-buffer init begins a message under its first IV.                *)
LEMMA SessionMultibuffer ==
  ASSUME SessionNow, NEW k, NEW vs, MultibufferCall(k, vs)
  PROVE  SessionNow'
<1> DEFINE r == MultibufferInit(obj, k, vs)
<1>1. /\ IsMulti /\ kind' = kind /\ obj' = r.obj
      /\ s' = IF r.err = "NONE" THEN Begun(k, vs[1], obj) ELSE IF r.obj = obj THEN s ELSE NoSession
  BY Zenon DEF MultibufferCall
<1>2. kind \in Modes /\ kind \notin {"xts", "segment"} /\ GenericShaped(obj)
  BY <1>1, SessionKinds
<1>3. MultibufferDone(obj, k, vs, r)
  <2> HIDE DEF r
  <2> QED BY <1>2, MultibufferInitIs DEF r
<1> HIDE DEF r
<1>4. SessionInv(kind, r.obj, NoSession)
  BY <1>2, <1>3, MessageEnds DEF MultibufferDone
<1>5. k \in Keys /\ r.err = "NONE" /\ obj.part = <<>> => SessionInv(kind, r.obj, NewMessage(k, vs[1]))
  <2> SUFFICES ASSUME k \in Keys, r.err = "NONE", obj.part = <<>>
               PROVE  SessionInv(kind, r.obj, NewMessage(k, vs[1]))
    OBVIOUS
  <2> DEFINE o == r.obj
             v == vs[1]
  <2>1. GenericShaped(o) /\ o.key = k /\ o.iv = IvBlock(v) /\ o.ivSet /\ o.part = <<>>
    BY <1>3, TakenKeys DEF MultibufferDone
  <2> HIDE DEF o, v
  <2>2. SessionInv(kind, o, NewMessage(k, v))
    BY <1>2, <2>1, ModeMessageBegins
  <2> QED BY <2>2 DEF o, v
<1>6. \/ s' = s /\ r.obj = obj
      \/ s' = NoSession
      \/ s' = NewMessage(k, vs[1]) /\ k \in Keys /\ r.err = "NONE" /\ obj.part = <<>>
  <2>1. ~IsXts
    BY <1>1, SessionKinds
  <2> QED BY <1>1, <2>1, BegunIs, Zenon
<1> QED BY <1>1, <1>4, <1>5, <1>6 DEF SessionNow

(* A flush leaves the single text alone.                                   *)
LEMMA SessionFlush ==
  ASSUME SessionNow, NEW xs, FlushCall(xs)
  PROVE  SessionNow'
<1> DEFINE texts == [j \in 1 .. Len(xs) |-> Raw(xs[j])]
           lens == [j \in 1 .. Len(xs) |-> Len(xs[j])]
           p == [obj EXCEPT !.data = texts, !.lens = lens]
<1>1. IsMulti /\ kind' = kind /\ obj' = Flush(obj, texts, lens).obj /\ s' = s
  BY Zenon DEF FlushCall
<1> HIDE DEF texts, lens
<1>2. kind \in Modes /\ GenericShaped(obj) /\ SessionInv(kind, obj, s)
  BY <1>1, SessionKinds DEF SessionNow
<1>3. obj' = obj \/ obj' = p
  BY <1>1, DoneIs DEF Flush
<1>4. GenericShaped(p) /\ SameStream(obj, p)
  BY <1>2 DEF GenericShaped, SameStream
<1> HIDE DEF p
<1>5. SessionInv(kind, p, s)
  BY <1>2, <1>4, SameStreamIs
<1> QED BY <1>1, <1>2, <1>3, <1>5 DEF SessionNow

\* The object after a call to dequeue.
DequeuedTo(o, p) ==
  /\ GenericShaped(p) /\ SameStream(o, p)
  /\ p.data = o.data /\ p.lens = o.lens /\ p.keySet = o.keySet

(* A dequeue changes the IVs of the buffers and nothing else.              *)
LEMMA DequeueLeaves ==
  ASSUME NEW o, GenericShaped(o), NEW a, NEW mode, NEW lens
  PROVE  DequeuedTo(o, Dequeue(o, a, mode, lens).obj)
<1> DEFINE n == Len(lens)
           start == [j \in 1 .. n |-> [iv |-> o.ivs[j], off |-> 0, out |-> <<>>]]
           q == Tails(o, mode, lens,
                      IF a = "zen4"
                      THEN LastTwo(o, mode, lens, Rounds(o, mode, lens, start)[n]) ELSE start)
           ivs == [j \in 1 .. MaxBuffers |-> IF j <= n THEN q[j].iv ELSE o.ivs[j]]
           p == [o EXCEPT !.ivs = ivs]
           outs == [j \in 1 .. n |-> q[j].out]
           d == Dequeue(o, a, mode, lens)
<1>1. d = IF ~o.keySet THEN Done(o, "BAD_STATE")
          ELSE IF a = "zen4" /\ n > MaxBuffers THEN Done(o, "INVALID_ARG")
          ELSE Wrote(p, outs, 0)
  BY DEF Dequeue
<1> HIDE DEF ivs, outs, d
<1>2. d.obj = o \/ d.obj = p
  <2> HIDE DEF p
  <2> QED BY <1>1, DoneIs, WroteIs
<1>3. DequeuedTo(o, o) /\ DequeuedTo(o, p)
  BY DEF GenericShaped, SameStream, DequeuedTo
<1> HIDE DEF p
<1> QED BY <1>2, <1>3 DEF d

(* So it leaves the single text alone.                                     *)
LEMMA SessionDequeue ==
  ASSUME SessionNow, DequeueCall
  PROVE  SessionNow'
<1> DEFINE p == Dequeue(obj, arch, kind, obj.lens).obj
<1>1. IsMulti /\ kind' = kind /\ obj' = p /\ s' = s
  BY Zenon DEF DequeueCall
<1>2. kind \in Modes /\ GenericShaped(obj) /\ SessionInv(kind, obj, s)
  BY <1>1, SessionKinds DEF SessionNow
<1>3. DequeuedTo(obj, p)
  BY <1>2, DequeueLeaves
<1> HIDE DEF p
<1>4. SessionInv(kind, p, s)
  BY <1>2, <1>3, SameStreamIs DEF DequeuedTo
<1> QED BY <1>1, <1>4 DEF SessionNow

(* What the caller gives is the caller's bytes.                            *)
LEMMA InputsAreRaw ==
  ASSUME NEW x \in Inputs
  PROVE  \E m : RawBytes(x, m)
<1>1. PICK w \in Texts : x = Raw(w)
  BY DEF Inputs
<1>2. w \in Seq(Nat)
  BY SessionAssumption
<1> QED BY <1>1, <1>2, RawOf

(* What an early end adds to the tweak is a number.                        *)
LEMMA DriftsAreInt == Drifts \subseteq Int
BY DEF Drifts

(* Every step of the handle preserves the invariant.                       *)
LEMMA SessionGoesOn ==
  ASSUME SessionNow, [CipherNext]_cipherVars
  PROVE  SessionNow'
<1>1. ASSUME NEW k, NEW v, InitCall(k, v) PROVE SessionNow'
  BY <1>1, SessionInit
<1>2. CASE ContextCopy
  BY <1>2, SessionCopy
<1>3. ASSUME NEW k, NEW vs, MultibufferCall(k, vs) PROVE SessionNow'
  BY <1>3, SessionMultibuffer
<1>4. ASSUME NEW xs, FlushCall(xs) PROVE SessionNow'
  BY <1>4, SessionFlush
<1>5. ASSUME NEW x \in Inputs, NEW b \in 0 .. MaxStart, NEW dir \in Directions, NEW drift \in Drifts,
             Segment(x, b, dir, drift)
      PROVE  SessionNow'
  <2>1. PICK m : RawBytes(x, m)
    BY InputsAreRaw
  <2>2. drift \in Int /\ b \in Nat
    BY DriftsAreInt
  <2> QED BY <1>5, <2>1, <2>2, SessionSegment
<1>6. ASSUME NEW x \in Inputs, NEW dir \in Directions, NEW drift \in Drifts, Crypt(x, dir, drift)
      PROVE  SessionNow'
  <2>1. PICK m : RawBytes(x, m)
    BY InputsAreRaw
  <2>2. drift \in Int
    BY DriftsAreInt
  <2> QED BY <1>6, <2>1, <2>2, SessionCrypt
<1>7. CASE DequeueCall
  BY <1>7, SessionDequeue
<1>8. CASE UNCHANGED cipherVars
  BY <1>8 DEF cipherVars, SessionNow
<1>9. CASE CipherNext
  BY <1>1, <1>2, <1>3, <1>4, <1>5, <1>6, <1>7, <1>9, Zenon DEF CipherNext
<1> QED BY <1>8, <1>9

(* The invariant says of what has come out what the properties ask.        *)
LEMMA SessionShows ==
  ASSUME SessionNow
  PROVE  StreamIsMode /\ (obj.multi => SegmentInPlace)
<1>1. kind \in {"xts", "segment"} \cup Modes /\ ComesOut(kind, obj, s) /\ SessionShaped(s)
  BY DEF SessionNow, SessionInv
<1>2. "xts" \notin Modes /\ "segment" \notin Modes /\ "xts" # "segment" /\ "xts" # "cbc"
  BY DEF Modes
<1>3. Plain = PlainOf(s.dir, s.text, s.out) /\ Coded = CodedOf(s.dir, s.text, s.out)
  BY DEF Plain, Coded, PlainOf, CodedOf
<1>4. Streams <=> StreamsIn(kind, obj)
  BY DEF Streams, StreamsIn
<1>5. StreamIsMode
  <2> SUFFICES ASSUME s.on, s.dir # "none", kind # "segment"
               PROVE  /\ IF kind = "xts" THEN XtsRelates(s.key, s.iv, 0, Plain, Coded)
                         ELSE Relates(kind, s.key, IvBlock(s.iv), Plain, Coded)
                      /\ Len(s.out) = IF kind = "cbc" /\ (Streams \/ s.dir = "decrypt")
                                      THEN Block * Blocks(s.text) ELSE Len(s.text)
    BY DEF StreamIsMode
  <2>1. CASE kind = "xts"
    <3>1. /\ XtsRelates(s.key, s.iv, 0, PlainOf(s.dir, s.text, s.out), CodedOf(s.dir, s.text, s.out))
          /\ Len(s.out) = Len(s.text)
      BY <1>1, <1>2, <2>1 DEF ComesOut
    <3> QED BY <1>2, <1>3, <2>1, <3>1
  <2>2. CASE kind # "xts"
    <3>1. /\ Relates(kind, s.key, IvBlock(s.iv), PlainOf(s.dir, s.text, s.out), CodedOf(s.dir, s.text, s.out))
          /\ Len(s.out) = IF kind = "cbc" /\ (StreamsIn(kind, obj) \/ s.dir = "decrypt")
                          THEN Block * Blocks(s.text) ELSE Len(s.text)
      BY <1>1, <1>2, <2>2 DEF ComesOut
    <3> QED BY <1>3, <1>4, <2>2, <3>1
  <2> QED BY <2>1, <2>2
<1>6. ASSUME obj.multi PROVE SegmentInPlace
  <2> SUFFICES ASSUME s.on, kind = "segment", s.dir # "none"
               PROVE  XtsRelates(s.key, s.iv, s.start, Plain, Coded)
    BY DEF SegmentInPlace
  <2> QED BY <1>1, <1>2, <1>3, <1>6 DEF ComesOut
<1> QED BY <1>5, <1>6

(* However a message is cut into calls, and whatever was refused in        *)
(* between, what comes out of alcp_cipher_encrypt and decrypt is the       *)
(* mode's text under the key and IV of its init: for XTS, CBC, CFB, CTR    *)
(* and OFB, both builds, any texts and block size.                         *)
THEOREM StreamsAreTheModes == CipherSpec => []StreamIsMode
<1>1. CipherInit => SessionNow
  BY SessionStarts
<1>2. SessionNow /\ [CipherNext]_cipherVars => SessionNow'
  BY SessionGoesOn
<1>3. SessionNow => StreamIsMode
  BY SessionShows
<1> QED BY <1>1, <1>2, <1>3, PTL DEF CipherSpec

\* Segments behind several updates.
BuiltForSegments == kind = "segment" => obj.multi

(* A handle stays what it was built as.                                    *)
LEMMA SegmentBuildStays ==
  ASSUME SessionNow, BuiltForSegments, [CipherNext]_cipherVars
  PROVE  BuiltForSegments'
<1> SUFFICES ASSUME kind = "segment", CipherNext
             PROVE  BuiltForSegments'
  <2>1. CASE UNCHANGED cipherVars
    BY <2>1 DEF cipherVars, BuiltForSegments
  <2>2. ASSUME CipherNext PROVE kind' = kind
    BY <2>2, Zenon DEF CipherNext, InitCall, ContextCopy, MultibufferCall, FlushCall, Segment, Crypt,
                       DequeueCall
  <2> QED BY <2>1, <2>2 DEF BuiltForSegments
<1>1. XtsShaped(obj) /\ obj.multi /\ IsXts /\ ~IsMulti
  BY SessionKinds DEF BuiltForSegments, IsXts, IsMulti
<1>2. ASSUME NEW k, NEW v, InitCall(k, v) PROVE BuiltForSegments'
  <2> DEFINE r == IF k = NoKey /\ v = NoIv THEN Done(obj, "INVALID_ARG") ELSE XtsInit(obj, k, v)
  <2>1. obj' = r.obj
    BY <1>1, <1>2, Zenon DEF InitCall
  <2>2. XtsInitDone(obj, k, v, XtsInit(obj, k, v))
    BY <1>1, XtsInitIs
  <2>3. r.obj.multi = obj.multi
    BY <2>2, DoneIs DEF XtsInitDone
  <2> QED BY <1>1, <2>1, <2>3 DEF BuiltForSegments
<1>3. ASSUME NEW x \in Inputs, NEW b \in 0 .. MaxStart, NEW dir \in Directions, NEW drift \in Drifts,
             Segment(x, b, dir, drift)
      PROVE  BuiltForSegments'
  <2> DEFINE p == TweakBlockSet(obj, b)
             r == XtsCrypt(p, x, dir, drift)
  <2>1. PICK m : RawBytes(x, m)
    BY InputsAreRaw
  <2>2. drift \in Int /\ b \in Int
    BY DriftsAreInt
  <2>3. obj' = r.obj
    BY <1>3, Zenon DEF Segment, XtsSegment
  <2>4. MovedTo(obj, b, p)
    BY <1>1, <2>2, TweakBlockSetIs
  <2> HIDE DEF p
  <2>5. XtsDoneBy(p, x, m, dir, drift, r)
    BY <2>1, <2>2, <2>4, XtsCryptIs DEF MovedTo
  <2> QED BY <1>1, <2>3, <2>4, <2>5 DEF XtsDoneBy, MovedTo, BuiltForSegments
<1>4. \/ \E k, v : InitCall(k, v)
      \/ \E x \in Inputs, b \in 0 .. MaxStart, dir \in Directions, drift \in Drifts :
           Segment(x, b, dir, drift)
  BY <1>1, Zenon DEF CipherNext, ContextCopy, MultibufferCall, FlushCall, Crypt, DequeueCall
<1> QED BY <1>2, <1>3, <1>4

(* Where AES_MULTI_UPDATE is defined, as the segment interface needs it    *)
(* (without it the run xts_segment shows the property to fail), a segment's *)
(* text is XTS's from the block the caller named, in whatever order        *)
(* segments are asked for and after refused ones (aes_xts.cc).             *)
THEOREM SegmentsAreInPlace ==
  ASSUME "segment" \in Kinds => Builds["segment"] \subseteq {TRUE}
  PROVE  CipherSpec => []SegmentInPlace
<1>1. CipherInit => SessionNow /\ BuiltForSegments
  <2> SUFFICES ASSUME CipherInit, kind = "segment" PROVE obj.multi
    BY SessionStarts DEF BuiltForSegments
  <2>1. PICK multi \in Builds[kind] : obj = IF IsXts THEN XtsNew(multi) ELSE GenericNew(multi)
    BY DEF CipherInit
  <2>2. obj = XtsNew(TRUE)
    BY <2>1 DEF CipherInit, IsXts
  <2> QED BY <2>2 DEF XtsNew
<1>2. SessionNow /\ BuiltForSegments /\ [CipherNext]_cipherVars => SessionNow' /\ BuiltForSegments'
  BY SessionGoesOn, SegmentBuildStays
<1>3. SessionNow /\ BuiltForSegments => SegmentInPlace
  BY SessionShows DEF BuiltForSegments, SegmentInPlace
<1> QED BY <1>1, <1>2, <1>3, PTL DEF CipherSpec

-----------------------------------------------------------------------------
(* Buffers side by side.                                                   *)

\* A buffer of l bytes d as far as b: its IV is v, its batches before this one
\* were text t, which became u under key k.
LaneOk(multi, mode, k, v, t, u, d, l, b) ==
  /\ b.off \in 0 .. l /\ Long(b.out, b.off)
  /\ IF multi
     THEN /\ b.off = Block * (b.off \div Block)
          /\ \E a : Streamed(mode, k, v, "encrypt", a, t \o Cut(d, 0, b.off), u \o b.out, b.iv)
     ELSE /\ b.iv = IvBlock(v)
          /\ b.off = 0 \/ (b.off = l /\ Relates(mode, k, IvBlock(v), d, b.out))

\* A buffer between batches: text t has become u, and iv is its IV now.
BatchLane(multi, mode, k, v, t, u, iv) ==
  \E m : /\ Long(t, m) /\ Long(u, m) /\ Relates(mode, k, IvBlock(v), t, u)
         /\ IF multi THEN m = Block * (m \div Block) =>
                            \E a : Streamed(mode, k, v, "encrypt", a, t, u, iv)
            ELSE iv = IvBlock(v)

\* A buffer done: its bytes d have become y, and iv is its IV now.
LaneEnd(multi, mode, k, v, t, u, d, iv, y) ==
  BatchLane(multi, mode, k, v, IF multi THEN t \o d ELSE d, IF multi THEN u \o y ELSE y, iv)

\* A buffer after n more bytes: on its way after whole blocks, and done when
\* none are left.
LaneAfter(multi, mode, k, v, t, u, d, l, n, b) ==
  /\ n = Block * (n \div Block) => LaneOk(multi, mode, k, v, t, u, d, l, b)
  /\ b.off = l => LaneEnd(multi, mode, k, v, t, u, d, b.iv, b.out)

(* With AES_MULTI_UPDATE the next bytes of a buffer go on from its IV.     *)
LEMMA LaneStreams ==
  ASSUME NEW mode \in {"cbc", "cfb"}, NEW k, NEW v, NEW t, NEW mt, Long(t, mt),
         NEW u, NEW mu, Long(u, mu), NEW d, NEW l, RawBytes(d, l),
         NEW b, LaneOk(TRUE, mode, k, v, t, u, d, l, b), NEW n \in Nat, b.off + n <= l,
         NEW r, r = ModeText(mode, "encrypt", k, b.iv, Cut(d, b.off, n)),
         NEW e, e.off = b.off + n, e.iv = r.next, e.out = b.out \o r.out
  PROVE  LaneAfter(TRUE, mode, k, v, t, u, d, l, n, e)
<1> DEFINE f == b.off
           x == t \o Cut(d, 0, f)
           y == u \o b.out
           z == Cut(d, f, n)
           w == n \div Block
           g == "encrypt"
<1>1. f \in Nat /\ l \in Nat /\ Long(d, l) /\ f + n \in 0 .. l /\ f <= l /\ Long(b.out, f)
      /\ f = Block * (f \div Block) /\ f \div Block \in Nat
  <2>1. l \in Nat /\ Long(d, l)
    BY RawIsLong
  <2>2. f \in 0 .. l /\ Long(b.out, f) /\ f = Block * (f \div Block)
    BY DEF LaneOk
  <2> HIDE DEF f
  <2>3. f \in Nat /\ f <= l
    BY <2>1, <2>2
  <2>4. f \div Block \in Nat
    BY <2>3, InBlocks
  <2>5. f + n \in 0 .. l
    <3>1. f + n <= l
      BY DEF f
    <3> QED BY <2>1, <2>3, <3>1
  <2> QED BY <2>1, <2>2, <2>3, <2>4, <2>5
<1>2. PICK a : Streamed(mode, k, v, g, a, x, y, b.iv)
  BY DEF LaneOk
<1>3. mode \in Modes \ {"ofb"} /\ g \in Directions
  BY DEF Modes, Directions
<1>4. RawBytes(z, n) /\ Long(z, n)
  <2> HIDE DEF f
  <2>1. RawBytes(Cut(d, f, n), n)
    BY <1>1, RawCut
  <2> QED BY <2>1, RawIsLong
<1>5. a \in Nat
  BY <1>2 DEF Streamed
<1> HIDE DEF f, x, y, z, w, g
<1>6. StreamedOn(mode, k, v, g, a, x, y, n, z, r.out, r.next)
  <2>1. r = ModeText(mode, g, k, b.iv, z)
    BY DEF g, z, f
  <2>2. ~(mode = "cbc" /\ g = "decrypt")
    BY DEF g
  <2> QED BY <1>2, <1>3, <1>4, <2>1, <2>2, StreamGoesOn
<1>7. Long(r.out, n) /\ e.off = f + n
  BY <1>6 DEF StreamedOn, f
<1>8. x \o z = t \o Cut(d, 0, f + n)
  <2>1. Long(Cut(d, 0, f), f)
    <3> DEFINE o == 0
    <3>1. o \in Nat /\ o + f <= l
      BY <1>1
    <3> HIDE DEF o
    <3>2. Long(Cut(d, o, f), f)
      BY <1>1, <3>1, CutIs
    <3> QED BY <3>2 DEF o
  <2>2. x \o z = t \o (Cut(d, 0, f) \o z)
    <3> DEFINE o == Cut(d, 0, f)
    <3>1. x = t \o o /\ Long(o, f) /\ Long(z, n)
      BY <1>4, <2>1 DEF x
    <3> HIDE DEF o
    <3>2. (t \o o) \o z = t \o (o \o z)
      <4>1. Long(t, mt) /\ Long(o, f) /\ Long(z, n)
        BY <3>1
      <4> QED BY ONLY <4>1, JoinInThree
    <3> QED BY <3>1, <3>2 DEF o
  <2>3. Cut(d, 0, f) \o Cut(d, f, n) = Cut(d, 0, f + n)
    <3>1. f + n <= l
      BY <1>1
    <3> QED BY <1>1, <3>1, CutsJoinFront
  <2> QED BY <2>2, <2>3 DEF z
<1>9. y \o r.out = u \o e.out
  <2> DEFINE p == b.out
             q == r.out
  <2>1. Long(p, f) /\ Long(q, n)
    BY <1>1, <1>7
  <2> HIDE DEF p, q
  <2>2. (u \o p) \o q = u \o (p \o q)
    BY <2>1, JoinInThree
  <2> QED BY <2>2 DEF y, p, q
<1>10. Long(e.out, e.off)
  <2>1. Joins(b.out \o r.out, b.out, f, r.out, n)
    BY <1>1, <1>7, TextJoin
  <2> QED BY <1>7, <2>1 DEF Joins
<1>11. ASSUME n = Block * w
       PROVE  LaneOk(TRUE, mode, k, v, t, u, d, l, e)
  <2>1. f + n = Block * ((f + n) \div Block)
    <3> DEFINE p == f \div Block
    <3>1. p \in Nat /\ f = Block * p /\ w \in Nat
      BY <1>1, InBlocks DEF w
    <3> HIDE DEF p
    <3>2. Block * (p + w) = f + n /\ p + w \in Nat
      BY <1>11, <3>1, BlockMultiple
    <3>3. (Block * (p + w)) \div Block = p + w
      <4> DEFINE q == p + w
      <4>1. q \in Nat
        BY <3>2
      <4> HIDE DEF q
      <4> QED BY <4>1, CountOfJoin DEF q
    <3> QED BY <3>2, <3>3
  <2>2. Streamed(mode, k, v, g, a + w, t \o Cut(d, 0, f + n), u \o e.out, r.next)
    BY <1>6, <1>8, <1>9, <1>11 DEF StreamedOn, w
  <2> QED BY <1>1, <1>7, <1>10, <2>1, <2>2 DEF LaneOk, g
<1>12. ASSUME f + n = l
       PROVE  LaneEnd(TRUE, mode, k, v, t, u, d, e.iv, e.out)
  <2> DEFINE m == Block * a + n
             X == t \o d
             Y == u \o e.out
  <2>1. x \o z = X /\ y \o r.out = Y
    BY <1>1, <1>8, <1>9, <1>12, CutAll
  <2> HIDE DEF X, Y
  <2>2. PlainOf(g, X, Y) = X /\ CodedOf(g, X, Y) = Y
    BY DEF PlainOf, CodedOf, g
  <2>3. /\ Long(X, m) /\ Long(Y, m) /\ Relates(mode, k, IvBlock(v), X, Y)
        /\ n = Block * w => Streamed(mode, k, v, g, a + w, X, Y, r.next)
    BY <1>6, <2>1, <2>2 DEF StreamedOn, w
  <2>4. m = Block * (m \div Block) => n = Block * w
    <3>1. m \div Block = a + w /\ w \in Nat /\ Block * (a + w) = Block * a + Block * w
          /\ Block * a \in Nat /\ Block * w \in Nat
      BY <1>5, CountOfJoin, InBlocks, BlockMultiple DEF w
    <3> QED BY <3>1
  <2> HIDE DEF m
  <2>5. BatchLane(TRUE, mode, k, v, X, Y, e.iv)
    <3>1. e.iv = r.next
      OBVIOUS
    <3>2. m = Block * (m \div Block) => \E c : Streamed(mode, k, v, g, c, X, Y, e.iv)
      BY <2>3, <2>4, <3>1
    <3> QED BY <2>3, <3>2 DEF BatchLane, g
  <2> QED BY <2>5 DEF LaneEnd, X, Y
<1> QED BY <1>7, <1>11, <1>12 DEF LaneAfter, w, f

(* Without it a buffer done all at once is the mode's.                     *)
LEMMA LaneOnce ==
  ASSUME NEW mode \in {"cbc", "cfb"}, NEW k, NEW v, NEW t, NEW u, NEW d, NEW l, RawBytes(d, l),
         NEW b, LaneOk(FALSE, mode, k, v, t, u, d, l, b), b.off = 0,
         NEW r, r = ModeText(mode, "encrypt", k, b.iv, Cut(d, 0, l)),
         NEW e, e.off = l, e.iv = b.iv, e.out = b.out \o r.out
  PROVE  LaneAfter(FALSE, mode, k, v, t, u, d, l, l, e)
<1> DEFINE g == "encrypt"
           iv == IvBlock(v)
<1>1. l \in Nat /\ Long(d, l) /\ Long(b.out, 0) /\ b.iv = iv /\ Cut(d, 0, l) = d
  BY RawIsLong, CutAll DEF LaneOk
<1>2. mode \in Modes /\ g \in Directions /\ ChainStart(mode, iv)
  BY IvStarts DEF Modes, Directions
<1>3. TextLen(mode, g, l) = l
  BY DEF TextLen
<1>4. PlainOf(g, d, r.out) = d /\ CodedOf(g, d, r.out) = r.out
  BY DEF PlainOf, CodedOf
<1> HIDE DEF g, iv
<1>5. Long(r.out, l) /\ Relates(mode, k, iv, d, r.out)
  <2>1. r = ModeText(mode, g, k, iv, d)
    BY <1>1 DEF g
  <2> QED BY <1>2, <1>3, <1>4, <2>1, ModeTextIs
<1>6. e.out = r.out
  BY <1>1, <1>5, EmptyText, JoinEmpty
<1>7. LaneOk(FALSE, mode, k, v, t, u, d, l, e)
  <2>1. e.off = l /\ l \in 0 .. l /\ Long(e.out, l)
    <3>1. e.off = l /\ l \in 0 .. l
      BY <1>1
    <3> QED BY <1>5, <1>6, <3>1
  <2>2. e.iv = iv /\ Relates(mode, k, iv, d, e.out)
    BY <1>1, <1>5, <1>6
  <2> QED BY <2>1, <2>2 DEF LaneOk, iv
<1>8. LaneEnd(FALSE, mode, k, v, t, u, d, e.iv, e.out)
  BY <1>1, <1>5, <1>6 DEF LaneEnd, BatchLane, iv
<1> QED BY <1>7, <1>8 DEF LaneAfter

\* The next n bytes of a lane; without AES_MULTI_UPDATE, all of it at once.
LEMMA LaneStep ==
  ASSUME NEW multi \in BOOLEAN, NEW mode \in {"cbc", "cfb"}, NEW k, NEW v,
         NEW t, NEW mt, Long(t, mt), NEW u, NEW mu, Long(u, mu), NEW d, NEW l, RawBytes(d, l),
         NEW b, LaneOk(multi, mode, k, v, t, u, d, l, b), NEW n \in Nat, b.off + n <= l,
         ~multi => b.off = 0 /\ n = l,
         NEW r, r = ModeText(mode, "encrypt", k, b.iv, Cut(d, b.off, n)),
         NEW e, e.off = b.off + n, e.iv = WrittenBack(multi, mode, b.iv, r), e.out = b.out \o r.out
  PROVE  LaneAfter(multi, mode, k, v, t, u, d, l, n, e)
<1>1. CASE multi = TRUE
  <2>1. e.iv = r.next
    BY <1>1 DEF WrittenBack
  <2> QED BY <1>1, <2>1, LaneStreams
<1>2. CASE multi = FALSE
  <2>1. e.iv = b.iv
    BY <1>2 DEF WrittenBack
  <2>2. b.off = 0 /\ n = l /\ l \in Nat
    BY <1>2, RawIsLong
  <2>3. e.off = l /\ r = ModeText(mode, "encrypt", k, b.iv, Cut(d, 0, l))
    BY <2>2
  <2>4. LaneAfter(FALSE, mode, k, v, t, u, d, l, l, e)
    BY <1>2, <2>1, <2>2, <2>3, LaneOnce
  <2> QED BY <1>2, <2>2, <2>4
<1> QED BY <1>1, <1>2

\* A lane that has come to its end.
LEMMA LaneComplete ==
  ASSUME NEW multi \in BOOLEAN, NEW mode \in {"cbc", "cfb"}, NEW k, NEW v,
         NEW t, NEW u, NEW d, NEW l, RawBytes(d, l),
         NEW b, LaneOk(multi, mode, k, v, t, u, d, l, b), b.off = l
  PROVE  LaneEnd(multi, mode, k, v, t, u, d, b.iv, b.out)
<1>1. l \in Nat /\ Long(d, l) /\ Cut(d, 0, l) = d /\ Long(b.out, l)
  BY RawIsLong, CutAll DEF LaneOk
<1>2. CASE multi = TRUE
  <2>1. PICK a : Streamed(mode, k, v, "encrypt", a, t \o d, u \o b.out, b.iv)
    BY <1>1, <1>2 DEF LaneOk
  <2> DEFINE x == t \o d
             y == u \o b.out
  <2>2. PlainOf("encrypt", x, y) = x /\ CodedOf("encrypt", x, y) = y
    BY DEF PlainOf, CodedOf
  <2> HIDE DEF x, y
  <2>3. Streamed(mode, k, v, "encrypt", a, x, y, b.iv)
    BY <2>1 DEF x, y
  <2>4. BatchLane(TRUE, mode, k, v, x, y, b.iv)
    <3>1. Long(x, Block * a) /\ Long(y, Block * a) /\ Relates(mode, k, IvBlock(v), x, y)
      BY <2>2, <2>3 DEF Streamed
    <3> DEFINE m == Block * a
    <3> HIDE DEF m
    <3>2. Long(x, m) /\ Long(y, m)
      BY <3>1 DEF m
    <3> QED BY <2>3, <3>1, <3>2 DEF BatchLane
  <2> QED BY <1>2, <2>4 DEF LaneEnd, x, y
<1>3. CASE multi = FALSE
  <2>1. b.iv = IvBlock(v)
    BY <1>3 DEF LaneOk
  <2>2. Relates(mode, k, IvBlock(v), d, b.out)
    <3>1. CASE b.off = 0
      <4>1. d = <<>> /\ b.out = <<>>
        BY <1>1, <3>1, EmptyText
      <4>2. mode \in Modes \ {"ofb"}
        BY DEF Modes
      <4> DEFINE e == <<>>
                 o == 0
                 c == IvBlock(v)
      <4>3. Streamed(mode, k, v, "encrypt", o, e, e, c)
        BY <4>2, StreamBegins
      <4>4. PlainOf("encrypt", e, e) = e /\ CodedOf("encrypt", e, e) = e
        BY DEF PlainOf, CodedOf
      <4> HIDE DEF e, o, c
      <4>5. Relates(mode, k, c, e, e)
        BY <4>3, <4>4 DEF Streamed, c
      <4> QED BY <4>1, <4>5 DEF e, c
    <3>2. CASE b.off # 0
      BY <1>3, <3>2 DEF LaneOk
    <3> QED BY <3>1, <3>2
  <2>3. BatchLane(FALSE, mode, k, v, d, b.out, b.iv)
    BY <1>1, <2>1, <2>2 DEF BatchLane
  <2> QED BY <1>3, <2>3 DEF LaneEnd
<1> QED BY <1>2, <1>3

(* The rounds are what their definition says.                              *)
LEMMA RoundsIs ==
  ASSUME NEW o, NEW mode, NEW lens, Len(lens) \in Nat, NEW q
  PROVE  /\ Rounds(o, mode, lens, q)[0] = [q |-> q, active |-> 1 .. Len(lens)]
         /\ \A j \in 1 .. Len(lens) :
              Rounds(o, mode, lens, q)[j] = MinLenRound(o, mode, lens, Rounds(o, mode, lens, q)[j - 1])
<1> DEFINE Op(b, j) == MinLenRound(o, mode, lens, b)
           c == [q |-> q, active |-> 1 .. Len(lens)]
           Goes(g, n) == g = [j \in 0 .. n |-> IF j = 0 THEN c ELSE Op(g[j - 1], j)]
           T == {n \in Nat : \E g : Goes(g, n)}
           m == Len(lens)
           at == Rounds(o, mode, lens, q)
<1>1. at = CHOOSE g : Goes(g, m)
  BY DEF Rounds
<1> HIDE DEF Op, c, m, at
<1>2. 0 \in T
  <2> DEFINE g == [j \in 0 .. 0 |-> c]
  <2>1. Goes(g, 0)
    OBVIOUS
  <2> QED BY <2>1
<1>3. ASSUME NEW n \in 0 .. m - 1, n \in T PROVE n + 1 \in T
  <2>0. n \in Nat /\ n + 1 \in Nat
    BY DEF m
  <2>1. PICK g : Goes(g, n)
    BY <1>3
  <2> DEFINE h == [j \in 0 .. n + 1 |-> IF j = n + 1 THEN Op(g[n], n + 1) ELSE g[j]]
  <2>2. /\ h[n + 1] = Op(g[n], n + 1)
        /\ \A j \in 0 .. n : h[j] = g[j]
        /\ h = [j \in 0 .. n + 1 |-> h[j]]
    BY <2>0
  <2>3. /\ g[0] = c
        /\ \A j \in 1 .. n : g[j] = Op(g[j - 1], j)
    BY <2>0, <2>1
  <2> HIDE DEF h
  <2>4. ASSUME NEW j \in 0 .. n + 1
        PROVE  h[j] = IF j = 0 THEN c ELSE Op(h[j - 1], j)
    <3>1. CASE j = 0
      <4>1. 0 \in 0 .. n
        BY <2>0
      <4> QED BY <2>2, <2>3, <3>1, <4>1
    <3>2. CASE j \in 1 .. n
      <4>1. j \in 0 .. n /\ j - 1 \in 0 .. n /\ j # 0
        BY <2>0, <3>2
      <4>2. h[j] = g[j] /\ h[j - 1] = g[j - 1]
        BY <2>2, <4>1
      <4> QED BY <2>3, <3>2, <4>1, <4>2
    <3>3. CASE j = n + 1
      <4>1. j - 1 = n /\ n \in 0 .. n /\ j # 0
        BY <2>0, <3>3
      <4>2. h[j - 1] = g[n]
        BY <2>2, <4>1
      <4> QED BY <2>2, <3>3, <4>1, <4>2
    <3> QED BY <2>0, <3>1, <3>2, <3>3
  <2>5. Goes(h, n + 1)
    BY <2>2, <2>4
  <2> QED BY <2>0, <2>5
<1>4. m \in T
  <2>1. m \in Nat
    BY DEF m
  <2> HIDE DEF T
  <2>2. 0 .. m \subseteq T
    BY <1>2, <1>3, <2>1, ByInduction
  <2> QED BY <2>1, <2>2
<1>5. Goes(at, m)
  BY <1>1, <1>4
<1>6. m \in Nat
  BY DEF m
<1>7. at[0] = c /\ \A j \in 1 .. m : at[j] = Op(at[j - 1], j)
  BY <1>5, <1>6
<1> QED BY <1>7 DEF Op, c, m, at

\* The least whole blocks left of the buffers T, no buffer has less.
MinLenDone(q, T, lens, n) ==
  /\ n \in Nat /\ n = Block * (n \div Block)
  /\ \A j \in T : q[j].off + n <= lens[j]
  /\ \A l \in Nat : l = Block * (l \div Block) /\ (\A j \in T : lens[j] - q[j].off = l) => n = l

(* No active buffer has less than the step of a round.                     *)
LEMMA MinLenIs ==
  ASSUME NEW q, NEW T, T # {}, NEW lens,
         \A j \in T : lens[j] \in Nat /\ q[j].off \in 0 .. lens[j]
  PROVE  MinLenDone(q, T, lens, MinLen(q, T, lens))
<1> DEFINE left == {lens[j] - q[j].off : j \in T}
           least == CHOOSE l \in left : \A m \in left : l <= m
           n == Block * (least \div Block)
<1>1. left \subseteq Nat /\ left # {}
  <2>1. \A j \in T : lens[j] - q[j].off \in Nat
    OBVIOUS
  <2> QED BY <2>1
<1>2. \A j \in T : lens[j] - q[j].off \in left
  OBVIOUS
<1>3. ASSUME NEW l \in Nat, \A j \in T : lens[j] - q[j].off = l PROVE left = {l}
  BY <1>3
<1> HIDE DEF left
<1>4. least \in left /\ \A m \in left : least <= m
  <2>1. \E l \in left : \A m \in left : l <= m
    BY <1>1, LeastNumber
  <2> QED BY <2>1, Zenon
<1> HIDE DEF least
<1>5. least \in Nat
  BY <1>1, <1>4
<1>6. least \div Block \in Nat /\ n \in Nat /\ n <= least
  BY <1>5, InBlocks
<1>7. n \div Block = least \div Block
  <2> DEFINE w == least \div Block
  <2>1. w \in Nat
    BY <1>6
  <2> HIDE DEF w
  <2> QED BY <2>1, CountOfJoin DEF w
<1>8. MinLen(q, T, lens) = n
  BY DEF MinLen, least, left
<1> HIDE DEF n
<1>9. ASSUME NEW j \in T PROVE q[j].off + n <= lens[j]
  <2> DEFINE a == lens[j]
             b == q[j].off
  <2>1. a \in Nat /\ b \in 0 .. a
    OBVIOUS
  <2>2. least <= a - b
    BY <1>2, <1>4
  <2> HIDE DEF a, b
  <2>3. b + n <= a
    BY <1>5, <1>6, <2>1, <2>2
  <2> QED BY <2>3 DEF a, b
<1>10. ASSUME NEW l \in Nat, l = Block * (l \div Block), \A j \in T : lens[j] - q[j].off = l
       PROVE  n = l
  <2>1. least = l
    BY <1>3, <1>4, <1>10
  <2> QED BY <1>10, <2>1 DEF n
<1> QED BY <1>6, <1>7, <1>8, <1>9, <1>10 DEF MinLenDone, n

\* The texts flushed and the batches before them are what a batch needs.
Ready(o, mode, bt, lens) ==
  /\ mode \in {"cbc", "cfb"} /\ o.multi \in BOOLEAN /\ Len(lens) \in Nat
  /\ \A j \in 1 .. Len(lens) :
       /\ RawBytes(o.data[j], lens[j])
       /\ \E m : Long(bt.texts[j], m)
       /\ \E m : Long(bt.outs[j], m)

\* Buffer j as far as b.
LaneIs(o, mode, bt, lens, j, b) ==
  LaneOk(o.multi, mode, o.key, bt.ivs[j], bt.texts[j], bt.outs[j], o.data[j], lens[j], b)

\* Buffer j done.
LaneEnds(o, mode, bt, j, iv, y) ==
  LaneEnd(o.multi, mode, o.key, bt.ivs[j], bt.texts[j], bt.outs[j], o.data[j], iv, y)

\* All the buffers as far as q.
LanesOk(o, mode, bt, lens, q) ==
  /\ DOMAIN q = 1 .. Len(lens)
  /\ \A j \in 1 .. Len(lens) : LaneIs(o, mode, bt, lens, j, q[j])

\* Without AES_MULTI_UPDATE all the buffers are as long, and whole blocks.
Even(o, lens) ==
  ~o.multi =>
    \A j \in 1 .. Len(lens) : lens[j] = lens[1] /\ lens[j] = Block * (lens[j] \div Block)

\* The buffers and the active ones after a round.
RoundOk(o, mode, bt, lens, a) ==
  /\ a.active \subseteq 1 .. Len(lens)
  /\ LanesOk(o, mode, bt, lens, a.q)
  /\ ~o.multi => \A j \in a.active : a.q[j].off = 0

\* Buffer j after n more bytes.
StepDone(o, mode, bt, lens, j, b, n, e) ==
  /\ e.off = b.off + n
  /\ n = Block * (n \div Block) => LaneIs(o, mode, bt, lens, j, e)
  /\ e.off = lens[j] => LaneEnds(o, mode, bt, j, e.iv, e.out)

(* The next bytes of buffer j are its own.                                 *)
LEMMA StepBufferIs ==
  ASSUME NEW o, NEW mode, NEW bt, NEW lens, Ready(o, mode, bt, lens), NEW j \in 1 .. Len(lens),
         NEW b, LaneIs(o, mode, bt, lens, j, b), NEW n \in Nat, b.off + n <= lens[j],
         ~o.multi => b.off = 0 /\ n = lens[j]
  PROVE  StepDone(o, mode, bt, lens, j, b, n, StepBuffer(o, mode, j, b, n))
<1> DEFINE e == StepBuffer(o, mode, j, b, n)
           r == ModeText(mode, "encrypt", o.key, b.iv, Cut(o.data[j], b.off, n))
           k == o.key
           v == bt.ivs[j]
           t == bt.texts[j]
           u == bt.outs[j]
           d == o.data[j]
           l == lens[j]
           multi == o.multi
<1>1. e.off = b.off + n /\ e.iv = WrittenBack(multi, mode, b.iv, r) /\ e.out = b.out \o r.out
  BY DEF StepBuffer, Cut
<1> HIDE DEF e
<1>2. multi \in BOOLEAN /\ mode \in {"cbc", "cfb"} /\ RawBytes(d, l) /\ b.off + n <= l
      /\ (~multi => b.off = 0 /\ n = l)
  BY DEF Ready
<1>3. PICK mt, mu : Long(t, mt) /\ Long(u, mu)
  BY DEF Ready
<1>4. LaneOk(multi, mode, k, v, t, u, d, l, b)
  BY DEF LaneIs
<1>5. r = ModeText(mode, "encrypt", k, b.iv, Cut(d, b.off, n))
  OBVIOUS
<1> HIDE DEF r, k, v, t, u, d, l, multi
<1>6. LaneAfter(multi, mode, k, v, t, u, d, l, n, e)
  BY <1>1, <1>2, <1>3, <1>4, <1>5, LaneStep
<1> QED BY <1>1, <1>6 DEF LaneAfter, StepDone, LaneIs, LaneEnds, e, k, v, t, u, d, l, multi

\* The buffers after a step of those of T.
StepsDone(o, mode, bt, lens, q, T, n, p) ==
  /\ LanesOk(o, mode, bt, lens, p)
  /\ \A j \in T : p[j].off = q[j].off + n

(* Every buffer that is stepped goes on with its own text, the others      *)
(* stay.                                                                   *)
LEMMA StepBuffersIs ==
  ASSUME NEW o, NEW mode, NEW bt, NEW lens, Ready(o, mode, bt, lens),
         NEW q, LanesOk(o, mode, bt, lens, q), NEW T, T \subseteq 1 .. Len(lens),
         NEW n \in Nat, n = Block * (n \div Block), \A j \in T : q[j].off + n <= lens[j],
         ~o.multi => \A j \in T : q[j].off = 0 /\ n = lens[j]
  PROVE  StepsDone(o, mode, bt, lens, q, T, n, StepBuffers(o, mode, q, T, n))
<1> DEFINE p == StepBuffers(o, mode, q, T, n)
<1>1. /\ DOMAIN p = 1 .. Len(lens)
      /\ \A j \in 1 .. Len(lens) : p[j] = IF j \in T THEN StepBuffer(o, mode, j, q[j], n) ELSE q[j]
  BY DEF StepBuffers, LanesOk
<1> HIDE DEF p
<1>2. ASSUME NEW j \in T
      PROVE  StepDone(o, mode, bt, lens, j, q[j], n, p[j])
  <2> DEFINE b == q[j]
  <2>1. LaneIs(o, mode, bt, lens, j, b) /\ j \in 1 .. Len(lens)
    BY DEF LanesOk
  <2>2. b.off + n <= lens[j] /\ (~o.multi => b.off = 0 /\ n = lens[j])
    OBVIOUS
  <2> HIDE DEF b
  <2>3. StepDone(o, mode, bt, lens, j, b, n, StepBuffer(o, mode, j, b, n))
    BY <2>1, <2>2, StepBufferIs
  <2> QED BY <1>1, <2>1, <2>3 DEF b
<1>3. ASSUME NEW j \in 1 .. Len(lens)
      PROVE  LaneIs(o, mode, bt, lens, j, p[j])
  <2>1. CASE j \in T
    BY <1>2, <2>1 DEF StepDone
  <2>2. CASE j \notin T
    BY <1>1, <2>2 DEF LanesOk
  <2> QED BY <2>1, <2>2
<1>4. \A j \in T : p[j].off = q[j].off + n
  BY <1>2 DEF StepDone
<1> QED BY <1>1, <1>3, <1>4 DEF StepsDone, LanesOk, p

\* A step of all active buffers, of as many blocks as every one has left.
ActiveDone(o, mode, bt, lens, a, p) ==
  /\ LanesOk(o, mode, bt, lens, p)
  /\ ~o.multi => \A j \in a.active : p[j].off = lens[j]

(* A step of all active buffers keeps each on its way; without             *)
(* AES_MULTI_UPDATE it does all of them.                                   *)
LEMMA ActiveStep ==
  ASSUME NEW o, NEW mode, NEW bt, NEW lens, Ready(o, mode, bt, lens), Even(o, lens),
         NEW a, RoundOk(o, mode, bt, lens, a), a.active # {}
  PROVE  ActiveDone(o, mode, bt, lens, a,
                    StepBuffers(o, mode, a.q, a.active, MinLen(a.q, a.active, lens)))
<1> DEFINE T == a.active
           q == a.q
           n == MinLen(q, T, lens)
           p == StepBuffers(o, mode, q, T, n)
<1>1. /\ T \subseteq 1 .. Len(lens) /\ T # {} /\ LanesOk(o, mode, bt, lens, q)
      /\ ~o.multi => \A j \in T : q[j].off = 0
  BY DEF RoundOk
<1> HIDE DEF T, q
<1>2. ASSUME NEW j \in T
      PROVE  lens[j] \in Nat /\ q[j].off \in 0 .. lens[j]
  <2>1. LaneIs(o, mode, bt, lens, j, q[j]) /\ RawBytes(o.data[j], lens[j])
    BY <1>1 DEF LanesOk, Ready
  <2>2. q[j].off \in 0 .. lens[j]
    BY <2>1 DEF LaneIs, LaneOk
  <2> QED BY <2>1, <2>2, RawIsLong
<1>3. MinLenDone(q, T, lens, n)
  BY <1>1, <1>2, MinLenIs
<1> HIDE DEF n
<1>4. n \in Nat /\ n = Block * (n \div Block) /\ \A j \in T : q[j].off + n <= lens[j]
  BY <1>3 DEF MinLenDone
<1>5. ~o.multi => \A j \in T : q[j].off = 0 /\ n = lens[j]
  <2> SUFFICES ASSUME ~o.multi PROVE \A j \in T : q[j].off = 0 /\ n = lens[j]
    OBVIOUS
  <2> DEFINE l == lens[1]
  <2>1. \A j \in T : lens[j] = l /\ lens[j] = Block * (lens[j] \div Block) /\ q[j].off = 0
    BY <1>1 DEF Even
  <2>2. PICK i \in T : TRUE
    BY <1>1
  <2>3. l \in Nat /\ l = Block * (l \div Block)
    BY <1>2, <2>1, <2>2
  <2>4. \A j \in T : lens[j] - q[j].off = l
    BY <2>1, <2>3
  <2> HIDE DEF l
  <2>5. n = l
    BY <1>3, <2>3, <2>4 DEF MinLenDone
  <2> QED BY <2>1, <2>5
<1>6. StepsDone(o, mode, bt, lens, q, T, n, p)
  BY <1>1, <1>4, <1>5, StepBuffersIs
<1> HIDE DEF p
<1>7. ~o.multi => \A j \in T : p[j].off = lens[j]
  <2> SUFFICES ASSUME ~o.multi, NEW j \in T PROVE p[j].off = lens[j]
    OBVIOUS
  <2>1. q[j].off = 0 /\ n = lens[j] /\ p[j].off = q[j].off + n
    BY <1>5, <1>6 DEF StepsDone
  <2> QED BY <1>4, <2>1
<1> QED BY <1>6, <1>7 DEF StepsDone, ActiveDone, T, q, n, p

(* So does a round of the loop.                                            *)
LEMMA RoundGoesOn ==
  ASSUME NEW o, NEW mode, NEW bt, NEW lens, Ready(o, mode, bt, lens), Even(o, lens),
         NEW a, RoundOk(o, mode, bt, lens, a)
  PROVE  RoundOk(o, mode, bt, lens, MinLenRound(o, mode, lens, a))
<1> DEFINE p == StepBuffers(o, mode, a.q, a.active, MinLen(a.q, a.active, lens))
           T == {j \in a.active : p[j].off < lens[j]}
           z == [q |-> p, active |-> T]
<1>1. MinLenRound(o, mode, lens, a) =
        IF Cardinality(a.active) <= 2 \/ MinLen(a.q, a.active, lens) = 0 THEN a ELSE z
  BY DEF MinLenRound
<1>2. CASE a.active = {} \/ Cardinality(a.active) <= 2
  <2>1. Cardinality({}) <= 2
    <3>1. Cardinality({}) = 0
      BY FS_EmptySet
    <3> QED BY <3>1
  <2>2. MinLenRound(o, mode, lens, a) = a
    <3> HIDE DEF z
    <3> QED BY <1>1, <1>2, <2>1
  <2> QED BY <2>2
<1>3. CASE a.active # {}
  <2>1. ActiveDone(o, mode, bt, lens, a, p)
    BY <1>3, ActiveStep
  <2> HIDE DEF p
  <2>2. z.q = p /\ z.active = T /\ T \subseteq a.active /\ \A j \in T : p[j].off < lens[j]
    OBVIOUS
  <2> HIDE DEF T, z
  <2>3. RoundOk(o, mode, bt, lens, z)
    <3>1. ~o.multi => T = {}
      <4> SUFFICES ASSUME ~o.multi, NEW j \in T PROVE FALSE
        OBVIOUS
      <4>1. p[j].off = lens[j] /\ p[j].off < lens[j]
        BY <2>1, <2>2 DEF ActiveDone
      <4>2. lens[j] \in Nat
        <5>1. j \in 1 .. Len(lens)
          BY <2>2 DEF RoundOk
        <5> QED BY <5>1, RawIsLong DEF Ready
      <4> QED BY <4>1, <4>2
    <3> QED BY <2>1, <2>2, <3>1 DEF RoundOk, ActiveDone
  <2>4. MinLenRound(o, mode, lens, a) = a \/ MinLenRound(o, mode, lens, a) = z
    BY <1>1
  <2> QED BY <2>3, <2>4
<1> QED BY <1>2, <1>3

(* And any number of rounds.                                               *)
LEMMA RoundsGoOn ==
  ASSUME NEW o, NEW mode, NEW bt, NEW lens, Ready(o, mode, bt, lens), Even(o, lens),
         NEW q, LanesOk(o, mode, bt, lens, q), \A j \in 1 .. Len(lens) : q[j].off = 0
  PROVE  RoundOk(o, mode, bt, lens, Rounds(o, mode, lens, q)[Len(lens)])
<1> DEFINE n == Len(lens)
           at == Rounds(o, mode, lens, q)
           T == {i \in 0 .. n : RoundOk(o, mode, bt, lens, at[i])}
           first == [q |-> q, active |-> 1 .. Len(lens)]
<1>1. n \in Nat
  BY DEF Ready
<1>2. at[0] = first /\ \A i \in 1 .. n : at[i] = MinLenRound(o, mode, lens, at[i - 1])
  BY <1>1, RoundsIs
<1>3. RoundOk(o, mode, bt, lens, first)
  <2>1. first.q = q /\ first.active = 1 .. Len(lens)
    OBVIOUS
  <2> HIDE DEF first
  <2> QED BY <2>1 DEF RoundOk
<1> HIDE DEF at, first
<1>4. 0 \in T
  BY <1>1, <1>2, <1>3
<1>5. ASSUME NEW i \in 0 .. n - 1, i \in T PROVE i + 1 \in T
  <2>1. i + 1 \in 1 .. n /\ (i + 1) - 1 = i /\ i + 1 \in 0 .. n
    BY <1>1
  <2>2. at[i + 1] = MinLenRound(o, mode, lens, at[i])
    BY <1>2, <2>1
  <2>3. RoundOk(o, mode, bt, lens, at[i])
    BY <1>5
  <2>4. RoundOk(o, mode, bt, lens, at[i + 1])
    BY <2>2, <2>3, RoundGoesOn
  <2> QED BY <2>1, <2>4
<1>6. 0 .. n \subseteq T
  <2> HIDE DEF T, n
  <2> QED BY <1>1, <1>4, <1>5, ByInduction
<1>7. n \in T
  BY <1>1, <1>6
<1> QED BY <1>7 DEF at

(* The two buffers or the one that are left go on in the same way.         *)
LEMMA LastTwoIs ==
  ASSUME NEW o, NEW mode, NEW bt, NEW lens, Ready(o, mode, bt, lens), Even(o, lens),
         NEW a, RoundOk(o, mode, bt, lens, a)
  PROVE  LanesOk(o, mode, bt, lens, LastTwo(o, mode, lens, a))
<1> DEFINE p == StepBuffers(o, mode, a.q, a.active, MinLen(a.q, a.active, lens))
<1>1. LastTwo(o, mode, lens, a) = IF Cardinality(a.active) \in 1 .. 2 THEN p ELSE a.q
  BY DEF LastTwo
<1>2. CASE Cardinality(a.active) \in 1 .. 2
  <2>1. a.active # {}
    <3>1. Cardinality({}) = 0
      BY FS_EmptySet
    <3> QED BY <1>2, <3>1
  <2>2. ActiveDone(o, mode, bt, lens, a, p)
    BY <2>1, ActiveStep
  <2> HIDE DEF p
  <2> QED BY <1>1, <1>2, <2>2 DEF ActiveDone
<1>3. CASE Cardinality(a.active) \notin 1 .. 2
  <2> HIDE DEF p
  <2> QED BY <1>1, <1>3 DEF RoundOk
<1> QED BY <1>2, <1>3

\* All the buffers done.
LanesEnd(o, mode, bt, lens, q) ==
  /\ DOMAIN q = 1 .. Len(lens)
  /\ \A j \in 1 .. Len(lens) : LaneEnds(o, mode, bt, j, q[j].iv, q[j].out)

(* What is left of every buffer brings it to its end.                      *)
LEMMA TailsIs ==
  ASSUME NEW o, NEW mode, NEW bt, NEW lens, Ready(o, mode, bt, lens),
         NEW q, LanesOk(o, mode, bt, lens, q)
  PROVE  LanesEnd(o, mode, bt, lens, Tails(o, mode, lens, q))
<1> DEFINE p == Tails(o, mode, lens, q)
<1>1. /\ DOMAIN p = 1 .. Len(lens)
      /\ \A j \in 1 .. Len(lens) :
           p[j] = IF lens[j] > q[j].off
                  THEN StepBuffer(o, mode, j, q[j], lens[j] - q[j].off) ELSE q[j]
  BY DEF Tails, LanesOk
<1> HIDE DEF p
<1>2. ASSUME NEW j \in 1 .. Len(lens)
      PROVE  LaneEnds(o, mode, bt, j, p[j].iv, p[j].out)
  <2> DEFINE b == q[j]
             l == lens[j]
             n == l - b.off
  <2>1. LaneIs(o, mode, bt, lens, j, b) /\ RawBytes(o.data[j], l)
        /\ mode \in {"cbc", "cfb"} /\ o.multi \in BOOLEAN
    BY DEF LanesOk, Ready
  <2>2. b.off \in 0 .. l /\ (~o.multi => b.off = 0 \/ b.off = l)
    BY <2>1 DEF LaneIs, LaneOk
  <2>3. l \in Nat
    BY <2>1, RawIsLong
  <2>4. CASE l > b.off
    <3>1. n \in Nat /\ b.off + n = l
      BY <2>2, <2>3
    <3>2. ~o.multi => b.off = 0 /\ n = l
      BY <2>2, <2>3, <2>4
    <3>3. p[j] = StepBuffer(o, mode, j, b, n)
      BY <1>1, <2>4
    <3>4. b.off + n <= lens[j]
      BY <2>3, <3>1
    <3> HIDE DEF b, n
    <3>5. StepDone(o, mode, bt, lens, j, b, n, p[j])
      BY <2>1, <3>1, <3>2, <3>3, <3>4, StepBufferIs
    <3>6. p[j].off = lens[j]
      BY <3>1, <3>5 DEF StepDone
    <3> QED BY <3>5, <3>6 DEF StepDone
  <2>5. CASE ~(l > b.off)
    <3>1. b.off = l /\ p[j] = b
      BY <1>1, <2>2, <2>3, <2>5
    <3>2. LaneOk(o.multi, mode, o.key, bt.ivs[j], bt.texts[j], bt.outs[j], o.data[j], l, b)
      BY <2>1 DEF LaneIs
    <3> DEFINE multi == o.multi
               k == o.key
               v == bt.ivs[j]
               t == bt.texts[j]
               u == bt.outs[j]
               d == o.data[j]
    <3> HIDE DEF multi, k, v, t, u, d, b, l
    <3>3. /\ multi \in BOOLEAN /\ mode \in {"cbc", "cfb"} /\ RawBytes(d, l)
          /\ LaneOk(multi, mode, k, v, t, u, d, l, b)
      BY <2>1, <3>2 DEF multi, k, v, t, u, d
    <3>4. LaneEnd(multi, mode, k, v, t, u, d, b.iv, b.out)
      BY <3>1, <3>3, LaneComplete
    <3> QED BY <3>1, <3>4 DEF LaneEnds, multi, k, v, t, u, d, b
  <2> QED BY <2>4, <2>5
<1> QED BY <1>1, <1>2 DEF LanesEnd, p

(* A buffer of a new batch begins where the one before ended.              *)
LEMMA LaneBegins ==
  ASSUME NEW multi \in BOOLEAN, NEW mode, NEW k, NEW v, NEW t, NEW u, NEW iv,
         BatchLane(multi, mode, k, v, t, u, iv), multi => Remainder(t) = <<>>,
         NEW d, NEW l, RawBytes(d, l),
         NEW b, b.iv = iv, b.off = 0, b.out = <<>>
  PROVE  LaneOk(multi, mode, k, v, t, u, d, l, b)
<1> DEFINE o == 0
<1>1. l \in Nat /\ Long(d, l)
  BY RawIsLong
<1>2. o \in 0 .. l /\ Long(<<>>, o)
  BY <1>1, EmptyText
<1>3. PICK m : /\ Long(t, m) /\ Long(u, m)
               /\ IF multi THEN m = Block * (m \div Block) =>
                                  \E a : Streamed(mode, k, v, "encrypt", a, t, u, iv)
                  ELSE iv = IvBlock(v)
  BY DEF BatchLane
<1>4. CASE multi = TRUE
  <2>1. m = Block * (m \div Block)
    <3>1. Remainder(t) = <<>>
      BY <1>4
    <3>2. m = Block * Blocks(t) /\ Blocks(t) = m \div Block
      BY <1>3, <3>1, WholeAndRest
    <3> QED BY <3>2
  <2>2. PICK a : Streamed(mode, k, v, "encrypt", a, t, u, iv)
    BY <1>3, <1>4, <2>1
  <2>3. t \o Cut(d, 0, 0) = t /\ u \o <<>> = u
    <3>1. Cut(d, 0, 0) = <<>>
      <4>1. o \in Nat /\ o + o <= l
        BY <1>1
      <4> HIDE DEF o
      <4>2. Long(Cut(d, o, o), o)
        BY <1>1, <4>1, CutIs
      <4> QED BY <4>2, EmptyText DEF o
    <3> QED BY <1>3, <3>1, JoinEmpty
  <2>4. b.off = Block * (b.off \div Block)
    <3>1. 0 \in Nat
      OBVIOUS
    <3>2. (Block * o) \div Block = o
      <4>1. o \in Nat
        OBVIOUS
      <4> HIDE DEF o
      <4> QED BY <4>1, CountOfJoin
    <3> QED BY <3>2, BlockMultiple
  <2> QED BY <1>2, <1>4, <2>2, <2>3, <2>4 DEF LaneOk
<1>5. CASE multi = FALSE
  BY <1>2, <1>3, <1>5 DEF LaneOk
<1> QED BY <1>4, <1>5

-----------------------------------------------------------------------------
(* The batches in progress.                                                *)

\* The buffers after a dequeue.
DequeueDone(o, mode, bt, lens, r) ==
  /\ Long(r.out, Len(lens))
  /\ \A j \in 1 .. Len(lens) : LaneEnds(o, mode, bt, j, r.obj.ivs[j], r.out[j])

(* A dequeue brings every buffer to its end, with the kernels of zen4 or   *)
(* those before it (aes_generic.cc:301).                                   *)
LEMMA DequeueIs ==
  ASSUME NEW o, GenericShaped(o), NEW mode, NEW bt, NEW lens, Ready(o, mode, bt, lens),
         Len(lens) <= MaxBuffers, NEW a, a = "zen4" => Even(o, lens),
         \A j \in 1 .. Len(lens) :
           /\ BatchLane(o.multi, mode, o.key, bt.ivs[j], bt.texts[j], bt.outs[j], o.ivs[j])
           /\ o.multi => Remainder(bt.texts[j]) = <<>>,
         NEW r, r = Dequeue(o, a, mode, lens), r.err = "NONE"
  PROVE  DequeueDone(o, mode, bt, lens, r)
<1> DEFINE n == Len(lens)
           start == [j \in 1 .. n |-> [iv |-> o.ivs[j], off |-> 0, out |-> <<>>]]
           z == IF a = "zen4"
                THEN LastTwo(o, mode, lens, Rounds(o, mode, lens, start)[n]) ELSE start
           q == Tails(o, mode, lens, z)
           ivs == [j \in 1 .. MaxBuffers |-> IF j <= n THEN q[j].iv ELSE o.ivs[j]]
           p == [o EXCEPT !.ivs = ivs]
           outs == [j \in 1 .. n |-> q[j].out]
<1>1. r = IF ~o.keySet THEN Done(o, "BAD_STATE")
          ELSE IF a = "zen4" /\ n > MaxBuffers THEN Done(o, "INVALID_ARG")
          ELSE Wrote(p, outs, 0)
  BY DEF Dequeue
<1>2. n \in Nat /\ MaxBuffers \in Nat
  BY BlockModesAssumption DEF Ready
<1>3. p.ivs = ivs
  <2> HIDE DEF ivs
  <2> QED BY DEF GenericShaped
<1>4. \A j \in 1 .. n : ivs[j] = q[j].iv
  <2> HIDE DEF q, n
  <2>1. \A j \in 1 .. n : j \in 1 .. MaxBuffers /\ j <= n
    BY <1>2 DEF n
  <2> QED BY <2>1
<1>5. Long(outs, n) /\ \A j \in 1 .. n : outs[j] = q[j].out
  BY <1>2 DEF Long
<1> HIDE DEF ivs, outs
<1>6. r.obj = p /\ r.out = outs
  <2> HIDE DEF p
  <2> QED BY <1>1, DoneIs, WroteIs
<1>7. /\ DOMAIN start = 1 .. n
      /\ \A j \in 1 .. n : start[j].iv = o.ivs[j] /\ start[j].off = 0 /\ start[j].out = <<>>
  OBVIOUS
<1> HIDE DEF p, start, q, n
<1>8. LanesOk(o, mode, bt, lens, start)
  <2>1. ASSUME NEW j \in 1 .. Len(lens)
        PROVE  LaneIs(o, mode, bt, lens, j, start[j])
    <3> DEFINE multi == o.multi
               k == o.key
               v == bt.ivs[j]
               t == bt.texts[j]
               u == bt.outs[j]
               d == o.data[j]
               l == lens[j]
               iv == o.ivs[j]
               b == start[j]
    <3>1. /\ BatchLane(multi, mode, k, v, t, u, iv) /\ (multi => Remainder(t) = <<>>)
          /\ multi \in BOOLEAN /\ RawBytes(d, l)
          /\ b.iv = iv /\ b.off = 0 /\ b.out = <<>>
      BY <1>7 DEF Ready, n
    <3> HIDE DEF multi, k, v, t, u, d, l, iv, b
    <3>2. LaneOk(multi, mode, k, v, t, u, d, l, b)
      BY <3>1, LaneBegins
    <3> QED BY <3>2 DEF LaneIs, multi, k, v, t, u, d, l, b
  <2> QED BY <1>7, <2>1 DEF LanesOk, n
<1>9. LanesOk(o, mode, bt, lens, z)
  <2>1. CASE a = "zen4"
    <3> DEFINE w == Rounds(o, mode, lens, start)[n]
    <3>1. RoundOk(o, mode, bt, lens, w)
      BY <1>7, <1>8, <2>1, RoundsGoOn DEF n
    <3> HIDE DEF w
    <3>2. LanesOk(o, mode, bt, lens, LastTwo(o, mode, lens, w))
      BY <2>1, <3>1, LastTwoIs
    <3> QED BY <2>1, <3>2 DEF w
  <2>2. CASE a # "zen4"
    BY <1>8, <2>2
  <2> QED BY <2>1, <2>2
<1> HIDE DEF z
<1>10. LanesEnd(o, mode, bt, lens, q)
  BY <1>9, TailsIs DEF q
<1> QED BY <1>3, <1>4, <1>5, <1>6, <1>10 DEF DequeueDone, LanesEnd, n

\* What has been flushed to the buffers.
DataOk(o) ==
  /\ Len(o.lens) \in Nat /\ Len(o.lens) <= MaxBuffers /\ Len(o.data) = Len(o.lens)
  /\ \A j \in 1 .. Len(o.lens) : RawBytes(o.data[j], o.lens[j])

\* The fields of the batches in progress.
BatchShaped(bt) ==
  /\ DOMAIN bt = {"on", "key", "ivs", "texts", "outs"}
  /\ bt.on \in BOOLEAN /\ Len(bt.ivs) \in Nat
  /\ Long(bt.texts, Len(bt.ivs)) /\ Long(bt.outs, Len(bt.ivs))

\* Each buffer of the batches in progress is the mode's.
BatchOk(kd, o, bt) ==
  /\ o.key = bt.key /\ Len(bt.ivs) <= MaxBuffers
  /\ \A j \in 1 .. Len(bt.ivs) :
       BatchLane(o.multi, kd, bt.key, bt.ivs[j], bt.texts[j], bt.outs[j], o.ivs[j])

\* The inductive invariant for the buffers: what is flushed has the length
\* it says, the object has the batches' key, and each buffer's IV is the one
\* its next batch goes on from.
BatchInv(kd, o, bt) ==
  /\ BatchShaped(bt)
  /\ kd \in {"cbc", "cfb"} => DataOk(o)
  /\ bt.on => kd \in {"cbc", "cfb"} /\ BatchOk(kd, o, bt)

(* Without batches there is nothing to say of them.                        *)
LEMMA NoBatchIs == BatchShaped(NoBatch) /\ NoBatch.on = FALSE
BY EmptyText, LongIsText DEF NoBatch, BatchShaped

\* A call that leaves key, IVs and texts alone leaves the batches alone.
LEMMA BatchStays ==
  ASSUME NEW kd, NEW o, NEW bt, BatchInv(kd, o, bt), NEW p, p.multi = o.multi, p.key = o.key,
         p.ivs = o.ivs, p.data = o.data, p.lens = o.lens
  PROVE  BatchInv(kd, p, bt)
BY DEF BatchInv, DataOk, BatchOk

(* Batches may end at any time.                                            *)
LEMMA BatchesEnd ==
  ASSUME NEW kd, NEW o, NEW bt, BatchInv(kd, o, bt), NEW p, p.data = o.data, p.lens = o.lens
  PROVE  BatchInv(kd, p, NoBatch)
BY NoBatchIs DEF BatchInv, DataOk

\* The invariant of the buffers.
BatchNow == BatchInv(kind, obj, mb)

(* It holds when the handle is requested.                                  *)
LEMMA BatchesStart ==
  ASSUME CipherInit
  PROVE  BatchNow
<1>1. kind \in Kinds /\ mb = NoBatch
  BY DEF CipherInit
<1>2. kind \in {"cbc", "cfb"} => DataOk(obj)
  <2> SUFFICES ASSUME kind \in {"cbc", "cfb"} PROVE DataOk(obj)
    OBVIOUS
  <2>1. PICK multi \in Builds[kind] : obj = GenericNew(multi)
    BY DEF CipherInit, IsXts
  <2>2. obj.data = <<>> /\ obj.lens = <<>>
    BY <2>1 DEF GenericNew
  <2> QED BY <2>2, BlockModesAssumption, EmptyText, LongIsText DEF DataOk
<1> QED BY <1>1, <1>2, NoBatchIs DEF BatchNow, BatchInv

(* Modes without buffers have no batches.                                  *)
LEMMA OtherKinds ==
  ASSUME NEW kd, kd \notin {"cbc", "cfb"}, NEW o, NEW bt, BatchInv(kd, o, bt), NEW p
  PROVE  BatchInv(kd, p, bt) /\ BatchInv(kd, p, NoBatch)
BY NoBatchIs DEF BatchInv

(* An init that takes another key ends the batches; any other leaves them  *)
(* alone.                                                                  *)
LEMMA BatchInit ==
  ASSUME SessionNow, BatchNow, NEW k \in Keys \cup {NoKey, BadKey}, NEW v, InitCall(k, v)
  PROVE  BatchNow'
<1> DEFINE r == IF k = NoKey /\ v = NoIv THEN Done(obj, "INVALID_ARG")
                ELSE IF IsXts THEN XtsInit(obj, k, v) ELSE GenericInit(obj, k, v)
<1>1. /\ obj' = r.obj /\ kind' = kind
      /\ mb' = IF k \in Keys /\ k # mb.key THEN NoBatch ELSE mb
  BY Zenon DEF InitCall
<1>2. BatchInv(kind, obj, mb)
  BY DEF BatchNow
<1>3. CASE kind \notin {"cbc", "cfb"}
  <2> HIDE DEF r
  <2> QED BY <1>1, <1>2, <1>3, OtherKinds DEF BatchNow
<1>4. CASE kind \in {"cbc", "cfb"}
  <2>1. ~IsXts /\ GenericShaped(obj)
    BY <1>4, SessionKinds DEF IsXts
  <2>2. /\ r.obj.multi = obj.multi /\ r.obj.ivs = obj.ivs /\ r.obj.data = obj.data
        /\ r.obj.lens = obj.lens
        /\ r.obj.key = obj.key \/ (r.obj.key = k /\ k \notin {NoKey, BadKey})
    <3>1. CASE k = NoKey /\ v = NoIv
      <4>1. r.obj = obj
        BY <3>1, DoneIs
      <4> HIDE DEF r
      <4> QED BY <4>1
    <3>2. CASE ~(k = NoKey /\ v = NoIv)
      <4>1. r = GenericInit(obj, k, v)
        BY <2>1, <3>2
      <4> HIDE DEF r
      <4>2. GenericInitDone(obj, k, v, r)
        BY <2>1, <4>1, GenericInitIs
      <4> QED BY <4>2 DEF GenericInitDone, GenericKept
    <3> QED BY <3>1, <3>2
  <2> DEFINE o == r.obj
  <2> HIDE DEF r
  <2>3. CASE mb' = NoBatch
    <3>1. BatchInv(kind, o, NoBatch)
      BY <1>2, <2>2, BatchesEnd
    <3> QED BY <1>1, <2>3, <3>1 DEF BatchNow
  <2>4. CASE mb' = mb /\ o.key = obj.key
    <3>1. BatchInv(kind, o, mb)
      BY <1>2, <2>2, <2>4, BatchStays
    <3> QED BY <1>1, <2>4, <3>1 DEF BatchNow
  <2>5. CASE mb' = mb /\ ~(k \in Keys /\ k # mb.key) /\ o.key # obj.key
    <3>1. k \in Keys /\ k = mb.key /\ o.key = k
      BY <2>2, <2>5
    <3>2. BatchShaped(mb) /\ DataOk(o)
      BY <1>2, <1>4, <2>2 DEF BatchInv, DataOk
    <3>3. mb.on => BatchOk(kind, o, mb)
      BY <1>2, <2>2, <3>1 DEF BatchInv, BatchOk
    <3>4. BatchInv(kind, o, mb)
      BY <1>4, <3>2, <3>3 DEF BatchInv
    <3> QED BY <1>1, <2>5, <3>4 DEF BatchNow
  <2> QED BY <1>1, <2>3, <2>4, <2>5
<1> QED BY <1>3, <1>4

(* A copy has no batches.                                                  *)
LEMMA BatchCopy ==
  ASSUME SessionNow, BatchNow, ContextCopy
  PROVE  BatchNow'
<1> DEFINE r == IF IsXts THEN Done(obj, "NOT_SUPPORTED") ELSE GenericCopy(obj)
<1>1. obj' = r.obj /\ kind' = kind /\ mb' = NoBatch
  BY Zenon DEF ContextCopy
<1>2. BatchInv(kind, obj, mb)
  BY DEF BatchNow
<1>3. CASE kind \notin {"cbc", "cfb"}
  <2> HIDE DEF r
  <2> QED BY <1>1, <1>2, <1>3, OtherKinds DEF BatchNow
<1>4. CASE kind \in {"cbc", "cfb"}
  <2>1. ~IsXts /\ GenericShaped(obj)
    BY <1>4, SessionKinds DEF IsXts
  <2>2. CopyDone(obj, r.obj)
    BY <2>1, GenericCopyIs
  <2> HIDE DEF r
  <2>3. DataOk(r.obj)
    BY <2>2, BlockModesAssumption, EmptyText, LongIsText DEF DataOk, CopyDone
  <2> QED BY <1>1, <2>3, NoBatchIs DEF BatchNow, BatchInv
<1> QED BY <1>3, <1>4

(* The single text leaves the batches alone.                               *)
LEMMA BatchCrypt ==
  ASSUME SessionNow, BatchNow, NEW x, NEW dir, NEW drift, Crypt(x, dir, drift)
  PROVE  BatchNow'
<1> DEFINE r == CryptOf(x, dir, drift)
           o == r.obj
<1>1. obj' = o /\ kind' = kind /\ mb' = mb
  BY Zenon DEF Crypt
<1>2. BatchInv(kind, obj, mb)
  BY DEF BatchNow
<1>3. CASE kind \notin {"cbc", "cfb"}
  <2> HIDE DEF o
  <2> QED BY <1>1, <1>2, <1>3, OtherKinds DEF BatchNow
<1>4. CASE kind \in {"cbc", "cfb"}
  <2>1. kind # "xts" /\ GenericShaped(obj)
    BY <1>4, SessionKinds DEF IsXts
  <2>2. /\ r.err # "NONE" => o = obj
        /\ r.err = "NONE" => r = IF kind = "cbc" /\ obj.multi THEN CbcUpdate(obj, dir, x)
                                 ELSE Kernel(obj, kind, dir, x)
    <3> HIDE DEF r
    <3> QED BY <2>1, ModeCalled DEF r
  <2> HIDE DEF r
  <2>3. /\ o.multi = obj.multi /\ o.key = obj.key /\ o.ivs = obj.ivs
        /\ o.data = obj.data /\ o.lens = obj.lens
    <3>1. CASE r.err # "NONE"
      BY <2>2, <3>1
    <3>2. CASE r.err = "NONE" /\ kind = "cbc" /\ obj.multi
      <4>1. CbcDone(obj, dir, x, r)
        BY <2>1, <2>2, <3>2, CbcUpdateIs
      <4> QED BY <4>1 DEF CbcDone, Moved
    <3>3. CASE r.err = "NONE" /\ ~(kind = "cbc" /\ obj.multi)
      <4>1. KernelDone(obj, kind, dir, x, r)
        BY <2>1, <2>2, <3>3, KernelIs
      <4> QED BY <4>1 DEF KernelDone, Moved
    <3> QED BY <3>1, <3>2, <3>3
  <2> HIDE DEF o
  <2>4. BatchInv(kind, o, mb)
    BY <1>2, <2>3, BatchStays
  <2> QED BY <1>1, <2>4 DEF BatchNow
<1> QED BY <1>3, <1>4

(* A flush keeps texts and lengths together, and refuses more than there   *)
(* are buffers.                                                            *)
LEMMA BatchFlush ==
  ASSUME SessionNow, BatchNow, NEW xs \in Batches, FlushCall(xs)
  PROVE  BatchNow'
<1> DEFINE texts == [j \in 1 .. Len(xs) |-> Raw(xs[j])]
           lens == [j \in 1 .. Len(xs) |-> Len(xs[j])]
           p == [obj EXCEPT !.data = texts, !.lens = lens]
<1>1. IsMulti /\ kind' = kind /\ obj' = Flush(obj, texts, lens).obj /\ mb' = mb
  BY Zenon DEF FlushCall
<1>2. xs \in Seq(Seq(Nat)) /\ Len(xs) \in Nat /\ \A j \in 1 .. Len(xs) : xs[j] \in Seq(Nat)
  BY SessionAssumption
<1>3. /\ Long(texts, Len(xs)) /\ Long(lens, Len(xs))
      /\ \A j \in 1 .. Len(xs) : RawBytes(texts[j], lens[j])
  BY <1>2, RawOf DEF Long
<1> HIDE DEF texts, lens
<1>4. Len(texts) = Len(xs) /\ Len(lens) = Len(xs)
  BY <1>3, LongIsText
<1>5. kind \in {"cbc", "cfb"} /\ GenericShaped(obj) /\ BatchInv(kind, obj, mb)
  BY <1>1, SessionKinds DEF IsMulti, BatchNow
<1>6. obj' = obj \/ (obj' = p /\ Len(lens) <= MaxBuffers)
  <2> HIDE DEF p
  <2>1. Flush(obj, texts, lens) =
          IF Len(lens) > MaxBuffers THEN Done(obj, "INVALID_ARG") ELSE Done(p, "NONE")
    BY DEF Flush, p
  <2>2. Len(lens) \in Nat /\ MaxBuffers \in Nat
    BY <1>2, <1>4, BlockModesAssumption
  <2>3. CASE Len(lens) > MaxBuffers
    BY <1>1, <2>1, <2>3, DoneIs
  <2>4. CASE ~(Len(lens) > MaxBuffers)
    BY <1>1, <2>1, <2>2, <2>4, DoneIs
  <2> QED BY <2>3, <2>4
<1>7. /\ p.data = texts /\ p.lens = lens /\ p.multi = obj.multi /\ p.key = obj.key
      /\ p.ivs = obj.ivs
  BY <1>5 DEF GenericShaped
<1> HIDE DEF p
<1>8. CASE obj' = obj
  BY <1>1, <1>5, <1>8 DEF BatchNow
<1>9. CASE obj' = p /\ Len(lens) <= MaxBuffers
  <2>1. DataOk(p)
    BY <1>2, <1>3, <1>4, <1>7, <1>9 DEF DataOk
  <2>2. BatchInv(kind, p, mb)
    BY <1>5, <1>7, <2>1 DEF BatchInv, BatchOk
  <2> QED BY <1>1, <1>9, <2>2 DEF BatchNow
<1> QED BY <1>6, <1>8, <1>9

(* A buffer begins at its IV.                                              *)
LEMMA LaneFresh ==
  ASSUME NEW multi \in BOOLEAN, NEW mode \in {"cbc", "cfb"}, NEW k, NEW v
  PROVE  BatchLane(multi, mode, k, v, <<>>, <<>>, IvBlock(v))
<1> DEFINE e == <<>>
           o == 0
           c == IvBlock(v)
<1>1. mode \in Modes \ {"ofb"}
  BY DEF Modes
<1>2. Streamed(mode, k, v, "encrypt", o, e, e, c)
  BY <1>1, StreamBegins
<1>3. PlainOf("encrypt", e, e) = e /\ CodedOf("encrypt", e, e) = e
  BY DEF PlainOf, CodedOf
<1>4. Long(e, o)
  BY EmptyText
<1> HIDE DEF e, o
<1>5. Relates(mode, k, c, e, e)
  BY <1>2, <1>3 DEF Streamed
<1>6. BatchLane(multi, mode, k, v, e, e, c)
  BY <1>2, <1>4, <1>5 DEF BatchLane
<1> QED BY <1>6 DEF e

\* Batches that have just begun.
NewBatch(k, vs) ==
  [on |-> TRUE, key |-> k, ivs |-> vs, texts |-> [j \in 1 .. Len(vs) |-> <<>>],
   outs |-> [j \in 1 .. Len(vs) |-> <<>>]]

(* The invariant holds when batches begin.                                 *)
LEMMA BatchBegins ==
  ASSUME NEW kd \in {"cbc", "cfb"}, NEW o, o.multi \in BOOLEAN, DataOk(o), NEW k, o.key = k,
         NEW vs, Len(vs) \in 1 .. MaxBuffers, \A j \in 1 .. Len(vs) : o.ivs[j] = IvBlock(vs[j])
  PROVE  BatchInv(kd, o, NewBatch(k, vs))
<1> DEFINE bt == NewBatch(k, vs)
<1>1. /\ DOMAIN bt = {"on", "key", "ivs", "texts", "outs"}
      /\ bt.on = TRUE /\ bt.key = k /\ bt.ivs = vs
      /\ bt.texts = [j \in 1 .. Len(vs) |-> <<>>] /\ bt.outs = [j \in 1 .. Len(vs) |-> <<>>]
  BY DEF NewBatch
<1> HIDE DEF bt
<1>2. Len(vs) \in Nat /\ Len(vs) <= MaxBuffers
  BY BlockModesAssumption
<1>3. BatchShaped(bt)
  BY <1>1, <1>2 DEF BatchShaped, Long
<1>4. ASSUME NEW j \in 1 .. Len(vs)
      PROVE  BatchLane(o.multi, kd, k, vs[j], bt.texts[j], bt.outs[j], o.ivs[j])
  <2> DEFINE v == vs[j]
             multi == o.multi
  <2>1. multi \in BOOLEAN /\ o.ivs[j] = IvBlock(v) /\ bt.texts[j] = <<>> /\ bt.outs[j] = <<>>
    BY <1>1
  <2> HIDE DEF v, multi
  <2>2. BatchLane(multi, kd, k, v, <<>>, <<>>, IvBlock(v))
    BY <2>1, LaneFresh
  <2> QED BY <2>1, <2>2 DEF v, multi
<1> QED BY <1>1, <1>2, <1>3, <1>4 DEF BatchInv, BatchOk, bt

(* A multi-buffer init begins batches, or ends those there were.           *)
LEMMA BatchMultibuffer ==
  ASSUME SessionNow, BatchNow, NEW k, NEW vs, MultibufferCall(k, vs)
  PROVE  BatchNow'
<1> DEFINE r == MultibufferInit(obj, k, vs)
           o == r.obj
<1>1. /\ IsMulti /\ kind' = kind /\ obj' = o
      /\ mb' = IF r.err = "NONE" /\ k \in Keys THEN NewBatch(k, vs)
               ELSE IF o = obj THEN mb ELSE NoBatch
  BY Zenon DEF MultibufferCall, NewBatch
<1>2. kind \in {"cbc", "cfb"} /\ GenericShaped(obj) /\ BatchInv(kind, obj, mb)
  BY <1>1, SessionKinds DEF IsMulti, BatchNow
<1>3. MultibufferDone(obj, k, vs, r)
  <2> HIDE DEF r
  <2> QED BY <1>2, MultibufferInitIs DEF r
<1> HIDE DEF r
<1>4. o.data = obj.data /\ o.lens = obj.lens /\ GenericShaped(o)
  BY <1>3 DEF MultibufferDone
<1>5. CASE r.err = "NONE" /\ k \in Keys
  <2>1. /\ Len(vs) \in 1 .. MaxBuffers /\ o.key = k
        /\ \A j \in 1 .. Len(vs) : o.ivs[j] = IvBlock(vs[j])
    BY <1>3, <1>5, TakenKeys DEF MultibufferDone
  <2>2. DataOk(o) /\ o.multi \in BOOLEAN
    BY <1>2, <1>4 DEF BatchInv, DataOk, GenericShaped
  <2> HIDE DEF o
  <2>3. BatchInv(kind, o, NewBatch(k, vs))
    BY <1>2, <2>1, <2>2, BatchBegins
  <2> QED BY <1>1, <1>5, <2>3 DEF BatchNow
<1>6. CASE ~(r.err = "NONE" /\ k \in Keys)
  <2> HIDE DEF o
  <2>1. BatchInv(kind, o, NoBatch)
    BY <1>2, <1>4, BatchesEnd
  <2> QED BY <1>1, <1>2, <1>6, <2>1 DEF BatchNow
<1> QED BY <1>5, <1>6

\* The batches with one more.
Onto(multi, old, new) == [j \in DOMAIN old |-> IF multi THEN old[j] \o new[j] ELSE new[j]]

\* The batches with another.
NextBatch(multi, bt, data, outs) ==
  [bt EXCEPT !.texts = Onto(multi, @, data), !.outs = Onto(multi, @, outs)]

\* What each buffer has after another batch.
OntoIs(multi, old, new, n, both) ==
  /\ Long(both, n)
  /\ \A j \in 1 .. n : both[j] = IF multi THEN old[j] \o new[j] ELSE new[j]

(* Each buffer's texts are its own.                                        *)
LEMMA OntoDone ==
  ASSUME NEW multi, NEW old, NEW new, NEW n \in Nat, DOMAIN old = 1 .. n
  PROVE  OntoIs(multi, old, new, n, Onto(multi, old, new))
BY DEF OntoIs, Onto, Long

(* A dequeue after whole blocks, or of buffers done in one part, is one    *)
(* more batch.                                                             *)
LEMMA BatchGoesOn ==
  ASSUME NEW kd \in {"cbc", "cfb"}, NEW o, GenericShaped(o), NEW bt, BatchInv(kd, o, bt), bt.on,
         Len(o.data) = Len(bt.ivs), NEW a, a = "zen4" => Even(o, o.lens),
         o.multi => \A j \in 1 .. Len(bt.texts) : Remainder(bt.texts[j]) = <<>>,
         NEW r, r = Dequeue(o, a, kd, o.lens), r.err = "NONE"
  PROVE  BatchInv(kd, r.obj, NextBatch(o.multi, bt, o.data, r.out))
<1> DEFINE p == r.obj
           n == Len(bt.ivs)
           y == r.out
           multi == o.multi
           bt2 == NextBatch(multi, bt, o.data, y)
<1>1. /\ BatchShaped(bt) /\ DataOk(o) /\ o.key = bt.key /\ n <= MaxBuffers /\ n \in Nat
      /\ Len(o.lens) = n /\ Len(bt.texts) = n /\ multi \in BOOLEAN
      /\ \A j \in 1 .. n : BatchLane(multi, kd, o.key, bt.ivs[j], bt.texts[j], bt.outs[j], o.ivs[j])
      /\ Long(bt.texts, n) /\ Long(bt.outs, n)
  <2>1. BatchShaped(bt) /\ DataOk(o) /\ BatchOk(kd, o, bt)
    BY DEF BatchInv
  <2>2. n \in Nat /\ Long(bt.texts, n) /\ Long(bt.outs, n)
    BY <2>1 DEF BatchShaped
  <2>3. Len(bt.texts) = n
    BY <2>2, LongIsText
  <2> QED BY <2>1, <2>2, <2>3 DEF BatchOk, DataOk, GenericShaped
<1>2. Ready(o, kd, bt, o.lens)
  <2>1. ASSUME NEW j \in 1 .. n
        PROVE  (\E m : Long(bt.texts[j], m)) /\ (\E m : Long(bt.outs[j], m))
    BY <1>1 DEF BatchLane
  <2> QED BY <1>1, <2>1 DEF Ready, DataOk
<1>3. DequeueDone(o, kd, bt, o.lens, r)
  <2>1. \A j \in 1 .. Len(o.lens) :
          /\ BatchLane(o.multi, kd, o.key, bt.ivs[j], bt.texts[j], bt.outs[j], o.ivs[j])
          /\ o.multi => Remainder(bt.texts[j]) = <<>>
    BY <1>1
  <2> DEFINE lens == o.lens
  <2>2. /\ Ready(o, kd, bt, lens) /\ Len(lens) <= MaxBuffers /\ (a = "zen4" => Even(o, lens))
        /\ r = Dequeue(o, a, kd, lens)
    BY <1>1, <1>2
  <2> HIDE DEF lens
  <2> QED BY <2>1, <2>2, DequeueIs DEF lens
<1>4. DequeuedTo(o, p)
  <2> DEFINE lens == o.lens
  <2> HIDE DEF lens
  <2>1. DequeuedTo(o, Dequeue(o, a, kd, lens).obj)
    BY DequeueLeaves
  <2> QED BY <2>1 DEF lens
<1> HIDE DEF p, y
<1>5. /\ bt2.on = bt.on /\ bt2.key = bt.key /\ bt2.ivs = bt.ivs
      /\ bt2.texts = Onto(multi, bt.texts, o.data) /\ bt2.outs = Onto(multi, bt.outs, y)
      /\ DOMAIN bt2 = {"on", "key", "ivs", "texts", "outs"}
  BY <1>1 DEF NextBatch, BatchShaped
<1> HIDE DEF bt2
<1>6. DOMAIN bt.texts = 1 .. n /\ DOMAIN bt.outs = 1 .. n
  BY <1>1 DEF Long
<1>7. /\ Long(bt2.texts, n) /\ Long(bt2.outs, n)
      /\ \A j \in 1 .. n : /\ bt2.texts[j] = IF multi THEN bt.texts[j] \o o.data[j] ELSE o.data[j]
                           /\ bt2.outs[j] = IF multi THEN bt.outs[j] \o y[j] ELSE y[j]
  <2>1. OntoIs(multi, bt.texts, o.data, n, bt2.texts) /\ OntoIs(multi, bt.outs, y, n, bt2.outs)
    <3> DEFINE t == bt.texts
               u == bt.outs
               d == o.data
    <3>1. DOMAIN t = 1 .. n /\ DOMAIN u = 1 .. n /\ n \in Nat
      BY <1>1, <1>6
    <3> HIDE DEF t, u, d, multi, n
    <3>2. OntoIs(multi, t, d, n, Onto(multi, t, d)) /\ OntoIs(multi, u, y, n, Onto(multi, u, y))
      BY <3>1, OntoDone
    <3> QED BY <1>5, <3>2 DEF t, u, d
  <2> QED BY <2>1 DEF OntoIs
<1>8. ASSUME NEW j \in 1 .. n
      PROVE  BatchLane(multi, kd, o.key, bt.ivs[j], bt2.texts[j], bt2.outs[j], p.ivs[j])
  BY <1>1, <1>3, <1>7 DEF DequeueDone, LaneEnds, LaneEnd, p, y
<1>9. BatchShaped(bt2)
  BY <1>1, <1>5, <1>7 DEF BatchShaped
<1>10. DataOk(p) /\ p.key = o.key /\ p.multi = multi
  BY <1>1, <1>4 DEF DequeuedTo, SameStream, DataOk
<1>11. BatchOk(kd, p, bt2)
  BY <1>1, <1>5, <1>8, <1>10 DEF BatchOk
<1> QED BY <1>5, <1>9, <1>10, <1>11 DEF BatchInv, bt2, p, y

(* A dequeue preserves the invariant, proper or not.                       *)
LEMMA BatchDequeue ==
  ASSUME SessionNow, BatchNow, DequeueCall
  PROVE  BatchNow'
<1> DEFINE r == Dequeue(obj, arch, kind, obj.lens)
           goes_on == \A j \in 1 .. Len(mb.texts) : Remainder(mb.texts[j]) = <<>>
           proper == /\ mb.on /\ Len(obj.data) = Len(mb.ivs)
                     /\ IF Streams THEN goes_on ELSE InOnePart
<1>1. /\ IsMulti /\ kind' = kind /\ obj' = r.obj
      /\ mb' = IF r.err # "NONE" THEN mb
               ELSE IF ~proper THEN NoBatch
               ELSE NextBatch(Streams, mb, obj.data, r.out)
  BY Zenon DEF DequeueCall, NextBatch, Onto
<1>2. /\ kind \in {"cbc", "cfb"} /\ GenericShaped(obj) /\ BatchInv(kind, obj, mb)
      /\ obj.multi \in BOOLEAN /\ (Streams <=> obj.multi)
  BY <1>1, SessionKinds DEF IsMulti, BatchNow, Streams, GenericShaped
<1>3. DequeuedTo(obj, r.obj)
  <2> DEFINE lens == obj.lens
  <2> HIDE DEF lens
  <2>1. DequeuedTo(obj, Dequeue(obj, arch, kind, lens).obj)
    BY <1>2, DequeueLeaves
  <2> QED BY <2>1 DEF lens
<1>4. r.err # "NONE" => r.obj = obj
  BY DoneIs, WroteIs DEF Dequeue
<1> HIDE DEF r, proper
<1>5. CASE r.err # "NONE"
  BY <1>1, <1>2, <1>4, <1>5 DEF BatchNow
<1>6. CASE r.err = "NONE" /\ ~proper
  <2> DEFINE p == r.obj
  <2>1. p.data = obj.data /\ p.lens = obj.lens
    BY <1>3 DEF DequeuedTo
  <2> HIDE DEF p
  <2>2. BatchInv(kind, p, NoBatch)
    BY <1>2, <2>1, BatchesEnd
  <2> QED BY <1>1, <1>6, <2>2 DEF BatchNow, p
<1>7. CASE r.err = "NONE" /\ proper
  <2>1. mb.on /\ Len(obj.data) = Len(mb.ivs)
    BY <1>7 DEF proper
  <2>2. arch = "zen4" => Even(obj, obj.lens)
    <3> SUFFICES ASSUME arch = "zen4", ~obj.multi, NEW j \in 1 .. Len(obj.lens)
                 PROVE  obj.lens[j] = obj.lens[1] /\ obj.lens[j] = Block * (obj.lens[j] \div Block)
      BY DEF Even
    <3>1. obj.lens[j] = obj.lens[1] /\ obj.lens[j] % Block = 0
      BY <1>2, <1>7 DEF proper, InOnePart
    <3>2. obj.lens[j] \in Nat
      BY <1>2, RawIsLong DEF BatchInv, DataOk
    <3> DEFINE l == obj.lens[j]
    <3> HIDE DEF l
    <3>3. l \in Nat /\ l % Block = 0
      BY <3>1, <3>2 DEF l
    <3>4. l = Block * (l \div Block)
      BY <3>3, BlockIs
    <3> QED BY <3>1, <3>4 DEF l
  <2>3. obj.multi => \A j \in 1 .. Len(mb.texts) : Remainder(mb.texts[j]) = <<>>
    BY <1>2, <1>7 DEF proper
  <2>4. BatchInv(kind, r.obj, NextBatch(obj.multi, mb, obj.data, r.out))
    BY <1>2, <1>7, <2>1, <2>2, <2>3, BatchGoesOn DEF r
  <2>5. Streams = obj.multi
    BY <1>2 DEF Streams
  <2> QED BY <1>1, <1>7, <2>4, <2>5 DEF BatchNow
<1> QED BY <1>5, <1>6, <1>7

(* Segments have no batches.                                               *)
LEMMA BatchSegment ==
  ASSUME BatchNow, NEW x, NEW b, NEW dir, NEW drift, Segment(x, b, dir, drift)
  PROVE  BatchNow'
<1>1. kind = "segment" /\ kind' = kind /\ mb' = mb
  BY Zenon DEF Segment
<1>2. kind \notin {"cbc", "cfb"}
  BY <1>1
<1> QED BY <1>1, <1>2, OtherKinds DEF BatchNow

(* Every step of the handle preserves the invariant of the buffers.        *)
LEMMA BatchesGoOn ==
  ASSUME SessionNow, BatchNow, [CipherNext]_cipherVars
  PROVE  BatchNow'
<1>1. ASSUME NEW k \in Keys \cup {NoKey, BadKey}, NEW v, InitCall(k, v) PROVE BatchNow'
  BY <1>1, BatchInit
<1>2. CASE ContextCopy
  BY <1>2, BatchCopy
<1>3. ASSUME NEW k, NEW vs, MultibufferCall(k, vs) PROVE BatchNow'
  BY <1>3, BatchMultibuffer
<1>4. ASSUME NEW xs \in Batches, FlushCall(xs) PROVE BatchNow'
  BY <1>4, BatchFlush
<1>5. ASSUME NEW x, NEW b, NEW dir, NEW drift, Segment(x, b, dir, drift) PROVE BatchNow'
  BY <1>5, BatchSegment
<1>6. ASSUME NEW x, NEW dir, NEW drift, Crypt(x, dir, drift) PROVE BatchNow'
  BY <1>6, BatchCrypt
<1>7. CASE DequeueCall
  BY <1>7, BatchDequeue
<1>8. CASE UNCHANGED cipherVars
  BY <1>8 DEF cipherVars, BatchNow
<1>9. CASE CipherNext
  BY <1>1, <1>2, <1>3, <1>4, <1>5, <1>6, <1>7, <1>9, Zenon DEF CipherNext
<1> QED BY <1>8, <1>9

(* The invariant says of every buffer what the property asks.              *)
LEMMA BatchesShow ==
  ASSUME BatchNow
  PROVE  DequeueIsMode
<1> SUFFICES ASSUME mb.on, NEW j \in 1 .. Len(mb.texts)
             PROVE  /\ Len(mb.outs[j]) = Len(mb.texts[j])
                    /\ Relates(kind, mb.key, IvBlock(mb.ivs[j]), mb.texts[j], mb.outs[j])
  BY DEF DequeueIsMode
<1>1. BatchShaped(mb) /\ BatchOk(kind, obj, mb)
  BY DEF BatchNow, BatchInv
<1>2. Len(mb.texts) = Len(mb.ivs)
  BY <1>1, LongIsText DEF BatchShaped
<1>3. BatchLane(obj.multi, kind, mb.key, mb.ivs[j], mb.texts[j], mb.outs[j], obj.ivs[j])
  BY <1>1, <1>2 DEF BatchOk
<1>4. PICK m : /\ Long(mb.texts[j], m) /\ Long(mb.outs[j], m)
               /\ Relates(kind, mb.key, IvBlock(mb.ivs[j]), mb.texts[j], mb.outs[j])
  BY <1>3 DEF BatchLane
<1>5. Len(mb.texts[j]) = m /\ Len(mb.outs[j]) = m
  BY <1>4, LongIsText
<1> QED BY <1>4, <1>5

(* Every buffer of CBC and CFB enciphered side by side, of whatever        *)
(* lengths, in however many rounds and batches, becomes the mode's own     *)
(* text under its own IV, whatever is done with the single text in between *)
(* (aes_generic.cc:226-435).                                               *)
THEOREM BatchesAreTheModes == CipherSpec => []DequeueIsMode
<1>1. CipherInit => SessionNow /\ BatchNow
  BY SessionStarts, BatchesStart
<1>2. SessionNow /\ BatchNow /\ [CipherNext]_cipherVars => SessionNow' /\ BatchNow'
  BY SessionGoesOn, BatchesGoOn
<1>3. BatchNow => DequeueIsMode
  BY BatchesShow
<1> QED BY <1>1, <1>2, <1>3, PTL DEF CipherSpec
=============================================================================
