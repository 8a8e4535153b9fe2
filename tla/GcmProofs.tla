------------------------------ MODULE GcmProofs ------------------------------
(***************************************************************************)
(* What holds of every AES-GCM session, for every block size, any sets of  *)
(* keys, IVs and tag lengths and any bounds.                               *)
(***************************************************************************)
EXTENDS Gcm, SequenceTheorems, TLAPS

(* The state tells which of key and IV the session has.                    *)
StateKnows ==
  /\ key # NoKey <=> state \in {"KeySet", "Ready"}
  /\ iv # NoIv <=> state \in {"IvSet", "Ready"}

\* p is what f has after its first o bytes.
IsRest(f, o, p) ==
  /\ Len(f) = o + Len(p)
  /\ \A i \in 1 .. Len(p) : p[i] = f[o + i]

(* How far the counter is, and which bytes still wait for their block.     *)
Position ==
  regular =>
    /\ dataLen = Len(fed)
    /\ ctr = Len(fed) \div Block
    /\ multi /\ tagReg = <<>> => IsRest(fed, Block * ctr, partial)

IInv == TypeOK /\ StateKnows /\ ReadyMeansKeyed /\ Position /\ TextIsCtr

\* TypeOK in two parts, for two provers.
TypeFlags == multi \in BOOLEAN /\ aadDone \in BOOLEAN /\ isEncrypt \in BOOLEAN

TypeRest ==
  /\ state \in {"Uninitialized", "KeySet", "IvSet", "Ready"}
  /\ key \in Keys \cup {NoKey}
  /\ iv \in Ivs \cup {NoIv}
  /\ start \in Starts
  /\ ctr \in Nat
  /\ ghash \in Seq(Seq(HashByte))
  /\ tagReg \in Seq(Seq(Seq(HashByte)))
  /\ dataLen \in Nat
  /\ addLen \in Nat
  /\ aadBuf \in Seq(Nat)
  /\ partial \in Seq(Nat)
  /\ tagLength \in 4 .. 16
  /\ aad \in Seq(Nat)
  /\ fed \in Seq(Nat)
  /\ got \in Seq(TextByte)
  /\ dir \in {"none", "encrypt", "decrypt"}
  /\ breaks \in 0 .. MaxBreaks

(* The two parts are the whole.                                            *)
LEMMA TypeParts == TypeOK <=> TypeFlags /\ TypeRest
BY Zenon DEF TypeOK, TypeFlags, TypeRest

-----------------------------------------------------------------------------
(* Blocks and sequences.                                                   *)

(* Division with remainder, as the C++ operators / and % compute it on     *)
(* unsigned operands.                                                      *)
LEMMA DivMod ==
  ASSUME NEW B \in Nat \ {0}, NEW n \in Nat
  PROVE  /\ n \div B \in Nat
         /\ n % B \in 0 .. (B - 1)
         /\ n = B * (n \div B) + (n % B)
BY SMT

(* A remainder is determined by any representation q*B + r of the number.  *)
LEMMA ModUnique ==
  ASSUME NEW B \in Nat \ {0}, NEW q \in Nat, NEW r \in 0 .. (B - 1)
  PROVE  (B * q + r) % B = r
BY SMT

(* Cutting a sequence in two gives two sequences of the expected lengths.  *)
LEMMA CutBounds ==
  ASSUME NEW S, NEW d \in Seq(S), NEW n \in 0 .. Len(d)
  PROVE  /\ SubSeq(d, 1, n) \in Seq(S)
         /\ Len(SubSeq(d, 1, n)) = n
         /\ SubSeq(d, n + 1, Len(d)) \in Seq(S)
         /\ Len(SubSeq(d, n + 1, Len(d))) = Len(d) - n
<1>1. \A i \in 1 .. Len(d) : d[i] \in S
  BY ElementOfSeq
<1>2. Len(d) \in Nat
  BY LenProperties
<1>3. SubSeq(d, 1, n) \in Seq(S) /\ Len(SubSeq(d, 1, n)) = n
  BY <1>1, <1>2, SubSeqProperties
<1>4. /\ SubSeq(d, n + 1, Len(d)) \in Seq(S)
      /\ Len(SubSeq(d, n + 1, Len(d))) = Len(d) - n
  BY <1>1, <1>2, SubSeqProperties
<1>5. QED
  BY <1>3, <1>4

(* The two parts, put together again, are the whole.                       *)
LEMMA CutAndJoin ==
  ASSUME NEW S, NEW d \in Seq(S), NEW n \in 0 .. Len(d)
  PROVE  SubSeq(d, 1, n) \o SubSeq(d, n + 1, Len(d)) = d
<1>1. Len(d) \in Nat
  BY LenProperties
<1>2. 1 \in 1 .. Len(d) + 1 /\ n \in 1 - 1 .. Len(d) /\ Len(d) \in n .. Len(d)
  BY <1>1
<1>3. SubSeq(d, 1, n) \o SubSeq(d, n + 1, Len(d)) = SubSeq(d, 1, Len(d))
  BY <1>2, ConcatAdjacentSubSeq
<1>4. QED
  BY <1>3, SubSeqFull

(* Concatenation of sequences of bytes is associative: the library's fact  *)
(* for the one set the proofs need it for.                                 *)
LEMMA ConcatBytes ==
  \A s, t, u \in Seq(Nat) : (s \o t) \o u = s \o (t \o u)
<1> DEFINE S == Nat
<1>1. SUFFICES ASSUME NEW s \in Seq(S), NEW t \in Seq(S), NEW u \in Seq(S)
               PROVE  (s \o t) \o u = s \o (t \o u)
  OBVIOUS
<1> HIDE DEF S
<1>2. QED
  BY ConcatAssociative

-----------------------------------------------------------------------------
(* Symbolic bytes.                                                         *)

(* A function on 1 .. n is a sequence of length n.                         *)
LEMMA FunctionIsSeq ==
  ASSUME NEW S, NEW n \in Nat, NEW f \in [1 .. n -> S]
  PROVE  f \in Seq(S) /\ Len(f) = n
<1>1. f \in Seq(S)
  BY SMT
<1>2. DOMAIN f = 1 .. n
  OBVIOUS
<1>3. QED
  BY <1>1, <1>2, LenProperties

(* The bytes of a text are bytes GHASH may be given.                       *)
LEMMA TextIsHashable == Seq(TextByte) \subseteq Seq(HashByte)
<1>1. TextByte \subseteq HashByte
  BY DEF TextByte, HashByte
<1>2. QED
  BY <1>1

(* Bytes taken as they are.                                                *)
LEMMA RawType ==
  ASSUME NEW m \in Seq(Nat)
  PROVE  Raw(m) \in Seq(HashByte)
<1>1. Len(m) \in Nat /\ \A i \in 1 .. Len(m) : m[i] \in Nat
  BY ElementOfSeq, LenProperties
<1>2. \A i \in 1 .. Len(m) : [ks |-> <<>>, b |-> m[i]] \in HashByte
  BY <1>1 DEF HashByte
<1>3. Raw(m) \in [1 .. Len(m) -> HashByte]
  BY <1>2 DEF Raw
<1>4. QED
  BY <1>1, <1>3, FunctionIsSeq

(* Masking keeps the length and gives bytes of text.                       *)
LEMMA MaskedType ==
  ASSUME NEW k \in Keys \cup {NoKey}, NEW s \in Starts, NEW c \in Nat,
         NEW m \in Seq(Nat)
  PROVE  /\ Masked(k, s, c, m) \in Seq(TextByte)
         /\ Len(Masked(k, s, c, m)) = Len(m)
<1>1. Len(m) \in Nat /\ \A i \in 1 .. Len(m) : m[i] \in Nat
  BY ElementOfSeq, LenProperties
<1>2. ASSUME NEW i \in 1 .. Len(m)
      PROVE  [ks |-> <<k, s, c + (i - 1) \div Block, (i - 1) % Block>>, b |-> m[i]]
               \in TextByte
  <2>1. i - 1 \in Nat
    BY <1>1
  <2> DEFINE q == (i - 1) \div Block
             r == (i - 1) % Block
  <2>2. Block \in Nat \ {0}
    BY GcmAssumption
  <2>3. q \in Nat /\ r \in 0 .. (Block - 1)
    BY <2>1, <2>2, DivMod
  <2> HIDE DEF q, r
  <2>4. c + q \in Nat /\ r \in Nat
    BY <2>2, <2>3
  <2>5. <<k, s, c + q, r>> \in Stream
    BY <2>4 DEF Stream
  <2>6. [ks |-> <<k, s, c + q, r>>, b |-> m[i]] \in TextByte
    BY <1>1, <2>5 DEF TextByte
  <2>7. QED
    BY <2>6 DEF q, r
<1>3. Masked(k, s, c, m) \in [1 .. Len(m) -> TextByte]
  BY <1>2 DEF Masked
<1>4. QED
  BY <1>1, <1>3, FunctionIsSeq

(* Filling up the last block gives whole blocks.                           *)
LEMMA PaddedType ==
  ASSUME NEW m \in Seq(HashByte)
  PROVE  Padded(m) \in Seq(Seq(HashByte))
<1>1. Len(m) \in Nat /\ \A i \in 1 .. Len(m) : m[i] \in HashByte
  BY ElementOfSeq, LenProperties
<1>2. Len(m) + Block - 1 \in Nat
  BY <1>1, GcmAssumption
<1>3. (Len(m) + Block - 1) \div Block \in Nat
  <2>1. Block \in Nat \ {0}
    BY GcmAssumption
  <2>2. QED
    BY <1>2, <2>1, DivMod
<1>4. Zero \in HashByte
  BY DEF Zero, HashByte
<1>5. ASSUME NEW j \in 1 .. (Len(m) + Block - 1) \div Block
      PROVE  [i \in 1 .. Block |->
                IF (j - 1) * Block + i <= Len(m) THEN m[(j - 1) * Block + i] ELSE Zero]
               \in Seq(HashByte)
  <2>1. ASSUME NEW i \in 1 .. Block
        PROVE  (IF (j - 1) * Block + i <= Len(m) THEN m[(j - 1) * Block + i] ELSE Zero)
                 \in HashByte
    <3>1. j - 1 \in Nat /\ Block \in Nat /\ i \in Nat \ {0}
      BY <1>3, GcmAssumption
    <3>2. (j - 1) * Block \in Nat
      BY <3>1
    <3>3. (j - 1) * Block + i \in Nat \ {0}
      BY <3>1, <3>2
    <3>4. QED
      BY <1>1, <1>4, <3>3
  <2>2. [i \in 1 .. Block |->
           IF (j - 1) * Block + i <= Len(m) THEN m[(j - 1) * Block + i] ELSE Zero]
          \in [1 .. Block -> HashByte]
    BY <2>1
  <2>3. QED
    BY <2>2, FunctionIsSeq, GcmAssumption
<1> DEFINE n == (Len(m) + Block - 1) \div Block
<1>6. Padded(m) \in [1 .. n -> Seq(HashByte)]
  BY <1>5 DEF Padded
<1>7. QED
  BY <1>3, <1>6, FunctionIsSeq

(* What a kernel call hashes.                                              *)
LEMMA HashedType ==
  ASSUME TypeOK, NEW enc \in BOOLEAN, NEW c \in Nat, NEW m \in Seq(Nat)
  PROVE  Hashed(enc, c, m) \in Seq(Seq(HashByte))
<1>1. Masked(key, start, c, m) \in Seq(HashByte)
  BY MaskedType, TextIsHashable DEF TypeOK
<1>2. CASE enc
  BY <1>1, <1>2, PaddedType DEF Hashed
<1>3. CASE ~enc
  BY <1>3, RawType, PaddedType DEF Hashed
<1>4. QED
  BY <1>2, <1>3

(* Absorbing keeps GHASH a sequence of blocks.                             *)
LEMMA AbsorbType ==
  ASSUME NEW g \in Seq(Seq(HashByte)), NEW blocks \in Seq(Seq(HashByte))
  PROVE  Absorb(g, blocks) \in Seq(Seq(HashByte))
BY DEF Absorb

(* So does hashing the buffered additional data.                           *)
LEMMA WithAadType ==
  ASSUME TypeOK
  PROVE  WithAad \in Seq(Seq(HashByte))
<1>1. Padded(Raw(aadBuf)) \in Seq(Seq(HashByte))
  BY RawType, PaddedType DEF TypeOK
<1>2. QED
  BY <1>1, AbsorbType DEF WithAad, TypeOK

(* And so do the last block and the lengths.                               *)
LEMMA ClosedType ==
  ASSUME TypeOK
  PROVE  Closed \in Seq(Seq(HashByte))
<1>1. Hashed(isEncrypt, ctr, partial) \in Seq(Seq(HashByte))
  BY HashedType DEF TypeOK
<1>2. ghash \in Seq(Seq(HashByte))
  BY DEF TypeOK
<1>3. Flushed \in Seq(Seq(HashByte))
  BY <1>1, <1>2, WithAadType, AbsorbType DEF Flushed
<1>4. LengthBlock(addLen, dataLen) \in Seq(HashByte)
  <2>1. /\ [ks |-> <<"length">>, b |-> addLen] \in HashByte
        /\ [ks |-> <<"length">>, b |-> dataLen] \in HashByte
    BY DEF TypeOK, HashByte
  <2>2. QED
    BY <2>1 DEF LengthBlock
<1>5. <<LengthBlock(addLen, dataLen)>> \in Seq(Seq(HashByte))
  BY <1>4
<1>6. QED
  BY <1>3, <1>5, AbsorbType DEF Closed

-----------------------------------------------------------------------------
(* Counter mode from call to call.                                         *)

(* c whole blocks further on.                                              *)
LEMMA DivAddBlocks ==
  ASSUME NEW B \in Nat \ {0}, NEW c \in Nat, NEW n \in Nat
  PROVE  /\ (B * c + n) \div B = c + (n \div B)
         /\ (B * c + n) % B = n % B
<1> DEFINE q == n \div B
           r == n % B
<1>1. q \in Nat /\ r \in 0 .. (B - 1) /\ n = B * q + r
  BY DivMod
<1> HIDE DEF q, r
<1>2. B * c + n = B * (c + q) + r /\ c + q \in Nat
  BY <1>1
<1>3. (B * (c + q) + r) % B = r
  BY <1>1, <1>2, ModUnique
<1>4. B * (c + q) + r \in Nat
  BY <1>1, <1>2
<1>5. B * (c + q) + r = B * ((B * (c + q) + r) \div B) + r
      /\ (B * (c + q) + r) \div B \in Nat
  BY <1>3, <1>4, DivMod
<1>6. (B * (c + q) + r) \div B = c + q
  <2> DEFINE d == (B * (c + q) + r) \div B
  <2>1. d \in Nat /\ B * (c + q) + r = B * d + r
    BY <1>5
  <2> HIDE DEF d
  <2>2. B * (c + q) = B * d
    BY <1>1, <1>2, <2>1
  <2>3. c + q = d
    BY <1>2, <2>1, <2>2, SMT
  <2>4. QED
    BY <2>3 DEF d
<1>7. QED
  BY <1>2, <1>3, <1>6 DEF q, r

\* p is as long as what f has after its c-th block.
Behind(f, c, p) == Len(f) = Block * c + Len(p)

\* What a call writes that masks p and m from block c on continues f's.
Continues(k, s, c, f, p, m) ==
  Masked(k, s, 0, f)
    \o SubSeq(Masked(k, s, c, p \o m), Len(p) + 1, Len(p \o m))
  = Masked(k, s, 0, f \o m)

\* What p and m leave behind w bytes is what f and m leave behind o + w.
SameRest(f, p, m, o, w) ==
  SubSeq(p \o m, w + 1, Len(p \o m)) = SubSeq(f \o m, (o + w) + 1, Len(f \o m))

(***************************************************************************)
(* If Len(p) bytes of f lie behind its c-th block, a call that masks p and *)
(* m from block c on and returns what follows p continues the counter mode *)
(* encryption of f with that of m.                                         *)
(***************************************************************************)
LEMMA CtrContinues ==
  ASSUME NEW k \in Keys \cup {NoKey}, NEW s \in Starts, NEW c \in Nat,
         NEW f \in Seq(Nat), NEW p \in Seq(Nat), NEW m \in Seq(Nat),
         Behind(f, c, p)
  PROVE  Continues(k, s, c, f, p, m)
<1> DEFINE old == Masked(k, s, 0, f)
           out == Masked(k, s, c, p \o m)
           tail == SubSeq(out, Len(p) + 1, Len(p \o m))
           new == Masked(k, s, 0, f \o m)
<1>1. /\ Len(f) \in Nat /\ Len(p) \in Nat /\ Len(m) \in Nat
      /\ Block \in Nat \ {0} /\ Block * c \in Nat
  BY LenProperties, GcmAssumption
<1>2. /\ p \o m \in Seq(Nat) /\ Len(p \o m) = Len(p) + Len(m)
      /\ f \o m \in Seq(Nat) /\ Len(f \o m) = Len(f) + Len(m)
  BY ConcatProperties
<1>3. /\ \A i \in 1 .. Len(p) + Len(m) :
           (p \o m)[i] = IF i <= Len(p) THEN p[i] ELSE m[i - Len(p)]
      /\ \A i \in 1 .. Len(f) + Len(m) :
           (f \o m)[i] = IF i <= Len(f) THEN f[i] ELSE m[i - Len(f)]
  BY ConcatProperties
<1>4. /\ old \in Seq(TextByte) /\ Len(old) = Len(f)
      /\ out \in Seq(TextByte) /\ Len(out) = Len(p) + Len(m)
      /\ new \in Seq(TextByte) /\ Len(new) = Len(f) + Len(m)
  <2>1. old \in Seq(TextByte) /\ Len(old) = Len(f)
    BY MaskedType, 0 \in Nat
  <2>2. out \in Seq(TextByte) /\ Len(out) = Len(p) + Len(m)
    <3> DEFINE q == p \o m
    <3>1. q \in Seq(Nat) /\ Len(q) = Len(p) + Len(m)
      BY <1>2
    <3> HIDE DEF q
    <3>2. Masked(k, s, c, q) \in Seq(TextByte) /\ Len(Masked(k, s, c, q)) = Len(q)
      BY <3>1, MaskedType
    <3>3. QED
      BY <3>1, <3>2 DEF q
  <2>3. new \in Seq(TextByte) /\ Len(new) = Len(f) + Len(m)
    <3> DEFINE q == f \o m
               z == 0
    <3>1. q \in Seq(Nat) /\ Len(q) = Len(f) + Len(m) /\ z \in Nat
      BY <1>2
    <3> HIDE DEF q, z
    <3>2. Masked(k, s, z, q) \in Seq(TextByte) /\ Len(Masked(k, s, z, q)) = Len(q)
      BY <3>1, MaskedType
    <3>3. QED
      BY <3>1, <3>2 DEF q, z
  <2>4. QED
    BY <2>1, <2>2, <2>3
<1>5. \A i \in 1 .. Len(f) :
         old[i] = [ks |-> <<k, s, 0 + (i - 1) \div Block, (i - 1) % Block>>, b |-> f[i]]
  BY DEF Masked
<1>7. \A i \in 1 .. Len(p) + Len(m) :
         out[i] = [ks |-> <<k, s, c + (i - 1) \div Block, (i - 1) % Block>>,
                   b |-> (p \o m)[i]]
  BY <1>2 DEF Masked
<1>6. \A i \in 1 .. Len(f) + Len(m) :
         new[i] = [ks |-> <<k, s, 0 + (i - 1) \div Block, (i - 1) % Block>>,
                   b |-> (f \o m)[i]]
  BY <1>2 DEF Masked
<1> HIDE DEF old, out, new
<1>8. /\ tail \in Seq(TextByte) /\ Len(tail) = Len(m)
      /\ \A i \in 1 .. Len(m) : tail[i] = out[Len(p) + i]
  <2> DEFINE from == Len(p) + 1
             to == Len(p) + Len(m)
  <2>1. /\ from \in 1 .. Len(out) + 1 /\ to \in from - 1 .. Len(out)
        /\ from <= to + 1 /\ to - from + 1 = Len(m)
        /\ \A i \in 1 .. Len(m) : from + i - 1 = Len(p) + i
    BY <1>1, <1>4
  <2>2. tail = SubSeq(out, from, to)
    BY <1>2
  <2> HIDE DEF from, to, tail
  <2>3. /\ SubSeq(out, from, to) \in Seq(TextByte)
        /\ Len(SubSeq(out, from, to)) = to - from + 1
        /\ \A i \in 1 .. to - from + 1 : SubSeq(out, from, to)[i] = out[from + i - 1]
    <3>1. from \in Int /\ to \in Int /\ \A i \in from .. to : i \in 1 .. Len(out)
      BY <1>1, <1>4, <2>1
    <3>2. \A i \in 1 .. Len(out) : out[i] \in TextByte
      BY <1>4, ElementOfSeq
    <3>3. \A i \in from .. to : out[i] \in TextByte
      BY ONLY <3>1, <3>2
    <3>4. /\ SubSeq(out, from, to) \in Seq(TextByte)
          /\ Len(SubSeq(out, from, to)) = IF from <= to THEN to - from + 1 ELSE 0
          /\ \A i \in 1 .. to - from + 1 : SubSeq(out, from, to)[i] = out[from + i - 1]
      BY ONLY <3>1, <3>3, SubSeqProperties
    <3>5. (IF from <= to THEN to - from + 1 ELSE 0) = to - from + 1
      BY <2>1, <3>1
    <3>6. QED
      BY <3>4, <3>5
  <2>4. QED
    BY <2>1, <2>2, <2>3
<1> HIDE DEF tail
<1>9. /\ old \o tail \in Seq(TextByte) /\ Len(old \o tail) = Len(f) + Len(m)
      /\ \A i \in 1 .. Len(f) + Len(m) :
           (old \o tail)[i] = IF i <= Len(f) THEN old[i] ELSE tail[i - Len(f)]
  <2>1. old \in Seq(TextByte) /\ tail \in Seq(TextByte)
    BY <1>4, <1>8
  <2>2. /\ old \o tail \in Seq(TextByte)
        /\ Len(old \o tail) = Len(old) + Len(tail)
        /\ \A i \in 1 .. Len(old) + Len(tail) :
             (old \o tail)[i] = IF i <= Len(old) THEN old[i] ELSE tail[i - Len(old)]
    BY <2>1, ConcatProperties
  <2>3. QED
    BY <1>4, <1>8, <2>2
<1>10. ASSUME NEW i \in 1 .. Len(f) + Len(m)
      PROVE  (old \o tail)[i] = new[i]
  <2>1. CASE i <= Len(f)
    <3>1. i \in 1 .. Len(f)
      BY <1>1, <2>1
    <3>2. (old \o tail)[i] = old[i] /\ (f \o m)[i] = f[i]
      BY <1>3, <1>9, <2>1
    <3>3. QED
      BY <1>5, <1>6, <3>1, <3>2
  <2>2. CASE i > Len(f)
    <3> DEFINE j == i - Len(f)
               n == (Len(p) + j) - 1
    <3>1. j \in 1 .. Len(m) /\ n \in Nat /\ Len(p) + j \in 1 .. Len(p) + Len(m)
      BY <1>1, <2>2
    <3>2. i - 1 = Block * c + n
      BY <1>1, <2>2 DEF Behind
    <3> HIDE DEF n
    <3>3. (i - 1) \div Block = c + (n \div Block) /\ (i - 1) % Block = n % Block
      <4>1. /\ (Block * c + n) \div Block = c + (n \div Block)
            /\ (Block * c + n) % Block = n % Block
        BY <1>1, <3>1, DivAddBlocks
      <4>2. QED
        BY <3>2, <4>1, Zenon
    <3>4. (i - 1) \div Block \in Nat
      <4>1. i - 1 \in Nat
        BY <1>1, <2>2
      <4>2. QED
        BY <1>1, <4>1, DivMod, Zenon
    <3>5. (old \o tail)[i] = tail[j] /\ tail[j] = out[Len(p) + j]
      BY <1>1, <1>8, <1>9, <2>2, <3>1
    <3>6. out[Len(p) + j] = [ks |-> <<k, s, c + (n \div Block), n % Block>>,
                             b |-> (p \o m)[Len(p) + j]]
      BY <1>7, <3>1 DEF n
    <3>7. (p \o m)[Len(p) + j] = m[j] /\ (f \o m)[i] = m[j]
      <4>1. /\ ~(Len(p) + j <= Len(p)) /\ (Len(p) + j) - Len(p) = j
            /\ ~(i <= Len(f))
        BY <1>1, <2>2, <3>1
      <4>2. (f \o m)[i] = m[j]
        BY <1>3, <4>1
      <4> HIDE DEF j
      <4>3. (p \o m)[Len(p) + j] = m[j]
        BY <1>3, <3>1, <4>1
      <4>4. QED
        BY <4>2, <4>3
    <3>8. 0 + (i - 1) \div Block = (i - 1) \div Block
      BY <3>4
    <3>9. new[i] = [ks |-> <<k, s, (i - 1) \div Block, (i - 1) % Block>>, b |-> m[j]]
      BY <1>6, <3>7, <3>8
    <3>10. QED
      BY <3>3, <3>5, <3>6, <3>7, <3>9
  <2>3. i <= Len(f) \/ i > Len(f)
    BY <1>1
  <2>4. QED
    BY <2>1, <2>2, <2>3
<1>11. old \o tail = new
  BY <1>4, <1>9, <1>10, SeqEqual
<1>12. QED
  BY <1>11 DEF Continues, old, tail, out, new

(* The same when no byte lies behind the last whole block.                 *)
LEMMA CtrContinuesAtBoundary ==
  ASSUME NEW k \in Keys \cup {NoKey}, NEW s \in Starts, NEW c \in Nat,
         NEW f \in Seq(Nat), NEW m \in Seq(Nat), Behind(f, c, <<>>)
  PROVE  Masked(k, s, 0, f) \o Masked(k, s, c, m) = Masked(k, s, 0, f \o m)
<1> DEFINE out == Masked(k, s, c, m)
           p == <<>>
<1>1. out \in Seq(TextByte) /\ Len(out) = Len(m)
  BY MaskedType
<1>2. SubSeq(out, 1, Len(m)) = out
  <2> HIDE DEF out
  <2>1. QED
    BY <1>1, SubSeqFull
<1>3. p \o m = m /\ Len(p) + 1 = 1
  BY ConcatEmptySeq
<1>4. p \in Seq(Nat) /\ Behind(f, c, p)
  OBVIOUS
<1> HIDE DEF p
<1>5. Masked(k, s, 0, f)
        \o SubSeq(Masked(k, s, c, p \o m), Len(p) + 1, Len(p \o m))
      = Masked(k, s, 0, f \o m)
  <2>1. Continues(k, s, c, f, p, m)
    BY <1>4, CtrContinues
  <2>2. QED
    BY <2>1, Zenon DEF Continues
<1>6. QED
  BY <1>2, <1>3, <1>5, Zenon

(* Cutting off the front leaves the rest.                                  *)
LEMMA RestOf ==
  ASSUME NEW f \in Seq(Nat), NEW o \in 0 .. Len(f)
  PROVE  /\ SubSeq(f, o + 1, Len(f)) \in Seq(Nat)
         /\ IsRest(f, o, SubSeq(f, o + 1, Len(f)))
<1>1. Len(f) \in Nat /\ o \in Nat
  BY LenProperties
<1> DEFINE p == SubSeq(f, o + 1, Len(f))
<1>2. \A i \in o + 1 .. Len(f) : f[i] \in Nat
  BY <1>1, ElementOfSeq
<1>3. o + 1 \in Int /\ Len(f) \in Int
  BY <1>1
<1>4. /\ p \in Seq(Nat)
      /\ Len(p) = IF o + 1 <= Len(f) THEN Len(f) - (o + 1) + 1 ELSE 0
      /\ \A i \in 1 .. Len(f) - (o + 1) + 1 : p[i] = f[(o + 1) + i - 1]
  BY <1>2, <1>3, SubSeqProperties
<1> HIDE DEF p
<1>5. Len(p) = Len(f) - o /\ Len(f) = o + Len(p)
  BY <1>1, <1>4
<1>6. ASSUME NEW i \in 1 .. Len(p)
      PROVE  p[i] = f[o + i]
  <2>1. i \in 1 .. Len(f) - (o + 1) + 1 /\ (o + 1) + i - 1 = o + i
    BY <1>1, <1>5
  <2>2. QED
    BY <1>4, <2>1
<1>7. QED
  BY <1>4, <1>5, <1>6 DEF p, IsRest

(***************************************************************************)
(* What remains of p and m once w bytes of them are processed is what      *)
(* remains of f and m, if p is what f has after o bytes.                   *)
(***************************************************************************)
LEMMA RestContinues ==
  ASSUME NEW f \in Seq(Nat), NEW m \in Seq(Nat), NEW o \in Nat,
         NEW p \in Seq(Nat), IsRest(f, o, p), NEW w \in Nat, w <= Len(p \o m)
  PROVE  SameRest(f, p, m, o, w)
<1> DEFINE l == Len(p)
<1>1. Len(f) \in Nat /\ Len(m) \in Nat
  BY LenProperties
<1>2. /\ l \in Nat /\ Len(f) = o + l
      /\ \A i \in 1 .. l : p[i] = f[o + i]
  BY LenProperties DEF IsRest
<1>3. /\ p \o m \in Seq(Nat) /\ Len(p \o m) = l + Len(m)
      /\ \A i \in 1 .. l + Len(m) :
           (p \o m)[i] = IF i <= l THEN p[i] ELSE m[i - l]
  BY ConcatProperties
<1> HIDE DEF l
<1>4. /\ f \o m \in Seq(Nat) /\ Len(f \o m) = Len(f) + Len(m)
      /\ \A i \in 1 .. Len(f) + Len(m) :
           (f \o m)[i] = IF i <= Len(f) THEN f[i] ELSE m[i - Len(f)]
  BY ConcatProperties
<1>5. ASSUME NEW i \in 1 .. l + Len(m)
      PROVE  (p \o m)[i] = (f \o m)[o + i]
  <2>1. o + i \in 1 .. Len(f) + Len(m)
    BY <1>1, <1>2
  <2>2. CASE i <= l
    <3>1. o + i <= Len(f) /\ i \in 1 .. l
      BY <1>1, <1>2, <2>2
    <3>2. (f \o m)[o + i] = f[o + i]
      BY <1>4, <2>1, <3>1
    <3>3. (p \o m)[i] = p[i] /\ p[i] = f[o + i]
      BY <1>2, <1>3, <2>2, <3>1
    <3>4. QED
      BY <3>2, <3>3
  <2>3. CASE ~(i <= l)
    <3>2. ~(o + i <= Len(f)) /\ i - l = (o + i) - Len(f)
      BY <1>1, <1>2, <2>3
    <3>3. QED
      BY <1>3, <1>4, <2>1, <2>3, <3>2
  <2>4. QED
    BY <2>2, <2>3
<1> DEFINE s == p \o m
           t == f \o m
           n == l + Len(m)
<1>6. /\ s \in Seq(Nat) /\ Len(s) = n /\ t \in Seq(Nat) /\ Len(t) = o + n
      /\ n \in Nat /\ w \in 0 .. n
      /\ \A i \in 1 .. n : s[i] = t[o + i]
  <2>1. s \in Seq(Nat) /\ Len(s) = n /\ t \in Seq(Nat)
    BY <1>3, <1>4
  <2>2. Len(f) + Len(m) = o + (l + Len(m)) /\ n \in Nat
    BY <1>1, <1>2
  <2>3. Len(t) = o + n
    BY <1>4, <2>2
  <2>4. w \in 0 .. n
    BY <1>3
  <2>5. QED
    BY <1>5, <2>1, <2>2, <2>3, <2>4
<1> HIDE DEF s, t, n
<1> DEFINE a == SubSeq(s, w + 1, n)
           b == SubSeq(t, (o + w) + 1, o + n)
<1>7. /\ a \in Seq(Nat) /\ Len(a) = n - w
      /\ \A i \in 1 .. n - w : a[i] = s[w + i]
  <2>1. /\ \A i \in w + 1 .. n : s[i] \in Nat
        /\ w + 1 \in Int /\ n \in Int
    <3>1. w + 1 \in Int /\ n \in Int /\ \A i \in w + 1 .. n : i \in 1 .. n
      BY <1>6
    <3>2. s \in Seq(Nat) /\ Len(s) = n
      BY <1>6
    <3>3. \A i \in 1 .. n : s[i] \in Nat
      BY ONLY <3>2, ElementOfSeq
    <3>4. QED
      BY ONLY <3>1, <3>3
  <2>2. /\ a \in Seq(Nat)
        /\ Len(a) = IF w + 1 <= n THEN n - (w + 1) + 1 ELSE 0
        /\ \A i \in 1 .. n - (w + 1) + 1 : a[i] = s[(w + 1) + i - 1]
    BY <2>1, SubSeqProperties
  <2> HIDE DEF a
  <2>3. Len(a) = n - w
    BY <1>6, <2>2
  <2>4. ASSUME NEW i \in 1 .. n - w
        PROVE  a[i] = s[w + i]
    <3>1. i \in 1 .. n - (w + 1) + 1 /\ (w + 1) + i - 1 = w + i
      BY <1>6
    <3>2. QED
      BY <2>2, <3>1
  <2>5. QED
    BY <2>2, <2>3, <2>4
<1>8. /\ b \in Seq(Nat) /\ Len(b) = n - w
      /\ \A i \in 1 .. n - w : b[i] = t[o + (w + i)]
  <2>1. /\ \A i \in (o + w) + 1 .. o + n : t[i] \in Nat
        /\ (o + w) + 1 \in Int /\ o + n \in Int
    BY <1>1, <1>6, ElementOfSeq
  <2>2. /\ b \in Seq(Nat)
        /\ Len(b) = IF (o + w) + 1 <= o + n THEN (o + n) - ((o + w) + 1) + 1 ELSE 0
        /\ \A i \in 1 .. (o + n) - ((o + w) + 1) + 1 :
             b[i] = t[((o + w) + 1) + i - 1]
    BY <2>1, SubSeqProperties
  <2> HIDE DEF b
  <2>3. Len(b) = n - w
    BY <1>1, <1>6, <2>2
  <2>4. ASSUME NEW i \in 1 .. n - w
        PROVE  b[i] = t[o + (w + i)]
    <3>1. /\ i \in 1 .. (o + n) - ((o + w) + 1) + 1
          /\ ((o + w) + 1) + i - 1 = o + (w + i)
      BY <1>1, <1>6
    <3>2. QED
      BY <2>2, <3>1
  <2>5. QED
    BY <2>2, <2>3, <2>4
<1> HIDE DEF a, b
<1>9. ASSUME NEW i \in 1 .. n - w
      PROVE  a[i] = b[i]
  <2>1. w + i \in 1 .. n
    BY <1>6
  <2>2. QED
    BY <1>6, <1>7, <1>8, <2>1
<1>10. a = b
  BY <1>7, <1>8, <1>9, SeqEqual
<1>11. QED
  BY <1>6, <1>10 DEF SameRest, a, b, s, t

-----------------------------------------------------------------------------
(* The steps that leave the state of the session and its history alone.    *)
LEMMA QuietKeeps ==
  ASSUME IInv, UNCHANGED <<multi, session, aadVars, textVars, tagVars, history>>
  PROVE  IInv'
<1>1. /\ UNCHANGED <<multi, state, key, iv, start, tagLength, addLen, aadBuf, aadDone>>
      /\ UNCHANGED <<ctr, dataLen, partial, isEncrypt, ghash, tagReg>>
      /\ UNCHANGED <<aad, fed, got, dir, breaks>>
  BY DEF session, aadVars, textVars, tagVars, history
<1>2. TypeOK' /\ StateKnows'
  BY <1>1 DEF IInv, TypeOK, StateKnows
<1>3. regular' = regular /\ Message' = Message
  BY <1>1 DEF regular, Message
<1>4. ReadyMeansKeyed' /\ Position' /\ TextIsCtr'
  BY <1>1, <1>3 DEF IInv, ReadyMeansKeyed, Position, TextIsCtr
<1>5. QED
  BY <1>2, <1>4 DEF IInv

(* The invariant holds at first.                                           *)
LEMMA InitEstablishes ==
  ASSUME Init
  PROVE  IInv
<1>1. TypeOK
  <2>1. TypeFlags
    BY Zenon DEF Init, TypeFlags
  <2>2. 0 \in 0 .. MaxBreaks
    BY GcmAssumption
  <2>3. TypeRest
    BY <2>2 DEF Init, TypeRest, Starts
  <2>4. QED
    BY <2>1, <2>3, TypeParts
<1>2. StateKnows /\ ~regular
  BY DEF Init, StateKnows, regular
<1>3. ReadyMeansKeyed /\ Position /\ TextIsCtr
  BY <1>2 DEF Init, ReadyMeansKeyed, Position, TextIsCtr
<1>4. QED
  BY <1>1, <1>2, <1>3 DEF IInv

(* A refused IV: round keys may change, but then the message is over.      *)
LEMMA InitBadIvKeeps ==
  ASSUME IInv, NEW k \in Keys \cup BadKeys \cup {NoKey},
         NEW v \in Ivs \cup BadIvs \cup {NoIv}, InitBadIv(k, v)
  PROVE  IInv'
<1>1. /\ k \in Keys \cup {NoKey}
      /\ key' = (IF k = NoKey THEN key ELSE k)
      /\ state' = (IF k = NoKey THEN state ELSE OnKeySet(state))
      /\ UNCHANGED <<multi, iv, start, tagLength, addLen, aadBuf, aadDone>>
      /\ UNCHANGED <<ctr, dataLen, partial, isEncrypt, ghash, tagReg>>
      /\ UNCHANGED <<aad, fed, got, dir>>
  BY DEF InitBadIv, Kept, AfterKey, aadVars, textVars, tagVars
<1>2. CASE k = NoKey
  <2>1. UNCHANGED <<multi, session, aadVars, textVars, tagVars, history>>
    BY <1>1, <1>2 DEF InitBadIv, session, aadVars, textVars, tagVars, history
  <2>2. QED
    BY <2>1, QuietKeeps
<1>3. CASE k # NoKey
  <2>1. /\ key' = k /\ k \in Keys /\ key' # NoKey
        /\ state' = OnKeySet(state)
        /\ breaks' = breaks + 1 /\ breaks' <= MaxBreaks
    BY <1>1, <1>3 DEF InitBadIv, Counted
  <2>2. /\ breaks \in 0 .. MaxBreaks /\ MaxBreaks \in Nat
    BY GcmAssumption DEF IInv, TypeOK
  <2>3. breaks' \in 0 .. MaxBreaks /\ breaks' # 0
    BY <2>1, <2>2
  <2>4. TypeOK'
    BY <1>1, <2>1, <2>3 DEF IInv, TypeOK, OnKeySet
  <2>5. StateKnows'
    BY <1>1, <2>1 DEF IInv, TypeOK, StateKnows, OnKeySet
  <2>6. ~regular'
    BY <2>3 DEF regular
  <2>7. ReadyMeansKeyed' /\ Position' /\ TextIsCtr'
    BY <2>5, <2>6 DEF StateKnows, ReadyMeansKeyed, Position, TextIsCtr
  <2>8. QED
    BY <2>4, <2>5, <2>7 DEF IInv
<1>4. QED
  BY <1>2, <1>3

(* A successful init: with key and IV present a message begins.            *)
LEMMA InitGoodKeeps ==
  ASSUME IInv, NEW k \in Keys \cup BadKeys \cup {NoKey},
         NEW v \in Ivs \cup BadIvs \cup {NoIv}, InitGood(k, v)
  PROVE  IInv'
<1>1. /\ k \in Keys \cup {NoKey} /\ v \in Ivs \cup {NoIv}
      /\ key' = (IF k = NoKey THEN key ELSE k)
      /\ iv' = (IF v = NoIv THEN iv ELSE v)
      /\ state' = AfterIv(k, v)
      /\ ClearStreaming
      /\ UNCHANGED <<multi, addLen, isEncrypt, tagLength>>
  BY DEF InitGood, Kept
<1>2. key' \in Keys \cup {NoKey} /\ iv' \in Ivs \cup {NoIv}
  BY <1>1 DEF IInv, TypeOK
<1>3. state' \in {"Uninitialized", "KeySet", "IvSet", "Ready"} /\ StateKnows'
  <2>1. NoKey \notin Keys /\ NoIv \notin Ivs
    BY GcmAssumption
  <2>2. /\ AfterKey(k) \in {"Uninitialized", "KeySet", "IvSet", "Ready"}
        /\ key' # NoKey <=> AfterKey(k) \in {"KeySet", "Ready"}
        /\ iv # NoIv <=> AfterKey(k) \in {"IvSet", "Ready"}
    BY <1>1, <2>1 DEF IInv, TypeOK, StateKnows, AfterKey, OnKeySet
  <2>3. QED
    BY <1>1, <2>1, <2>2 DEF AfterIv, OnIvSet, StateKnows
<1>4. /\ aadBuf' \in Seq(Nat) /\ partial' \in Seq(Nat)
      /\ multi => partial' = <<>>
      /\ TypeFlags'
  <2>1. aadBuf \in Seq(Nat) /\ partial \in Seq(Nat) /\ TypeFlags
    BY TypeParts DEF IInv, TypeRest
  <2>2. aadBuf' \in Seq(Nat) /\ partial' \in Seq(Nat) /\ (multi => partial' = <<>>)
    <3>1. CASE multi
      <4>1. partial' = <<>> /\ aadBuf' = <<>>
        BY <1>1, <3>1 DEF ClearStreaming
      <4>2. QED
        BY <4>1
    <3>2. CASE ~multi
      <4>1. partial' = partial /\ aadBuf' = aadBuf
        BY <1>1, <3>2 DEF ClearStreaming
      <4>2. QED
        BY <2>1, <3>2, <4>1
    <3>3. QED
      BY <3>1, <3>2
  <2>3. TypeFlags'
    BY <1>1, <2>1, Zenon DEF ClearStreaming, TypeFlags
  <2>4. QED
    BY <2>2, <2>3
<1>5. CASE state' = "Ready"
  <2>1. InitGcm
    BY <1>5 DEF InitGood
  <2>2. key' \in Keys /\ iv' \in Ivs
    BY <1>2, <1>3, <1>5 DEF StateKnows
  <2>3. start' = [key |-> key', iv |-> iv'] /\ start' \in Starts
    BY <2>1, <2>2 DEF InitGcm, Starts
  <2>4. TypeOK'
    <3>1. 0 \in 0 .. MaxBreaks
      BY GcmAssumption
    <3>2. TypeRest
      BY TypeParts DEF IInv
    <3>3. TypeRest'
      BY <1>1, <1>2, <1>3, <1>4, <2>1, <2>3, <3>1, <3>2 DEF InitGcm, TypeRest
    <3>4. QED
      BY <1>4, <3>3, Zenon DEF TypeOK, TypeFlags, TypeRest
  <2>5. ReadyMeansKeyed'
    BY <1>3, <1>5, <2>3 DEF StateKnows, ReadyMeansKeyed, Message
  <2>6. Position'
    <3>1. Len(<<>>) = 0 /\ 0 \div Block = 0 /\ Block * 0 = 0
      BY GcmAssumption, DivMod
    <3>2. fed' = <<>> /\ ctr' = 0 /\ dataLen' = 0 /\ multi' = multi
      BY <1>1, <2>1 DEF InitGcm
    <3>3. IsRest(<<>>, 0, <<>>)
      BY DEF IsRest
    <3>4. QED
      BY <1>4, <3>1, <3>2, <3>3 DEF Position
  <2>7. TextIsCtr'
    <3>1. fed' = <<>> /\ got' = <<>>
      BY <2>1 DEF InitGcm
    <3>2. Masked(key', Message', 0, <<>>) = <<>>
      BY DEF Masked
    <3>3. QED
      BY <3>1, <3>2 DEF TextIsCtr
  <2>8. QED
    BY <1>3, <2>4, <2>5, <2>6, <2>7 DEF IInv
<1>6. CASE state' # "Ready"
  <2>1. UNCHANGED <<start, ctr, ghash, tagReg, dataLen, aad, fed, got, dir, breaks>>
    BY <1>6 DEF InitGood, tagVars, history
  <2>2. TypeOK'
    <3>1. TypeRest
      BY TypeParts DEF IInv
    <3>2. TypeRest'
      BY <1>1, <1>2, <1>3, <1>4, <2>1, <3>1 DEF TypeRest
    <3>3. QED
      BY <1>4, <3>2, Zenon DEF TypeOK, TypeFlags, TypeRest
  <2>3. state # "Ready"
    BY <1>1, <1>6 DEF AfterIv, AfterKey, OnKeySet, OnIvSet
  <2>4. ~regular'
    BY <2>1, <2>3 DEF IInv, ReadyMeansKeyed, regular
  <2>5. ReadyMeansKeyed' /\ Position' /\ TextIsCtr'
    BY <1>3, <2>4 DEF StateKnows, ReadyMeansKeyed, Position, TextIsCtr
  <2>6. QED
    BY <1>3, <2>2, <2>5 DEF IInv
<1>7. QED
  BY <1>5, <1>6

(***************************************************************************)
(* Steps that change neither key, IV nor text keep Position and the rest:  *)
(* what is left to show is the type, and that they count.                  *)
(***************************************************************************)
LEMMA SameText ==
  ASSUME IInv, TypeOK', regular' => regular,
         UNCHANGED <<multi, state, key, iv, start>>,
         UNCHANGED <<ctr, dataLen, fed, got>>,
         regular' => (tagReg' = <<>> => tagReg = <<>> /\ partial' = partial)
  PROVE  IInv'
<1>1. StateKnows'
  BY DEF IInv, StateKnows
<1>2. Message' = Message
  BY DEF Message
<1>3. ReadyMeansKeyed'
  BY <1>2 DEF IInv, ReadyMeansKeyed
<1>4. Position'
  BY DEF IInv, Position
<1>5. TextIsCtr'
  BY <1>2 DEF IInv, TextIsCtr
<1>6. QED
  BY <1>1, <1>3, <1>4, <1>5 DEF IInv

(* Additional data.                                                        *)
LEMMA SetAadKeeps ==
  ASSUME IInv, NEW n \in 1 .. MaxAad, SetAadAccepted(n)
  PROVE  IInv'
<1> DEFINE a == [i \in 1 .. n |-> 100 + Len(aad) + i]
<1>1. /\ BufferAad(a) \/ HashAad(a)
      /\ aad' = aad \o a
      /\ Counted(dir = "none" /\ tagReg = <<>> /\ (multi \/ aad = <<>>))
      /\ UNCHANGED <<multi, state, key, iv, start, tagLength>>
      /\ UNCHANGED <<ctr, dataLen, partial, isEncrypt, tagReg, fed, got, dir>>
  BY DEF SetAadAccepted, session, textVars
<1>2. a \in Seq(Nat) /\ Len(a) \in Nat
  <2>1. Len(aad) \in Nat /\ n \in Nat
    BY LenProperties, GcmAssumption DEF IInv, TypeOK
  <2>2. a \in [1 .. n -> Nat]
    BY <2>1
  <2>3. QED
    BY <2>1, <2>2, FunctionIsSeq
<1> HIDE DEF a
<1>3. TypeFlags /\ TypeRest
  BY TypeParts DEF IInv
<1>4. /\ addLen' \in Nat /\ aadBuf' \in Seq(Nat) /\ aadDone' = aadDone
      /\ ghash' \in Seq(Seq(HashByte))
  <2>1. CASE BufferAad(a)
    <3>1. aadBuf' \in Seq(Nat)
      BY <1>2, <1>3, <2>1, ConcatProperties DEF BufferAad, TypeRest
    <3>2. Len(aadBuf') \in Nat
      BY <3>1, LenProperties
    <3>3. QED
      BY <1>3, <2>1, <3>1, <3>2 DEF BufferAad, TypeRest
  <2>2. CASE HashAad(a)
    <3>1. Padded(Raw(a)) \in Seq(Seq(HashByte))
      BY <1>2, RawType, PaddedType
    <3>2. ghash' \in Seq(Seq(HashByte))
      BY <1>3, <2>2, <3>1, AbsorbType DEF HashAad, TypeRest
    <3>3. QED
      BY <1>2, <1>3, <2>2, <3>2 DEF HashAad, TypeRest
  <2>3. QED
    BY <1>1, <2>1, <2>2
<1>5. breaks' \in 0 .. MaxBreaks /\ (regular' => regular)
  BY <1>1, <1>3, GcmAssumption DEF Counted, TypeRest, regular
<1>6. aad' \in Seq(Nat)
  BY <1>1, <1>2, <1>3, ConcatProperties DEF TypeRest
<1>7. TypeFlags'
  BY <1>1, <1>3, <1>4, Zenon DEF TypeFlags
<1>8. TypeRest'
  BY <1>1, <1>3, <1>4, <1>5, <1>6 DEF TypeRest
<1>9. TypeOK'
  BY <1>7, <1>8, Zenon DEF TypeOK, TypeFlags, TypeRest
<1>10. QED
  BY <1>1, <1>5, <1>9, SameText

(* A call too early changes the direction only.                            *)
LEMMA CryptRefusedKeeps ==
  ASSUME IInv, NEW d \in {"encrypt", "decrypt"}, CryptRefused(d)
  PROVE  IInv'
<1>1. /\ isEncrypt' = (d = "encrypt")
      /\ UNCHANGED <<multi, state, key, iv, start, tagLength, addLen, aadBuf, aadDone>>
      /\ UNCHANGED <<ctr, dataLen, partial, ghash, tagReg, aad, fed, got, dir, breaks>>
  BY DEF CryptRefused, session, aadVars, tagVars, history
<1>2. TypeFlags /\ TypeRest
  BY TypeParts DEF IInv
<1>3. TypeFlags'
  BY <1>1, <1>2, Zenon DEF TypeFlags
<1>4. TypeRest'
  BY <1>1, <1>2 DEF TypeRest
<1>5. TypeOK'
  BY <1>3, <1>4, Zenon DEF TypeOK, TypeFlags, TypeRest
<1>6. regular' => regular
  BY <1>1 DEF regular
<1>7. QED
  BY <1>1, <1>5, <1>6, SameText

(* The tag length.                                                         *)
LEMMA SetTagLengthKeeps ==
  ASSUME IInv, NEW n \in TagSizes, SetTagLength(n)
  PROVE  IInv'
<1>1. CASE n \in 4 .. 16
  <2>1. /\ tagLength' = n
        /\ UNCHANGED <<multi, state, key, iv, start, addLen, aadBuf, aadDone>>
        /\ UNCHANGED <<ctr, dataLen, partial, isEncrypt, ghash, tagReg>>
        /\ UNCHANGED <<aad, fed, got, dir, breaks>>
    BY <1>1 DEF SetTagLength, aadVars, textVars, tagVars, history
  <2>2. TypeFlags /\ TypeRest
    BY TypeParts DEF IInv
  <2>3. TypeFlags'
    BY <2>1, <2>2, Zenon DEF TypeFlags
  <2>4. TypeRest'
    BY <1>1, <2>1, <2>2 DEF TypeRest
  <2>5. TypeOK'
    BY <2>3, <2>4, Zenon DEF TypeOK, TypeFlags, TypeRest
  <2>6. regular' => regular
    BY <2>1 DEF regular
  <2>7. QED
    BY <2>1, <2>5, <2>6, SameText
<1>2. CASE n \notin 4 .. 16
  BY <1>2, QuietKeeps DEF SetTagLength
<1>3. QED
  BY <1>1, <1>2

(* The tag: the unfinished block is flushed, and the message is over.      *)
LEMMA GetTagKeeps ==
  ASSUME IInv, NEW given, GetTagComputed(given)
  PROVE  IInv'
<1>1. /\ ghash' = Closed
      /\ tagReg' = IF start = NoStart THEN <<>> ELSE Append(tagReg, Closed)
      /\ partial' = IF multi THEN <<>> ELSE partial
      /\ aadDone' = (aadDone \/ (multi /\ dataLen = 0))
      /\ Counted(tagReg = <<>>)
      /\ UNCHANGED <<multi, state, key, iv, start, tagLength, addLen, aadBuf>>
      /\ UNCHANGED <<ctr, dataLen, isEncrypt, aad, fed, got, dir>>
  BY DEF GetTagComputed, ComputedTag, session
<1>2. TypeOK /\ TypeFlags /\ TypeRest
  BY TypeParts DEF IInv
<1>3. Closed \in Seq(Seq(HashByte))
  BY <1>2, ClosedType
<1>4. /\ tagReg' \in Seq(Seq(Seq(HashByte)))
      /\ start # NoStart => tagReg' # <<>>
  <2> DEFINE c == Closed
             T == Seq(Seq(HashByte))
  <2>1. tagReg \in Seq(T) /\ c \in T
    BY <1>2, <1>3 DEF TypeRest
  <2> HIDE DEF c, T
  <2>2. Append(tagReg, c) \in Seq(T) /\ Append(tagReg, c) # <<>>
    BY <2>1, AppendProperties
  <2>3. tagReg' = IF start = NoStart THEN <<>> ELSE Append(tagReg, c)
    BY <1>1 DEF c
  <2>4. tagReg' \in Seq(T) /\ (start # NoStart => tagReg' # <<>>)
    BY <2>2, <2>3
  <2>5. QED
    BY <2>4 DEF T
<1>5. breaks' \in 0 .. MaxBreaks /\ (regular' => regular)
  BY <1>1, <1>2, GcmAssumption DEF Counted, TypeRest, regular
<1>6. partial' \in Seq(Nat)
  BY <1>1, <1>2 DEF TypeRest
<1>7. TypeFlags'
  BY <1>1, <1>2, Zenon DEF TypeFlags
<1>8. TypeRest'
  BY <1>1, <1>2, <1>3, <1>4, <1>5, <1>6 DEF TypeRest
<1>9. TypeOK'
  BY <1>7, <1>8, Zenon DEF TypeOK, TypeFlags, TypeRest
<1>10. regular' => tagReg' # <<>>
  BY <1>1, <1>4 DEF regular
<1>11. QED
  BY <1>1, <1>5, <1>9, <1>10, SameText

(* Without AES_MULTI_UPDATE the text so far ends at the counter's block.   *)
LEMMA AtBoundary ==
  ASSUME IInv, regular, dataLen % Block = 0
  PROVE  Behind(fed, ctr, <<>>)
<1>1. /\ ctr \in Nat /\ fed \in Seq(Nat) /\ dataLen \in Nat
  BY TypeParts DEF IInv, TypeRest
<1>2. dataLen = Len(fed) /\ ctr = Len(fed) \div Block
  BY DEF IInv, Position
<1>3. Block \in Nat \ {0}
  BY GcmAssumption
<1>4. dataLen = Block * (dataLen \div Block) + (dataLen % Block)
  BY <1>1, <1>3, DivMod
<1> DEFINE o == Block * ctr
<1>5. o \in Nat
  BY <1>1, <1>3
<1>6. dataLen = o + 0
  BY <1>2, <1>4, Zenon
<1> HIDE DEF o
<1>7. Len(fed) = o + Len(<<>>)
  BY <1>2, <1>5, <1>6
<1>8. QED
  BY <1>7 DEF o, Behind

(* Without AES_MULTI_UPDATE a call starts at a block boundary.             *)
LEMMA OnceContinues ==
  ASSUME IInv, regular, ~multi, dataLen % Block = 0,
         NEW d, NEW m \in Seq(Nat), CryptAtOnce(d, m)
  PROVE  /\ got' = Masked(key, Message, 0, fed \o m)
         /\ ctr' = Len(fed \o m) \div Block
<1>1. /\ key \in Keys \cup {NoKey} /\ start \in Starts /\ ctr \in Nat
      /\ fed \in Seq(Nat) /\ dataLen \in Nat
  BY TypeParts DEF IInv, TypeRest
<1>2. /\ dataLen = Len(fed) /\ ctr = Len(fed) \div Block /\ start = Message
      /\ got = Masked(key, Message, 0, fed)
  BY DEF IInv, Position, ReadyMeansKeyed, TextIsCtr
<1>3. Block \in Nat \ {0} /\ Len(m) \in Nat
  BY LenProperties, GcmAssumption
<1>4. Behind(fed, ctr, <<>>)
  BY AtBoundary
<1>5. Len(fed) = Block * ctr
  BY <1>1, <1>3, <1>4 DEF Behind
<1>6. Masked(key, start, 0, fed) \o Masked(key, start, ctr, m)
        = Masked(key, start, 0, fed \o m)
  BY <1>1, <1>4, CtrContinuesAtBoundary
<1>7. Len(fed \o m) = Block * ctr + Len(m)
  BY <1>1, <1>5, ConcatProperties
<1>8. (Block * ctr + Len(m)) \div Block = ctr + (Len(m) \div Block)
  BY <1>1, <1>3, DivAddBlocks
<1>9. got' = got \o Masked(key, start, ctr, m) /\ ctr' = ctr + Len(m) \div Block
  BY DEF CryptAtOnce
<1>10. QED
  BY <1>2, <1>6, <1>7, <1>8, <1>9, Zenon

(***************************************************************************)
(* With it the bytes that wait for their block are masked again, and what  *)
(* waits afterwards is the rest of the longer text.                        *)
(***************************************************************************)
LEMMA StreamContinues ==
  ASSUME IInv, regular, multi, tagReg = <<>>,
         NEW d, NEW m \in Seq(Nat), CryptStreaming(d, m)
  PROVE  /\ got' = Masked(key, Message, 0, fed \o m)
         /\ ctr' = Len(fed \o m) \div Block
         /\ IsRest(fed \o m, Block * ctr', partial')
<1> DEFINE joined == partial \o m
           q == Len(joined) \div Block
           whole == Block * q
<1>1. /\ key \in Keys \cup {NoKey} /\ start \in Starts /\ ctr \in Nat
      /\ fed \in Seq(Nat) /\ partial \in Seq(Nat)
  BY TypeParts DEF IInv, TypeRest
<1>2. /\ start = Message
      /\ got = Masked(key, Message, 0, fed)
      /\ IsRest(fed, Block * ctr, partial)
  BY DEF IInv, Position, ReadyMeansKeyed, TextIsCtr
<1>3. Block \in Nat \ {0} /\ Len(m) \in Nat /\ Len(partial) \in Nat
  BY <1>1, LenProperties, GcmAssumption
<1>4. /\ joined \in Seq(Nat) /\ Len(joined) \in Nat
      /\ Len(joined) = Len(partial) + Len(m)
      /\ fed \o m \in Seq(Nat) /\ Len(fed \o m) = Len(fed) + Len(m)
  BY <1>1, <1>3, ConcatProperties
<1>5. /\ ctr' = ctr + q
      /\ partial' = SubSeq(joined, whole + 1, Len(joined))
      /\ got' = got \o SubSeq(Masked(key, start, ctr, joined), Len(partial) + 1, Len(joined))
  BY DEF CryptStreaming
<1>6. Len(fed) = Block * ctr + Len(partial)
  BY <1>2 DEF IsRest
<1>7. Masked(key, start, 0, fed)
        \o SubSeq(Masked(key, start, ctr, joined), Len(partial) + 1, Len(joined))
      = Masked(key, start, 0, fed \o m)
  <2>1. Behind(fed, ctr, partial)
    BY <1>6 DEF Behind
  <2>2. Continues(key, start, ctr, fed, partial, m)
    BY <1>1, <2>1, CtrContinues
  <2>3. QED
    BY <2>2, Zenon DEF Continues
<1>8. /\ q \in Nat /\ whole \in Nat /\ whole <= Len(joined)
      /\ Block * ctr \in Nat /\ Block * (ctr + q) = Block * ctr + whole
  <2> HIDE DEF joined
  <2> DEFINE r == Len(joined) % Block
  <2>1. q \in Nat /\ r \in 0 .. (Block - 1) /\ Len(joined) = Block * q + r
    BY <1>3, <1>4, DivMod
  <2> HIDE DEF q, r
  <2>2. QED
    BY <1>1, <1>3, <2>1
<1>9. Len(fed \o m) = Block * ctr + Len(joined)
  <2> DEFINE o == Block * ctr
             j == Len(joined)
  <2>1. /\ o \in Nat /\ Len(fed) = o + Len(partial)
        /\ Len(fed \o m) = Len(fed) + Len(m) /\ j = Len(partial) + Len(m)
    BY <1>4, <1>6, <1>8
  <2> HIDE DEF o, j
  <2>2. Len(fed \o m) = o + j
    BY <1>3, <2>1
  <2>3. QED
    BY <2>2 DEF o, j
<1>10. ctr' = Len(fed \o m) \div Block
  <2> HIDE DEF joined
  <2>1. (Block * ctr + Len(joined)) \div Block = ctr + q
    BY <1>1, <1>3, <1>4, DivAddBlocks
  <2>2. QED
    BY <1>5, <1>9, <2>1, Zenon
<1>11. partial' = SubSeq(fed \o m, Block * ctr + whole + 1, Len(fed \o m))
  <2> DEFINE o == Block * ctr
  <2>1. /\ o \in Nat /\ whole \in Nat /\ whole <= Len(partial \o m)
        /\ IsRest(fed, o, partial)
    BY <1>2, <1>8
  <2> HIDE DEF o, whole
  <2>2. SameRest(fed, partial, m, o, whole)
    BY <1>1, <2>1, RestContinues
  <2>3. QED
    BY <1>5, <2>2, Zenon DEF SameRest, o
<1>12. IsRest(fed \o m, Block * ctr', partial')
  <2> DEFINE t == fed \o m
             o == Block * ctr + whole
  <2>1. t \in Seq(Nat) /\ o \in 0 .. Len(t)
    <3> HIDE DEF joined, whole
    <3>1. QED
      BY <1>4, <1>8, <1>9
  <2>2. partial' = SubSeq(t, o + 1, Len(t)) /\ Block * ctr' = o
    BY <1>5, <1>8, <1>11
  <2> HIDE DEF t, o
  <2>3. IsRest(t, o, SubSeq(t, o + 1, Len(t)))
    BY <2>1, RestOf
  <2>4. QED
    BY <2>2, <2>3 DEF t
<1>13. got' = Masked(key, Message, 0, fed \o m)
  BY <1>2, <1>5, <1>7, Zenon
<1>14. QED
  BY <1>10, <1>12, <1>13

(* What a call with text makes of the session has the right types.         *)
LEMMA CryptTypes ==
  ASSUME TypeOK, NEW d, NEW m \in Seq(Nat), CryptAtOnce(d, m) \/ CryptStreaming(d, m)
  PROVE  /\ ghash' \in Seq(Seq(HashByte)) /\ ctr' \in Nat
         /\ got' \in Seq(TextByte) /\ partial' \in Seq(Nat) /\ aadDone' \in BOOLEAN
<1> DEFINE enc == (d = "encrypt")
<1>1. enc \in BOOLEAN
  OBVIOUS
<1>2. TypeFlags /\ TypeRest
  BY TypeParts
<1> HIDE DEF enc
<1>3. /\ key \in Keys \cup {NoKey} /\ start \in Starts /\ ctr \in Nat
      /\ ghash \in Seq(Seq(HashByte)) /\ got \in Seq(TextByte) /\ partial \in Seq(Nat)
      /\ aadDone \in BOOLEAN
  BY <1>2 DEF TypeFlags, TypeRest
<1>4. Block \in Nat \ {0} /\ Len(m) \in Nat
  BY LenProperties, GcmAssumption
<1>5. CASE CryptAtOnce(d, m)
  <2>1. /\ ghash' = Absorb(ghash, Hashed(enc, ctr, m))
        /\ ctr' = ctr + Len(m) \div Block
        /\ got' = got \o Masked(key, start, ctr, m)
        /\ partial' = partial /\ aadDone' = aadDone
    BY <1>5 DEF CryptAtOnce, enc
  <2>2. ghash' \in Seq(Seq(HashByte))
    BY <1>1, <1>3, <2>1, HashedType, AbsorbType
  <2>3. Len(m) \div Block \in Nat
    BY <1>4, DivMod
  <2>4. got' \in Seq(TextByte)
    BY <1>3, <2>1, MaskedType, ConcatProperties
  <2>5. ctr' \in Nat
    BY <1>3, <2>1, <2>3
  <2>6. QED
    BY <1>3, <2>1, <2>2, <2>4, <2>5, Zenon
<1>6. CASE CryptStreaming(d, m)
  <2> DEFINE joined == partial \o m
             q == Len(joined) \div Block
             whole == Block * q
             output == Masked(key, start, ctr, joined)
  <2>1. /\ ghash' = Absorb(WithAad, Hashed(enc, ctr, SubSeq(joined, 1, whole)))
        /\ ctr' = ctr + q
        /\ partial' = SubSeq(joined, whole + 1, Len(joined))
        /\ aadDone' = TRUE
        /\ got' = got \o SubSeq(output, Len(partial) + 1, Len(joined))
    BY <1>6 DEF CryptStreaming, enc
  <2>2. /\ joined \in Seq(Nat) /\ Len(joined) \in Nat /\ Len(partial) \in Nat
        /\ Len(joined) = Len(partial) + Len(m)
    BY <1>3, LenProperties, ConcatProperties
  <2>3. output \in Seq(TextByte) /\ Len(output) = Len(joined)
    BY <1>3, <2>2, MaskedType
  <2> HIDE DEF joined, output
  <2>4. q \in Nat /\ whole \in 0 .. Len(joined)
    <3> DEFINE r == Len(joined) % Block
    <3>1. q \in Nat /\ r \in 0 .. (Block - 1) /\ Len(joined) = Block * q + r
      BY <1>4, <2>2, DivMod
    <3> HIDE DEF q, r
    <3>2. QED
      BY <1>4, <2>2, <3>1
  <2> HIDE DEF q, whole
  <2>5. /\ SubSeq(joined, 1, whole) \in Seq(Nat)
        /\ SubSeq(joined, whole + 1, Len(joined)) \in Seq(Nat)
    BY <2>2, <2>4, CutBounds
  <2>6. ghash' \in Seq(Seq(HashByte))
    BY <1>1, <1>3, <2>1, <2>5, HashedType, AbsorbType, WithAadType
  <2>7. SubSeq(output, Len(partial) + 1, Len(output)) \in Seq(TextByte)
    <3>1. Len(partial) \in 0 .. Len(output)
      BY <1>4, <2>2, <2>3
    <3>2. QED
      BY <2>3, <3>1, CutBounds
  <2>8. got' \in Seq(TextByte)
    BY <1>3, <2>1, <2>3, <2>7, ConcatProperties
  <2>9. ctr' \in Nat /\ partial' \in Seq(Nat)
    BY <1>3, <2>1, <2>4, <2>5
  <2>10. QED
    BY <2>1, <2>6, <2>8, <2>9, Zenon
<1>7. QED
  BY <1>5, <1>6

(* Text, by either build.                                                  *)
LEMMA CryptAcceptedKeeps ==
  ASSUME IInv, NEW d \in {"encrypt", "decrypt"}, NEW n \in 0 .. MaxText,
         CryptAccepted(d, n)
  PROVE  IInv'
<1> DEFINE m == [i \in 1 .. n |-> Len(fed) + i]
           enc == (d = "encrypt")
<1>1. /\ isEncrypt' = enc
      /\ dataLen' = dataLen + n
      /\ CryptAtOnce(d, m) \/ CryptStreaming(d, m)
      /\ fed' = fed \o m
      /\ dir' = d
      /\ Counted(dir \in {"none", d} /\ tagReg = <<>> /\ (multi \/ dataLen % Block = 0))
      /\ UNCHANGED <<multi, state, key, iv, start, tagLength, addLen, aadBuf, tagReg, aad>>
  BY DEF CryptAccepted, session
<1>2. TypeOK /\ TypeFlags /\ TypeRest
  BY TypeParts DEF IInv
<1>3. m \in Seq(Nat) /\ Len(m) = n /\ n \in Nat
  <2>1. Len(fed) \in Nat /\ n \in Nat
    BY <1>2, LenProperties, GcmAssumption DEF TypeRest
  <2>2. m \in [1 .. n -> Nat]
    BY <2>1
  <2>3. QED
    BY <2>1, <2>2, FunctionIsSeq
<1>4. enc \in BOOLEAN
  OBVIOUS
<1> HIDE DEF m, enc
<1>5. fed' \in Seq(Nat) /\ Len(fed') = Len(fed) + n
  BY <1>1, <1>2, <1>3, ConcatProperties DEF TypeRest
<1>6. breaks' \in 0 .. MaxBreaks
  BY <1>1, <1>2, GcmAssumption DEF Counted, TypeRest
<1>7. regular' => regular /\ tagReg = <<>> /\ (multi \/ dataLen % Block = 0)
  <2>1. breaks + 1 # 0
    BY <1>2, GcmAssumption DEF TypeRest
  <2>2. breaks' = 0 => regular /\ tagReg = <<>> /\ (multi \/ dataLen % Block = 0)
    BY <1>1, <2>1 DEF Counted
  <2>3. QED
    BY <2>2 DEF regular
<1>8. /\ ghash' \in Seq(Seq(HashByte)) /\ ctr' \in Nat
      /\ got' \in Seq(TextByte) /\ partial' \in Seq(Nat) /\ aadDone' \in BOOLEAN
  BY <1>1, <1>2, <1>3, CryptTypes
<1>9. TypeFlags'
  BY <1>1, <1>2, <1>4, <1>8, Zenon DEF TypeFlags
<1>10. TypeRest'
  BY <1>1, <1>2, <1>3, <1>5, <1>6, <1>8 DEF TypeRest
<1>11. TypeOK'
  BY <1>9, <1>10, Zenon DEF TypeOK, TypeFlags, TypeRest
<1>12. StateKnows'
  BY <1>1 DEF IInv, StateKnows
<1>13. Message' = Message
  BY <1>1 DEF Message
<1>14. ReadyMeansKeyed'
  BY <1>1, <1>7, <1>13 DEF IInv, ReadyMeansKeyed
<1>15. Position' /\ TextIsCtr'
  <2>1. CASE ~regular'
    BY <2>1 DEF Position, TextIsCtr
  <2>2. CASE regular'
    <3>1. regular /\ tagReg = <<>> /\ (multi \/ dataLen % Block = 0)
      BY <1>7, <2>2
    <3>2. dataLen' = Len(fed')
      BY <1>1, <1>2, <1>5, <3>1 DEF IInv, Position
    <3>3. /\ got' = Masked(key, Message, 0, fed \o m)
          /\ ctr' = Len(fed \o m) \div Block
          /\ multi => IsRest(fed \o m, Block * ctr', partial')
      <4>1. CASE multi
        <5>1. CryptStreaming(d, m)
          BY <1>1, <4>1 DEF CryptAtOnce
        <5>2. QED
          BY <1>3, <3>1, <4>1, <5>1, StreamContinues
      <4>2. CASE ~multi
        <5>1. CryptAtOnce(d, m)
          BY <1>1, <4>2 DEF CryptStreaming
        <5>2. QED
          BY <1>3, <3>1, <4>2, <5>1, OnceContinues
      <4>3. QED
        BY <4>1, <4>2
    <3>4. Position'
      BY <1>1, <3>2, <3>3, Zenon DEF Position
    <3>5. TextIsCtr'
      BY <1>1, <1>13, <3>3, Zenon DEF TextIsCtr
    <3>6. QED
      BY <3>4, <3>5
  <2>3. QED
    BY <2>1, <2>2
<1>16. QED
  BY <1>11, <1>12, <1>14, <1>15 DEF IInv

-----------------------------------------------------------------------------
(* Every step keeps the invariant.                                         *)
LEMMA NextKeeps ==
  ASSUME IInv, [Next]_vars
  PROVE  IInv'
<1>1. CASE InitSession
  <2>1. PICK k \in Keys \cup BadKeys \cup {NoKey}, v \in Ivs \cup BadIvs \cup {NoIv} :
          InitBadKey(k) \/ InitBadIv(k, v) \/ InitGood(k, v)
    BY <1>1 DEF InitSession
  <2>2. CASE InitBadKey(k)
    BY <2>2, QuietKeeps DEF InitBadKey
  <2>3. CASE InitBadIv(k, v)
    BY <2>3, InitBadIvKeeps
  <2>4. CASE InitGood(k, v)
    BY <2>4, InitGoodKeeps
  <2>5. QED
    BY <2>1, <2>2, <2>3, <2>4
<1>2. CASE SetAad
  <2>1. CASE SetAadRefused
    BY <2>1, QuietKeeps DEF SetAadRefused
  <2>2. CASE \E n \in 1 .. MaxAad : SetAadAccepted(n)
    BY <2>2, SetAadKeeps
  <2>3. QED
    BY <1>2, <2>1, <2>2 DEF SetAad
<1>3. CASE Crypt
  <2>1. PICK d \in {"encrypt", "decrypt"} :
          CryptRefused(d) \/ \E n \in 0 .. MaxText : CryptAccepted(d, n)
    BY <1>3 DEF Crypt
  <2>2. CASE CryptRefused(d)
    BY <2>2, CryptRefusedKeeps
  <2>3. CASE \E n \in 0 .. MaxText : CryptAccepted(d, n)
    BY <2>3, CryptAcceptedKeeps
  <2>4. QED
    BY <2>1, <2>2, <2>3
<1>4. CASE \E n \in TagSizes : SetTagLength(n)
  BY <1>4, SetTagLengthKeeps
<1>5. CASE GetTag
  <2>1. PICK n \in TagSizes :
          \/ GetTagRefused(n)
          \/ TagSizeOk(n) /\ \E given \in Received : GetTagComputed(given)
    BY <1>5 DEF GetTag
  <2>2. CASE GetTagRefused(n)
    BY <2>2, QuietKeeps DEF GetTagRefused
  <2>3. CASE \E given \in Received : GetTagComputed(given)
    BY <2>3, GetTagKeeps
  <2>4. QED
    BY <2>1, <2>2, <2>3
<1>6. CASE UNCHANGED vars
  BY <1>6, QuietKeeps DEF vars
<1>7. QED
  BY <1>1, <1>2, <1>3, <1>4, <1>5, <1>6 DEF Next

(* The invariant holds of every behaviour.                                 *)
THEOREM InductiveInvariant == Spec => []IInv
<1>1. Init => IInv
  BY InitEstablishes
<1>2. IInv /\ [Next]_vars => IInv'
  BY NextKeeps
<1>3. QED
  BY <1>1, <1>2, PTL DEF Spec

(* Every variable of a session stays in the set its declaration gives it.  *)
THEOREM TypeCorrect == Spec => []TypeOK
<1>1. IInv => TypeOK
  BY DEF IInv
<1>2. QED
  BY <1>1, InductiveInvariant, PTL

(***************************************************************************)
(* Whatever inits succeed or are refused, the session is Ready exactly     *)
(* when it holds a key and an IV, and a message in order runs under them.  *)
(***************************************************************************)
THEOREM ReadyIsKeyed == Spec => []ReadyMeansKeyed
<1>1. IInv => ReadyMeansKeyed
  BY DEF IInv
<1>2. QED
  BY <1>1, InductiveInvariant, PTL

(***************************************************************************)
(* However a message is split over encrypt or decrypt calls, what comes    *)
(* back is its counter mode encryption, each byte of the keystream used    *)
(* once.                                                                   *)
(***************************************************************************)
THEOREM TextIsCounterMode == Spec => []TextIsCtr
<1>1. IInv => TextIsCtr
  BY DEF IInv
<1>2. QED
  BY <1>1, InductiveInvariant, PTL

-----------------------------------------------------------------------------
(* What GHASH has.                                                         *)

\* Ciphertext of the bytes m of the message, from its c-th block on.
CodedFrom(d, k, s, c, m) == IF d = "decrypt" THEN Raw(m) ELSE Masked(k, s, c, m)

Coded(m) == CodedFrom(dir, key, Message, 0, m)

\* Of the additional data, what GHASH has.
AadHashed == IF multi /\ ~aadDone THEN <<>> ELSE Padded(Raw(aad))

\* w is the text in whole blocks; what the session keeps is behind it.
WholeBlocks(w) == fed = w \o partial /\ Behind(w, ctr, <<>>)

(***************************************************************************)
(* Until the tag is taken, GHASH is the padded additional data and the     *)
(* padded ciphertext: in the streaming build of the whole blocks so far,   *)
(* and the data only once there was text; else all of both.                *)
(***************************************************************************)
Hashing ==
  /\ aad # <<>> => addLen = Len(aad)
  /\ dir = "none" => fed = <<>>
  /\ dir # "none" => isEncrypt = (dir = "encrypt")
  /\ multi => aadBuf = aad
  /\ multi => (aadDone <=> dir # "none")
  /\ multi => \E w \in Seq(Nat) :
                WholeBlocks(w) /\ ghash = AadHashed \o Padded(Coded(w))
  /\ ~multi => ghash = AadHashed \o Padded(Coded(fed))

HashSoFar == regular /\ tagReg = <<>> => Hashing

TagInv == HashSoFar /\ TagIsGcm /\ OnlyGenuineAccepted

-----------------------------------------------------------------------------
(* GHASH of a text in parts.                                               *)

\* The number of blocks n bytes fill or begin, and block j of m.
Begun(n) == (n + Block - 1) \div Block

BlockOf(m, j) ==
  [i \in 1 .. Block |->
     IF (j - 1) * Block + i <= Len(m) THEN m[(j - 1) * Block + i] ELSE Zero]

(* Padded, by these.                                                       *)
LEMMA PaddedBlocks ==
  ASSUME NEW m \in Seq(HashByte)
  PROVE  /\ Begun(Len(m)) \in Nat
         /\ Padded(m) \in Seq(Seq(HashByte)) /\ Len(Padded(m)) = Begun(Len(m))
         /\ \A j \in 1 .. Begun(Len(m)) : Padded(m)[j] = BlockOf(m, j)
<1>1. Len(m) \in Nat /\ Block \in Nat \ {0}
  BY LenProperties, GcmAssumption
<1>2. Begun(Len(m)) \in Nat
  <2>1. Len(m) + Block - 1 \in Nat
    BY <1>1
  <2>2. QED
    BY <1>1, <2>1, DivMod DEF Begun
<1>3. Padded(m) = [j \in 1 .. Begun(Len(m)) |-> BlockOf(m, j)]
  BY Zenon DEF Padded, Begun, BlockOf
<1>4. Padded(m) \in Seq(Seq(HashByte))
  BY PaddedType
<1>5. DOMAIN Padded(m) = 1 .. Len(Padded(m)) /\ Len(Padded(m)) \in Nat
  BY <1>4, LenProperties
<1>6. Len(Padded(m)) = Begun(Len(m))
  BY <1>2, <1>3, <1>5
<1>7. QED
  BY <1>2, <1>3, <1>4, <1>6

(* c whole blocks and n bytes begin c blocks and those of n bytes.         *)
LEMMA BegunSum ==
  ASSUME NEW c \in Nat, NEW n \in Nat
  PROVE  Begun(Block * c) = c /\ Begun(Block * c + n) = c + Begun(n)
<1>1. Block \in Nat \ {0} /\ Block * c \in Nat /\ n + Block - 1 \in Nat
      /\ Block - 1 \in Nat
  BY GcmAssumption
<1>2. (Block * c + (n + Block - 1)) \div Block = c + ((n + Block - 1) \div Block)
  BY <1>1, DivAddBlocks
<1>3. Block * c + n + Block - 1 = Block * c + (n + Block - 1)
      /\ Block * c + Block - 1 = Block * c + (Block - 1)
  BY <1>1
<1>4. Begun(Block * c + n) = c + Begun(n)
  BY <1>2, <1>3, Zenon DEF Begun
<1>5. (Block * c + (Block - 1)) \div Block = c + ((Block - 1) \div Block)
  BY <1>1, DivAddBlocks
<1>6. (Block - 1) \div Block = 0
  <2>1. Block - 1 \in 0 .. (Block - 1)
    BY <1>1
  <2>2. (Block - 1) \div Block \in Nat
        /\ Block - 1 = Block * ((Block - 1) \div Block) + ((Block - 1) % Block)
        /\ (Block - 1) % Block \in 0 .. (Block - 1)
    BY <1>1, DivMod
  <2> DEFINE q == (Block - 1) \div Block
  <2>3. q \in Nat /\ Block * q <= Block - 1
    BY <1>1, <2>2
  <2> HIDE DEF q
  <2>4. q = 0
    BY <1>1, <2>3, SMT
  <2>5. QED
    BY <2>4 DEF q
<1>7. Begun(Block * c) = c
  BY <1>3, <1>5, <1>6 DEF Begun
<1>8. QED
  BY <1>4, <1>7

(* Padding fills up the last block only.                                   *)
LEMMA PaddedJoin ==
  ASSUME NEW p \in Seq(HashByte), NEW r \in Seq(HashByte), NEW c \in Nat,
         Len(p) = Block * c
  PROVE  Padded(p \o r) = Padded(p) \o Padded(r)
<1> DEFINE all == p \o r
           n == Begun(Len(r))
<1>1. /\ Block \in Nat \ {0} /\ Block * c \in Nat
      /\ Len(p) \in Nat /\ Len(r) \in Nat
  BY LenProperties, GcmAssumption
<1>2. /\ all \in Seq(HashByte) /\ Len(all) = Len(p) + Len(r)
      /\ \A i \in 1 .. Len(p) + Len(r) :
           all[i] = IF i <= Len(p) THEN p[i] ELSE r[i - Len(p)]
  BY ConcatProperties
<1> HIDE DEF all
<1>3. Begun(Len(p)) = c /\ Begun(Len(all)) = c + n
  <2>1. Begun(Block * c) = c /\ Begun(Block * c + Len(r)) = c + Begun(Len(r))
    BY <1>1, BegunSum
  <2>2. Len(all) = Block * c + Len(r)
    BY <1>2
  <2>3. QED
    BY <2>1, <2>2, Zenon DEF n
<1>4. /\ n \in Nat
      /\ Padded(all) \in Seq(Seq(HashByte)) /\ Len(Padded(all)) = c + n
      /\ \A j \in 1 .. c + n : Padded(all)[j] = BlockOf(all, j)
      /\ Padded(p) \in Seq(Seq(HashByte)) /\ Len(Padded(p)) = c
      /\ \A j \in 1 .. c : Padded(p)[j] = BlockOf(p, j)
      /\ Padded(r) \in Seq(Seq(HashByte)) /\ Len(Padded(r)) = n
      /\ \A j \in 1 .. n : Padded(r)[j] = BlockOf(r, j)
  BY <1>2, <1>3, PaddedBlocks
<1> HIDE DEF n
<1> DEFINE both == Padded(p) \o Padded(r)
<1>5. /\ both \in Seq(Seq(HashByte)) /\ Len(both) = c + n
      /\ \A j \in 1 .. c + n :
           both[j] = IF j <= c THEN Padded(p)[j] ELSE Padded(r)[j - c]
  BY <1>4, ConcatProperties
<1> HIDE DEF both
<1>6. ASSUME NEW j \in 1 .. c + n
      PROVE  both[j] = Padded(all)[j]
  <2>1. CASE j <= c
    <3>1. j \in 1 .. c /\ j - 1 \in Nat
      BY <2>1
    <3>2. ASSUME NEW i \in 1 .. Block
          PROVE  /\ (j - 1) * Block + i \in 1 .. Len(p)
                 /\ (j - 1) * Block + i <= Len(all)
      <4> DEFINE o == (j - 1) * Block
      <4>1. o \in Nat /\ o + Block <= Block * c
        <5>1. j - 1 + 1 <= c /\ o \in Nat
          BY <1>1, <3>1
        <5>2. o + Block = Block * j
          BY <1>1, <3>1
        <5>3. Block * j <= Block * c
          BY <1>1, <3>1, SMT
        <5>4. QED
          BY <5>1, <5>2, <5>3
      <4> HIDE DEF o
      <4>2. o + i \in 1 .. Len(p) /\ o + i <= Len(all)
        BY <1>1, <1>2, <4>1
      <4>3. QED
        BY <4>2 DEF o
    <3>3. ASSUME NEW i \in 1 .. Block
          PROVE  all[(j - 1) * Block + i] = p[(j - 1) * Block + i]
                 /\ (j - 1) * Block + i <= Len(p) /\ (j - 1) * Block + i <= Len(all)
      <4> DEFINE x == (j - 1) * Block + i
      <4>1. x \in 1 .. Len(p) /\ x <= Len(all)
        BY <3>2
      <4> HIDE DEF x
      <4>2. all[x] = p[x] /\ x <= Len(p)
        BY <1>1, <1>2, <4>1
      <4>3. QED
        BY <4>1, <4>2 DEF x
    <3>4. BlockOf(all, j) = BlockOf(p, j)
      BY <3>3, Zenon DEF BlockOf
    <3>5. QED
      BY <1>4, <1>5, <2>1, <3>1, <3>4
  <2>2. CASE ~(j <= c)
    <3> DEFINE k == j - c
    <3>1. k \in 1 .. n /\ k - 1 \in Nat /\ j - 1 = c + (k - 1)
      BY <1>4, <2>2
    <3>2. ASSUME NEW i \in 1 .. Block
          PROVE  /\ (j - 1) * Block + i <= Len(all) <=> (k - 1) * Block + i <= Len(r)
                 /\ (j - 1) * Block + i <= Len(all) =>
                      all[(j - 1) * Block + i] = r[(k - 1) * Block + i]
      <4> DEFINE o == (k - 1) * Block
                 x == (j - 1) * Block
                 y == Block * c
      <4>1. o \in Nat /\ x = y + o /\ y \in Nat /\ Len(p) = y
        <5>1. o \in Nat /\ y \in Nat
          BY <1>1, <3>1
        <5>2. x = (c + (k - 1)) * Block
          BY <3>1
        <5> HIDE DEF k
        <5>3. (c + (k - 1)) * Block = c * Block + (k - 1) * Block
          BY <1>1, <3>1, SMT
        <5>4. QED
          BY <1>1, <5>1, <5>2, <5>3
      <4> HIDE DEF o, x, y, k
      <4>2. x + i <= Len(all) <=> o + i <= Len(r)
        BY <1>1, <1>2, <4>1
      <4>3. ASSUME x + i <= Len(all)
            PROVE  all[x + i] = r[o + i]
        <5>1. x + i \in 1 .. Len(p) + Len(r) /\ ~(x + i <= Len(p))
              /\ (x + i) - Len(p) = o + i
          BY <1>1, <1>2, <1>1, <4>1, <4>3
        <5>2. QED
          BY <1>2, <5>1
      <4>4. QED
        BY <4>2, <4>3 DEF o, x
    <3> HIDE DEF k
    <3>3. BlockOf(all, j) = BlockOf(r, k)
      BY <3>2, Zenon DEF BlockOf
    <3>4. both[j] = Padded(r)[k]
      BY <1>5, <2>2 DEF k
    <3>5. QED
      BY <1>4, <3>1, <3>3, <3>4
  <2>3. QED
    BY <2>1, <2>2
<1>7. both = Padded(all)
  BY <1>4, <1>5, <1>6, SeqEqual
<1>8. QED
  BY <1>7 DEF both, all

(* Nothing is no block.                                                    *)
LEMMA NothingHashed ==
  /\ Raw(<<>>) = <<>>
  /\ Padded(<<>>) = <<>>
  /\ \A d, k, s, c : CodedFrom(d, k, s, c, <<>>) = <<>>
<1>1. Begun(Block * 0) = 0
  BY BegunSum
<1>2. Len(<<>>) = 0 /\ Block * 0 = 0 /\ <<>> \in Seq(HashByte)
  BY GcmAssumption
<1>3. Len(Padded(<<>>)) = 0 /\ Padded(<<>>) \in Seq(Seq(HashByte))
  <2>1. Begun(Len(<<>>)) = 0
    BY <1>1, <1>2, Zenon
  <2>2. QED
    BY <1>2, <2>1, PaddedBlocks, Zenon
<1>4. Padded(<<>>) = <<>>
  BY <1>3, EmptySeq
<1>5. Raw(<<>>) = <<>>
  BY DEF Raw
<1>6. \A k, s, c : Masked(k, s, c, <<>>) = <<>>
  BY DEF Masked
<1>7. QED
  BY <1>4, <1>5, <1>6 DEF CodedFrom

(* Ciphertext is bytes GHASH may be given, as many as there is text.       *)
LEMMA CodedType ==
  ASSUME NEW d, NEW k \in Keys \cup {NoKey}, NEW s \in Starts, NEW c \in Nat,
         NEW m \in Seq(Nat)
  PROVE  /\ CodedFrom(d, k, s, c, m) \in Seq(HashByte)
         /\ Len(CodedFrom(d, k, s, c, m)) = Len(m)
<1>1. Raw(m) \in Seq(HashByte) /\ Len(Raw(m)) = Len(m)
  <2>1. Raw(m) \in Seq(HashByte) /\ Len(m) \in Nat
    BY RawType, LenProperties
  <2>2. DOMAIN Raw(m) = 1 .. Len(m)
    BY DEF Raw
  <2>3. QED
    BY <2>1, <2>2, LenProperties
<1>2. Masked(k, s, c, m) \in Seq(HashByte) /\ Len(Masked(k, s, c, m)) = Len(m)
  BY MaskedType, TextIsHashable
<1>3. QED
  BY <1>1, <1>2 DEF CodedFrom

(* Two texts one after the other, taken as they are.                       *)
LEMMA RawJoin ==
  ASSUME NEW f \in Seq(Nat), NEW m \in Seq(Nat)
  PROVE  Raw(f) \o Raw(m) = Raw(f \o m)
<1>1. /\ Len(f) \in Nat /\ Len(m) \in Nat
      /\ f \o m \in Seq(Nat) /\ Len(f \o m) = Len(f) + Len(m)
      /\ \A i \in 1 .. Len(f) + Len(m) :
           (f \o m)[i] = IF i <= Len(f) THEN f[i] ELSE m[i - Len(f)]
  BY LenProperties, ConcatProperties
<1> DEFINE all == f \o m
<1>2. \A t \in Seq(Nat) : /\ Raw(t) \in Seq(HashByte) /\ Len(Raw(t)) = Len(t)
                          /\ \A i \in 1 .. Len(t) : Raw(t)[i] = [ks |-> <<>>, b |-> t[i]]
  <2> TAKE t \in Seq(Nat)
  <2>1. Raw(t) \in Seq(HashByte) /\ Len(t) \in Nat
    BY RawType, LenProperties
  <2>2. DOMAIN Raw(t) = 1 .. Len(t)
        /\ \A i \in 1 .. Len(t) : Raw(t)[i] = [ks |-> <<>>, b |-> t[i]]
    BY DEF Raw
  <2>3. QED
    BY <2>1, <2>2, LenProperties
<1> DEFINE rf == Raw(f)
           rm == Raw(m)
           ra == Raw(all)
<1>3. /\ rf \in Seq(HashByte) /\ Len(rf) = Len(f)
      /\ \A i \in 1 .. Len(f) : rf[i] = [ks |-> <<>>, b |-> f[i]]
      /\ rm \in Seq(HashByte) /\ Len(rm) = Len(m)
      /\ \A i \in 1 .. Len(m) : rm[i] = [ks |-> <<>>, b |-> m[i]]
      /\ ra \in Seq(HashByte) /\ Len(ra) = Len(f) + Len(m)
      /\ \A i \in 1 .. Len(f) + Len(m) : ra[i] = [ks |-> <<>>, b |-> all[i]]
  <2>1. all \in Seq(Nat) /\ Len(all) = Len(f) + Len(m)
    BY <1>1
  <2> HIDE DEF all
  <2>2. QED
    BY <1>2, <2>1
<1>4. \A i \in 1 .. Len(f) + Len(m) :
         all[i] = IF i <= Len(f) THEN f[i] ELSE m[i - Len(f)]
  BY <1>1
<1> HIDE DEF rf, rm, ra, all
<1>5. /\ rf \o rm \in Seq(HashByte) /\ Len(rf \o rm) = Len(f) + Len(m)
      /\ \A i \in 1 .. Len(f) + Len(m) :
           (rf \o rm)[i] = IF i <= Len(f) THEN rf[i] ELSE rm[i - Len(f)]
  BY <1>3, ConcatProperties
<1>6. ASSUME NEW i \in 1 .. Len(f) + Len(m)
      PROVE  (rf \o rm)[i] = ra[i]
  <2>1. CASE i <= Len(f)
    <3>1. i \in 1 .. Len(f)
      BY <1>1, <2>1
    <3>2. QED
      BY <1>3, <1>4, <1>5, <2>1, <3>1
  <2>2. CASE ~(i <= Len(f))
    <3>1. i - Len(f) \in 1 .. Len(m)
      BY <1>1, <2>2
    <3>2. QED
      BY <1>3, <1>4, <1>5, <2>2, <3>1
  <2>3. QED
    BY <2>1, <2>2
<1>7. rf \o rm = ra
  BY <1>3, <1>5, <1>6, SeqEqual
<1>8. QED
  BY <1>7 DEF rf, rm, ra, all

(* Hashing whole blocks, then what follows them, hashes both together.     *)
LEMMA HashJoin ==
  ASSUME NEW d, NEW k \in Keys \cup {NoKey}, NEW s \in Starts, NEW c \in Nat,
         NEW f \in Seq(Nat), NEW m \in Seq(Nat), Behind(f, c, <<>>)
  PROVE  Padded(CodedFrom(d, k, s, 0, f)) \o Padded(CodedFrom(d, k, s, c, m))
           = Padded(CodedFrom(d, k, s, 0, f \o m))
<1> DEFINE front == CodedFrom(d, k, s, 0, f)
           back == CodedFrom(d, k, s, c, m)
<1>1. front \o back = CodedFrom(d, k, s, 0, f \o m)
  BY RawJoin, CtrContinuesAtBoundary DEF CodedFrom
<1>2. /\ front \in Seq(HashByte) /\ back \in Seq(HashByte)
      /\ Len(front) = Len(f)
  BY CodedType
<1>3. Len(f) = Block * c
  BY GcmAssumption DEF Behind
<1> HIDE DEF front, back
<1>4. Padded(front \o back) = Padded(front) \o Padded(back)
  BY <1>2, <1>3, PaddedJoin
<1>5. QED
  BY <1>1, <1>4, Zenon DEF front, back

-----------------------------------------------------------------------------
(* The steps that hash nothing.                                            *)

(* A call that is no getTag, or whose getTag was refused, delivers no tag. *)
LEMMA NoTagNow ==
  ASSUME ret'.op # "get_tag" \/ ret'.err \notin {"NONE", "TAG_MISMATCH"}
  PROVE  TagIsGcm' /\ OnlyGenuineAccepted'
BY DEF TagIsGcm, OnlyGenuineAccepted, TagDelivered

(* Nor does GHASH change unless data, text, key or IV do.                  *)
LEMMA SameHash ==
  ASSUME TagInv,
         regular' /\ tagReg' = <<>> =>
           /\ regular /\ tagReg = <<>> /\ isEncrypt' = isEncrypt
           /\ UNCHANGED <<multi, key, iv, ctr, ghash, addLen, aadBuf, aadDone>>
           /\ UNCHANGED <<partial, aad, fed, dir>>
  PROVE  HashSoFar'
<1> SUFFICES ASSUME regular', tagReg' = <<>>
             PROVE  Hashing'
  BY DEF HashSoFar
<1>1. Hashing
  BY DEF TagInv, HashSoFar
<1>2. /\ isEncrypt' = isEncrypt
      /\ multi' = multi /\ key' = key /\ iv' = iv /\ ctr' = ctr /\ ghash' = ghash
      /\ addLen' = addLen /\ aadBuf' = aadBuf /\ aadDone' = aadDone
      /\ partial' = partial /\ aad' = aad /\ fed' = fed /\ dir' = dir
  OBVIOUS
<1>3. AadHashed' = AadHashed /\ Message' = Message
  BY <1>2 DEF AadHashed, Message
<1>4. \A w : WholeBlocks(w)' = WholeBlocks(w) /\ Coded(w)' = Coded(w)
  BY <1>2, <1>3 DEF WholeBlocks, Coded
<1>5. QED
  BY <1>1, <1>2, <1>3, <1>4, Zenon DEF Hashing

(* A call that was refused.                                                *)
LEMMA QuietHashes ==
  ASSUME TagInv, UNCHANGED <<multi, session, aadVars, textVars, tagVars, history>>,
         ret'.op # "get_tag" \/ ret'.err \notin {"NONE", "TAG_MISMATCH"}
  PROVE  TagInv'
<1>1. /\ UNCHANGED <<multi, state, key, iv, start, tagLength, addLen, aadBuf, aadDone>>
      /\ UNCHANGED <<ctr, dataLen, partial, isEncrypt, ghash, tagReg>>
      /\ UNCHANGED <<aad, fed, got, dir, breaks>>
  BY DEF session, aadVars, textVars, tagVars, history
<1>2. regular' => regular
  BY <1>1 DEF regular
<1>3. HashSoFar'
  BY <1>1, <1>2, SameHash
<1>4. QED
  BY <1>3, NoTagNow DEF TagInv

(* Nothing at all happens.                                                 *)
LEMMA StutterHashes ==
  ASSUME TagInv, UNCHANGED vars
  PROVE  TagInv'
<1>1. /\ UNCHANGED <<multi, state, key, iv, start, tagLength, addLen, aadBuf, aadDone>>
      /\ UNCHANGED <<ctr, dataLen, partial, isEncrypt, ghash, tagReg>>
      /\ UNCHANGED <<aad, fed, got, dir, breaks, ret>>
  BY DEF vars, session, aadVars, textVars, tagVars, history
<1>2. regular' = regular /\ GenuineTag' = GenuineTag /\ AadCurrent' = AadCurrent
      /\ TagDelivered' = TagDelivered
  BY <1>1 DEF regular, GenuineTag, AadCurrent, TagDelivered, Message
<1>3. HashSoFar'
  BY <1>1, <1>2, SameHash
<1>4. TagIsGcm' /\ OnlyGenuineAccepted'
  BY <1>1, <1>2 DEF TagInv, TagIsGcm, OnlyGenuineAccepted
<1>5. QED
  BY <1>3, <1>4 DEF TagInv

(* It holds at first.                                                      *)
LEMMA InitHashes ==
  ASSUME Init
  PROVE  TagInv
<1>1. ~regular
  BY DEF Init, regular
<1>2. QED
  BY <1>1 DEF TagInv, HashSoFar, TagIsGcm, OnlyGenuineAccepted

-----------------------------------------------------------------------------
(* The steps that may hash.                                                *)

(* An init with a bad IV: round keys may change, but the message is over.  *)
LEMMA InitBadIvHashes ==
  ASSUME IInv, TagInv, NEW k \in Keys \cup BadKeys \cup {NoKey},
         NEW v \in Ivs \cup BadIvs \cup {NoIv}, InitBadIv(k, v)
  PROVE  TagInv'
<1>1. /\ UNCHANGED <<multi, iv, start, addLen, aadBuf, aadDone>>
      /\ UNCHANGED <<ctr, partial, isEncrypt, ghash, tagReg, aad, fed, dir>>
      /\ key' = (IF k = NoKey THEN key ELSE k)
      /\ IF k = NoKey THEN breaks' = breaks ELSE breaks' = breaks + 1
      /\ ret'.op = "init"
  BY DEF InitBadIv, Kept, aadVars, textVars, tagVars, Counted, Returned
<1>2. breaks \in Nat
  BY GcmAssumption DEF IInv, TypeOK
<1>3. regular' => regular /\ key' = key
  BY <1>1, <1>2 DEF regular
<1>4. HashSoFar'
  BY <1>1, <1>3, SameHash
<1>5. QED
  BY <1>1, <1>4, NoTagNow DEF TagInv

(* A successful init starts from nothing.                                  *)
LEMMA InitGoodHashes ==
  ASSUME IInv, IInv', TagInv, NEW k \in Keys \cup BadKeys \cup {NoKey},
         NEW v \in Ivs \cup BadIvs \cup {NoIv}, InitGood(k, v)
  PROVE  TagInv'
<1>1. ClearStreaming /\ multi' = multi /\ ret'.op = "init"
  BY DEF InitGood, Returned
<1> SUFFICES HashSoFar'
  BY <1>1, NoTagNow DEF TagInv
<1>2. CASE state' = "Ready"
  <2>1. /\ ctr' = 0 /\ ghash' = <<>> /\ aad' = <<>> /\ fed' = <<>> /\ dir' = "none"
    BY <1>2 DEF InitGood, InitGcm
  <2>2. Coded(<<>>)' = <<>>
    BY NothingHashed DEF Coded
  <2>3. CASE multi
    <3>1. partial' = <<>> /\ aadBuf' = <<>> /\ aadDone' = FALSE
      BY <1>1, <2>3 DEF ClearStreaming
    <3>2. AadHashed' = <<>>
      BY <1>1, <2>3, <3>1, Zenon DEF AadHashed
    <3>3. Behind(<<>>, 0, <<>>)
      BY GcmAssumption DEF Behind
    <3>4. WholeBlocks(<<>>)' /\ ghash' = AadHashed' \o Padded(Coded(<<>>)')
      BY <2>1, <2>2, <3>1, <3>2, <3>3, NothingHashed DEF WholeBlocks
    <3>5. <<>> \in Seq(Nat)
      OBVIOUS
    <3>6. Hashing'
      BY <1>1, <2>1, <2>3, <3>1, <3>4, <3>5, Zenon DEF Hashing
    <3>7. QED
      BY <3>6 DEF HashSoFar
  <2>4. CASE ~multi
    <3>1. AadHashed' = <<>>
      BY <1>1, <2>1, <2>4, NothingHashed DEF AadHashed
    <3>2. ghash' = AadHashed' \o Padded(Coded(<<>>)')
      BY <2>1, <2>2, <3>1, NothingHashed
    <3>3. Hashing'
      BY <1>1, <2>1, <2>4, <3>2, Zenon DEF Hashing
    <3>4. QED
      BY <3>3 DEF HashSoFar
  <2>5. QED
    BY <2>3, <2>4
<1>3. CASE state' # "Ready"
  BY <1>3 DEF IInv, ReadyMeansKeyed, HashSoFar
<1>4. QED
  BY <1>2, <1>3

(* Additional data: buffered, or hashed before any text.                   *)
LEMMA SetAadHashes ==
  ASSUME IInv, TagInv, NEW n \in 1 .. MaxAad, SetAadAccepted(n)
  PROVE  TagInv'
<1> DEFINE a == [i \in 1 .. n |-> 100 + Len(aad) + i]
<1>1. /\ BufferAad(a) \/ HashAad(a)
      /\ aad' = aad \o a
      /\ Counted(dir = "none" /\ tagReg = <<>> /\ (multi \/ aad = <<>>))
      /\ UNCHANGED <<multi, key, iv, start>>
      /\ UNCHANGED <<ctr, partial, isEncrypt, tagReg, fed, dir>>
      /\ ret'.op = "set_aad"
  BY DEF SetAadAccepted, session, textVars, Returned
<1>2. TypeRest
  BY TypeParts DEF IInv
<1>3. a \in Seq(Nat)
  <2>1. Len(aad) \in Nat /\ n \in Nat
    BY <1>2, LenProperties, GcmAssumption DEF TypeRest
  <2>2. a \in [1 .. n -> Nat]
    BY <2>1
  <2>3. QED
    BY <2>1, <2>2, FunctionIsSeq
<1> HIDE DEF a
<1>4. SUFFICES ASSUME regular', tagReg' = <<>>
               PROVE  Hashing'
  BY <1>1, NoTagNow DEF TagInv, HashSoFar
<1>5. regular /\ dir = "none" /\ tagReg = <<>> /\ (multi \/ aad = <<>>)
  BY <1>1, <1>2, <1>4, GcmAssumption DEF Counted, TypeRest, regular
<1>6. Hashing
  BY <1>5 DEF TagInv, HashSoFar
<1>7. Coded(<<>>) = <<>> /\ Coded(<<>>)' = <<>> /\ fed' = <<>> /\ fed = <<>>
  BY <1>1, <1>5, <1>6, NothingHashed DEF Coded, Hashing
<1>8. CASE multi
  <2>1. BufferAad(a)
    BY <1>1, <1>8 DEF HashAad
  <2>2. /\ aadBuf' = aad' /\ addLen' = Len(aad')
        /\ ghash' = ghash /\ aadDone' = aadDone /\ ~aadDone
    BY <1>1, <1>6, <1>8, <2>1 DEF BufferAad, Hashing
  <2>3. AadHashed = <<>> /\ AadHashed' = <<>>
    BY <1>1, <1>8, <2>2, Zenon DEF AadHashed
  <2>4. PICK w \in Seq(Nat) : WholeBlocks(w) /\ ghash = AadHashed \o Padded(Coded(w))
    BY <1>6, <1>8 DEF Hashing
  <2>5. WholeBlocks(w)' /\ Coded(w)' = Coded(w)
    BY <1>1, <2>4 DEF WholeBlocks, Coded, Message
  <2>6. WholeBlocks(w)' /\ ghash' = AadHashed' \o Padded(Coded(w)')
    BY <2>2, <2>3, <2>4, <2>5
  <2>7. QED
    BY <1>1, <1>5, <1>7, <1>8, <2>2, <2>6, Zenon DEF Hashing
<1>9. CASE ~multi
  <2>1. HashAad(a)
    BY <1>1, <1>9 DEF BufferAad
  <2>2. aad' = a
    BY <1>1, <1>3, <1>5, <1>9, ConcatEmptySeq
  <2>3. /\ addLen' = Len(aad')
        /\ ghash' = ghash \o Padded(Raw(aad'))
    BY <1>5, <2>1, <2>2 DEF HashAad, Absorb, regular
  <2>4. AadHashed = <<>> /\ AadHashed' = Padded(Raw(aad'))
    BY <1>1, <1>5, <1>9, NothingHashed DEF AadHashed
  <2>5. ghash = <<>>
    BY <1>6, <1>7, <1>9, <2>4, NothingHashed DEF Hashing
  <2>6. Padded(Raw(aad')) \in Seq(Seq(HashByte))
    BY <1>3, <2>2, RawType, PaddedType
  <2>7. ghash' = AadHashed' \o Padded(Coded(fed)')
    <3>1. Padded(Coded(fed)') = <<>>
      BY <1>7, NothingHashed DEF Coded
    <3>2. ghash' = Padded(Raw(aad'))
      BY <2>3, <2>5, <2>6, ConcatEmptySeq
    <3>3. QED
      BY <2>4, <2>6, <3>1, <3>2, ConcatEmptySeq
  <2>8. QED
    BY <1>1, <1>5, <1>7, <1>9, <2>3, <2>7, Zenon DEF Hashing
<1>10. QED
  BY <1>8, <1>9

(* A call too early is no message's.                                       *)
LEMMA CryptRefusedHashes ==
  ASSUME IInv, TagInv, NEW d, CryptRefused(d)
  PROVE  TagInv'
<1>1. /\ state # "Ready" /\ state' = state
      /\ ret'.op = "crypt"
  BY DEF CryptRefused, session, Returned
<1>2. ~regular'
  <2>1. UNCHANGED <<start, breaks>>
    BY DEF CryptRefused, session, history
  <2>2. QED
    BY <1>1, <2>1 DEF IInv, ReadyMeansKeyed, regular
<1>3. QED
  BY <1>1, <1>2, NoTagNow DEF TagInv, HashSoFar

(* The tag length is in no hash.                                           *)
LEMMA SetTagLengthHashes ==
  ASSUME IInv, TagInv, NEW n \in TagSizes, SetTagLength(n)
  PROVE  TagInv'
<1>1. ret'.op = "set_tag_length"
  BY DEF SetTagLength, Returned
<1>2. /\ UNCHANGED <<multi, state, key, iv, start, addLen, aadBuf, aadDone>>
      /\ UNCHANGED <<ctr, dataLen, partial, isEncrypt, ghash, tagReg>>
      /\ UNCHANGED <<aad, fed, got, dir, breaks>>
  BY DEF SetTagLength, session, aadVars, textVars, tagVars, history
<1>3. regular' => regular
  BY <1>2 DEF regular
<1>4. HashSoFar'
  BY <1>2, <1>3, SameHash
<1>5. QED
  BY <1>1, <1>4, NoTagNow DEF TagInv

(* Concatenation is associative: the library's fact for hashed blocks.     *)
LEMMA ConcatHashed ==
  \A s, t, u \in Seq(Seq(HashByte)) : (s \o t) \o u = s \o (t \o u)
<1> DEFINE T == Seq(HashByte)
<1> HIDE DEF T
<1>1. \A s, t, u \in Seq(T) : (s \o t) \o u = s \o (t \o u)
  <2> TAKE s, t, u \in Seq(T)
  <2> QED
    BY ConcatAssociative
<1>2. QED
  BY <1>1 DEF T

LEMMA NothingJoined ==
  ASSUME NEW a \in Seq(Nat), NEW b \in Seq(Nat), a \o b = <<>>
  PROVE  a = <<>> /\ b = <<>>
<1>1. Len(a) \in Nat /\ Len(b) \in Nat /\ Len(a \o b) = Len(a) + Len(b)
  BY LenProperties, ConcatProperties
<1>2. Len(a \o b) = 0
  OBVIOUS
<1>3. Len(a) = 0 /\ Len(b) = 0
  BY ONLY <1>1, <1>2
<1>4. QED
  BY <1>3, EmptySeq

(* Ciphertext of the next text, hashed behind data and whole blocks.       *)
LEMMA HashGrows ==
  ASSUME TypeRest, start = Message, NEW d, NEW w \in Seq(Nat),
         Behind(w, ctr, <<>>), NEW u \in Seq(Nat)
  PROVE  (Padded(Raw(aad)) \o Padded(CodedFrom(d, key, Message, 0, w)))
            \o Padded(CodedFrom(d, key, Message, ctr, u))
           = Padded(Raw(aad)) \o Padded(CodedFrom(d, key, Message, 0, w \o u))
<1> DEFINE ha == Padded(Raw(aad))
           hw == Padded(CodedFrom(d, key, Message, 0, w))
           hu == Padded(CodedFrom(d, key, Message, ctr, u))
           hwu == Padded(CodedFrom(d, key, Message, 0, w \o u))
<1>1. /\ key \in Keys \cup {NoKey} /\ Message \in Starts /\ ctr \in Nat
      /\ aad \in Seq(Nat) /\ 0 \in Nat
  BY DEF TypeRest
<1>2. /\ ha \in Seq(Seq(HashByte)) /\ hw \in Seq(Seq(HashByte))
      /\ hu \in Seq(Seq(HashByte))
  BY <1>1, RawType, CodedType, PaddedType
<1>3. hw \o hu = hwu
  <2>1. key \in Keys \cup {NoKey} /\ Message \in Starts /\ ctr \in Nat
    BY <1>1
  <2>2. QED
    BY ONLY <2>1, w \in Seq(Nat), u \in Seq(Nat), Behind(w, ctr, <<>>), HashJoin
<1> HIDE DEF ha, hw, hu, hwu
<1>4. (ha \o hw) \o hu = ha \o (hw \o hu)
  BY <1>2, ConcatHashed, Zenon
<1>5. QED
  BY <1>3, <1>4, Zenon DEF ha, hw, hu, hwu

(* A text, at once or streaming.                                           *)
LEMMA CryptHashes ==
  ASSUME IInv, TagInv, NEW d \in {"encrypt", "decrypt"}, NEW n \in 0 .. MaxText,
         CryptAccepted(d, n)
  PROVE  TagInv'
<1> DEFINE m == [i \in 1 .. n |-> Len(fed) + i]
           CodedOf(t) == CodedFrom(d, key, Message, 0, t)
           ha == Padded(Raw(aad))
           enc == (d = "encrypt")
<1>1. /\ isEncrypt' = enc
      /\ CryptAtOnce(d, m) \/ CryptStreaming(d, m)
      /\ fed' = fed \o m
      /\ dir' = d
      /\ Counted(dir \in {"none", d} /\ tagReg = <<>> /\ (multi \/ dataLen % Block = 0))
      /\ UNCHANGED <<multi, key, iv, start, addLen, aadBuf, tagReg, aad>>
      /\ ret'.op = "crypt"
  BY DEF CryptAccepted, session, Returned
<1>2. TypeRest
  BY TypeParts DEF IInv
<1>3. m \in Seq(Nat)
  <2>1. Len(fed) \in Nat /\ n \in Nat
    BY <1>2, LenProperties, GcmAssumption DEF TypeRest
  <2>2. m \in [1 .. n -> Nat]
    BY <2>1
  <2>3. QED
    BY <2>1, <2>2, FunctionIsSeq
<1>0. enc <=> d # "decrypt"
  OBVIOUS
<1> HIDE DEF m, enc
<1>4. SUFFICES ASSUME regular', tagReg' = <<>>
               PROVE  Hashing'
  BY <1>1, NoTagNow DEF TagInv, HashSoFar
<1>5. /\ regular /\ dir \in {"none", d} /\ tagReg = <<>> /\ start # NoStart
      /\ multi \/ dataLen % Block = 0
  BY <1>1, <1>2, <1>4, GcmAssumption DEF Counted, TypeRest, regular
<1>6. Hashing /\ start = Message
  BY <1>5 DEF TagInv, HashSoFar, IInv, ReadyMeansKeyed
<1>7. /\ aad \in Seq(Nat) /\ aadBuf \in Seq(Nat) /\ partial \in Seq(Nat)
      /\ fed \in Seq(Nat) /\ ctr \in Nat
      /\ ha \in Seq(Seq(HashByte))
  BY <1>2, RawType, PaddedType DEF TypeRest
<1>8. /\ \A t : Coded(t)' = CodedOf(t)
      /\ dir # "none" => \A t : Coded(t) = CodedOf(t)
      /\ Coded(<<>>) = <<>> /\ CodedOf(<<>>) = <<>>
  BY <1>1, <1>5, NothingHashed DEF Coded, Message
<1> HIDE DEF CodedOf, ha
<1>9. CASE multi
  <2> DEFINE joined == partial \o m
             q == Len(joined) \div Block
             whole == Block * q
             front == SubSeq(joined, 1, whole)
             rest == SubSeq(joined, whole + 1, Len(joined))
  <2>1. /\ ghash' = Absorb(WithAad, Hashed(enc, ctr, front))
        /\ ctr' = ctr + q
        /\ partial' = rest
        /\ aadDone' = TRUE
    BY <1>1, <1>9 DEF CryptStreaming, CryptAtOnce, enc
  <2>2. joined \in Seq(Nat) /\ Len(joined) \in Nat /\ Block \in Nat \ {0}
    BY <1>3, <1>7, ConcatProperties, LenProperties, GcmAssumption
  <2>3. q \in Nat /\ whole \in 0 .. Len(joined)
    <3> DEFINE r == Len(joined) % Block
    <3> HIDE DEF joined
    <3>1. q \in Nat /\ r \in 0 .. (Block - 1) /\ Len(joined) = Block * q + r
      BY <2>2, DivMod
    <3> HIDE DEF q, r
    <3>2. QED
      BY <2>2, <3>1
  <2>4. PICK u \in Seq(Nat), v \in Seq(Nat) :
          u = front /\ v = rest /\ Len(u) = whole /\ u \o v = joined
    <3>1. /\ front \in Seq(Nat) /\ rest \in Seq(Nat) /\ Len(front) = whole
          /\ front \o rest = joined
      <4> HIDE DEF joined, whole
      <4>1. joined \in Seq(Nat) /\ whole \in 0 .. Len(joined)
        BY <2>2, <2>3
      <4>2. front \in Seq(Nat) /\ rest \in Seq(Nat) /\ Len(front) = whole
        BY ONLY <4>1, CutBounds
      <4>3. front \o rest = joined
        BY ONLY <4>1, CutAndJoin
      <4>4. QED
        BY <4>2, <4>3
    <3> HIDE DEF front, rest
    <3>2. QED
      BY <3>1, Zenon
  <2> HIDE DEF front, rest, q
  <2>5. PICK w \in Seq(Nat) : WholeBlocks(w) /\ ghash = AadHashed \o Padded(Coded(w))
    BY <1>6, <1>9 DEF Hashing
  <2>6. WithAad = ha \o Padded(CodedOf(w))
    <3>1. CASE aadDone
      <4>1. dir # "none"
        BY <1>6, <1>9, <3>1 DEF Hashing
      <4>2. WithAad = ghash /\ AadHashed = ha
        BY <3>1 DEF WithAad, AadHashed, ha
      <4>3. QED
        BY <1>8, <2>5, <4>1, <4>2
    <3>2. CASE ~aadDone
      <4>1. dir = "none"
        BY <1>6, <1>9, <3>2, Zenon DEF Hashing
      <4>2. fed = <<>>
        BY <1>6, <4>1 DEF Hashing
      <4>3. w = <<>>
        BY <1>7, <2>5, <4>2, NothingJoined DEF WholeBlocks
      <4>4. AadHashed = <<>>
        BY <1>9, <3>2 DEF AadHashed
      <4>5. Padded(Coded(w)) = <<>> /\ Padded(CodedOf(w)) = <<>>
        BY <1>8, <4>3, NothingHashed
      <4>6. ghash = <<>>
        BY <2>5, <4>4, <4>5
      <4>7. WithAad = ghash \o ha
        <5>1. aadBuf = aad
          BY <1>6, <1>9 DEF Hashing
        <5>2. WithAad = Absorb(ghash, ha)
          BY <1>9, <3>2, <5>1, Zenon DEF WithAad, ha
        <5>3. QED
          BY <1>5, <5>2 DEF Absorb, regular
      <4>8. QED
        BY <1>7, <4>5, <4>6, <4>7, ConcatEmptySeq
    <3>3. QED
      BY <3>1, <3>2
  <2>7. Behind(w, ctr, <<>>)
    BY <2>5 DEF WholeBlocks
  <2>8. ghash' = ha \o Padded(CodedOf(w \o u))
    <3>1. WithAad = Padded(Raw(aad)) \o Padded(CodedFrom(d, key, Message, 0, w))
      BY <2>6, Zenon DEF ha, CodedOf
    <3>2. (Padded(Raw(aad)) \o Padded(CodedFrom(d, key, Message, 0, w)))
             \o Padded(CodedFrom(d, key, Message, ctr, u))
            = Padded(Raw(aad)) \o Padded(CodedFrom(d, key, Message, 0, w \o u))
      BY <1>2, <1>6, <2>7, HashGrows, Zenon
    <3>3. Hashed(enc, ctr, u) = Padded(CodedFrom(d, key, Message, ctr, u))
      BY <1>0, <1>6, Zenon DEF Hashed, CodedFrom
    <3>4. ghash' = WithAad \o Padded(CodedFrom(d, key, Message, ctr, u))
      BY <1>5, <2>1, <2>4, <3>3, Zenon DEF Absorb
    <3>5. QED
      BY <3>1, <3>2, <3>4, Zenon DEF ha, CodedOf
  <2>9. WholeBlocks(w \o u)'
    <3>1. fed \o m = (w \o u) \o v
      <4>1. fed \o m = (w \o partial) \o m
        BY <2>5 DEF WholeBlocks
      <4>2. (w \o partial) \o m = w \o joined
        <5>1. w \in Seq(Nat) /\ partial \in Seq(Nat) /\ m \in Seq(Nat)
          BY <1>3, <1>7
        <5>2. QED
          BY ONLY <5>1, ConcatBytes, Zenon DEF joined
      <4>3. w \o (u \o v) = (w \o u) \o v
        BY <2>4, ConcatBytes, Zenon
      <4> HIDE DEF joined
      <4>4. QED
        BY <2>4, <4>1, <4>2, <4>3
    <3>2. Len(w \o u) = Len(w) + Len(u)
      BY <2>4, ConcatProperties
    <3>3. Block * (ctr + q) = Block * ctr + Block * q /\ Block * ctr \in Nat
          /\ Block * q \in Nat
      BY <1>7, <2>2, <2>3
    <3> HIDE DEF joined
    <3>4. Len(w) = Block * ctr
      BY <2>7, <3>3 DEF Behind
    <3>5. Behind(w \o u, ctr + q, <<>>)
      BY <2>4, <3>2, <3>3, <3>4 DEF Behind
    <3>6. QED
      BY <1>1, <2>1, <2>4, <3>1, <3>5, Zenon DEF WholeBlocks
  <2>10. w \o u \in Seq(Nat)
    BY <2>4, ConcatProperties
  <2>11. AadHashed' = ha
    BY <1>1, <2>1 DEF AadHashed, ha
  <2>12. ghash' = AadHashed' \o Padded(Coded(w \o u)')
    BY <1>8, <2>8, <2>11, Zenon
  <2>13. \E t \in Seq(Nat) : WholeBlocks(t)' /\ ghash' = AadHashed' \o Padded(Coded(t)')
    BY <2>9, <2>10, <2>12, Zenon
  <2>14. d # "none"
    OBVIOUS
  <2>15. QED
    BY <1>0, <1>1, <1>6, <1>9, <2>1, <2>13, <2>14, Zenon DEF Hashing
<1>10. CASE ~multi
  <2>1. /\ ghash' = Absorb(ghash, Hashed(enc, ctr, m))
        /\ aadDone' = aadDone
    BY <1>1, <1>10 DEF CryptStreaming, CryptAtOnce, enc
  <2>2. AadHashed = ha /\ AadHashed' = ha
    BY <1>1, <1>10 DEF AadHashed, ha
  <2>3. ghash = ha \o Padded(CodedOf(fed))
    <3>1. CASE dir = "none"
      BY <1>6, <1>8, <1>10, <2>2, <3>1 DEF Hashing
    <3>2. CASE dir # "none"
      BY <1>6, <1>8, <1>10, <2>2, <3>2 DEF Hashing
    <3>3. QED
      BY <3>1, <3>2
  <2>4. Behind(fed, ctr, <<>>)
    BY <1>5, <1>10, AtBoundary
  <2>5. ghash' = ha \o Padded(CodedOf(fed \o m))
    <3>1. ghash = Padded(Raw(aad)) \o Padded(CodedFrom(d, key, Message, 0, fed))
      BY <2>3, Zenon DEF ha, CodedOf
    <3>2. (Padded(Raw(aad)) \o Padded(CodedFrom(d, key, Message, 0, fed)))
             \o Padded(CodedFrom(d, key, Message, ctr, m))
            = Padded(Raw(aad)) \o Padded(CodedFrom(d, key, Message, 0, fed \o m))
      BY <1>2, <1>3, <1>6, <1>7, <2>4, HashGrows, Zenon
    <3>3. Hashed(enc, ctr, m) = Padded(CodedFrom(d, key, Message, ctr, m))
      BY <1>0, <1>6, Zenon DEF Hashed, CodedFrom
    <3>4. ghash' = ghash \o Padded(CodedFrom(d, key, Message, ctr, m))
      BY <1>5, <2>1, <3>3, Zenon DEF Absorb
    <3>5. QED
      BY <3>1, <3>2, <3>4, Zenon DEF ha, CodedOf
  <2>6. ghash' = AadHashed' \o Padded(Coded(fed)')
    <3>1. Coded(fed)' = CodedOf(fed \o m)
      BY <1>1 DEF Coded, CodedOf, Message
    <3>2. QED
      BY <2>2, <2>5, <3>1
  <2>7. d # "none"
    OBVIOUS
  <2>8. QED
    BY <1>0, <1>1, <1>6, <1>10, <2>6, <2>7, Zenon DEF Hashing
<1>11. QED
  BY <1>9, <1>10

(* Appending is joining a sequence of one: the library's fact for blocks.  *)
LEMMA AppendBlock ==
  ASSUME NEW g \in Seq(Seq(HashByte)), NEW b \in Seq(HashByte)
  PROVE  Append(g, b) = g \o <<b>>
<1> DEFINE T == Seq(HashByte)
<1>1. g \in Seq(T) /\ b \in T
  OBVIOUS
<1> HIDE DEF T
<1>2. QED
  BY <1>1, AppendIsConcat

(***************************************************************************)
(* The first getTag of a message in order closes GHASH over its data, its  *)
(* ciphertext and their lengths.                                           *)
(***************************************************************************)
LEMMA ClosedIsGcm ==
  ASSUME IInv, regular, tagReg = <<>>, Hashing, AadCurrent
  PROVE  Closed = Append(Padded(Raw(aad)) \o Padded(Coded(fed)),
                         LengthBlock(Len(aad), Len(fed)))
<1> DEFINE ha == Padded(Raw(aad))
           hc == Padded(Coded(fed))
<1>1. TypeRest
  BY TypeParts DEF IInv
<1>2. start = Message /\ start # NoStart /\ dataLen = Len(fed)
  BY DEF IInv, ReadyMeansKeyed, Position, regular
<1>3. /\ aad \in Seq(Nat) /\ partial \in Seq(Nat) /\ fed \in Seq(Nat)
      /\ key \in Keys \cup {NoKey} /\ Message \in Starts /\ 0 \in Nat
  BY <1>1, <1>2 DEF TypeRest
<1>4. ha \in Seq(Seq(HashByte)) /\ hc \in Seq(Seq(HashByte))
  BY <1>3, RawType, CodedType, PaddedType DEF Coded
<1>5. Coded(<<>>) = <<>>
  BY NothingHashed DEF Coded
<1>6. addLen = Len(aad)
  <2>1. aad = <<>> => addLen = 0
    BY DEF AadCurrent
  <2>2. aad # <<>> => addLen = Len(aad)
    BY DEF Hashing
  <2>3. QED
    BY <2>1, <2>2
<1>7. dataLen = 0 => fed = <<>>
  BY <1>2, <1>3, EmptySeq
<1>8. Flushed = ha \o hc
  <2>1. CASE multi
    <3>1. PICK w \in Seq(Nat) : WholeBlocks(w) /\ ghash = AadHashed \o Padded(Coded(w))
      BY <2>1 DEF Hashing
    <3>2. CASE dataLen = 0
      <4>1. fed = <<>> /\ w = <<>> /\ partial = <<>>
        BY <1>3, <1>7, <3>1, <3>2, NothingJoined DEF WholeBlocks
      <4>2. Padded(Coded(w)) = <<>> /\ hc = <<>>
        BY <1>5, <4>1, NothingHashed
      <4>3. WithAad = ha
        <5>1. CASE aadDone
          <6>1. AadHashed = ha /\ WithAad = ghash
            BY <5>1 DEF AadHashed, WithAad
          <6>2. QED
            BY <1>4, <3>1, <4>2, <6>1, ConcatEmptySeq
        <5>2. CASE ~aadDone
          <6>1. AadHashed = <<>>
            BY <2>1, <5>2 DEF AadHashed
          <6>2. ghash = <<>>
            BY <3>1, <4>2, <6>1
          <6>3. aadBuf = aad
            BY <2>1 DEF Hashing
          <6>4. WithAad = ghash \o ha
            BY <1>2, <2>1, <5>2, <6>3, Zenon DEF WithAad, Absorb
          <6>5. QED
            BY <1>4, <6>2, <6>4, ConcatEmptySeq
        <5>3. QED
          BY <5>1, <5>2
      <4>4. Flushed = WithAad
        BY <3>2, <4>1, Zenon DEF Flushed
      <4>5. QED
        BY <1>4, <4>2, <4>3, <4>4, ConcatEmptySeq
    <3>3. CASE dataLen # 0
      <4>1. fed # <<>>
        BY <1>2, <3>3
      <4>2. dir # "none" /\ aadDone /\ isEncrypt = (dir = "encrypt")
        BY <2>1, <4>1 DEF Hashing
      <4>3. dir \in {"encrypt", "decrypt"}
        BY <1>1, <4>2 DEF TypeRest
      <4>4. ghash = ha \o Padded(Coded(w))
        BY <3>1, <4>2 DEF AadHashed
      <4>5. CASE partial = <<>>
        <5>1. fed = w
          BY <3>1, <4>5, ConcatEmptySeq DEF WholeBlocks
        <5>2. Flushed = ghash
          BY <3>3, <4>5, Zenon DEF Flushed
        <5>3. QED
          BY <4>4, <5>1, <5>2, Zenon
      <4>6. CASE partial # <<>>
        <5>1. Flushed = Absorb(ghash, Hashed(isEncrypt, ctr, partial))
          BY <2>1, <3>3, <4>2, <4>6, Zenon DEF Flushed
        <5>2. Hashed(isEncrypt, ctr, partial)
                = Padded(CodedFrom(dir, key, Message, ctr, partial))
          BY <1>2, <4>2, <4>3 DEF Hashed, CodedFrom
        <5>3. ghash = Padded(Raw(aad)) \o Padded(CodedFrom(dir, key, Message, 0, w))
          BY <4>4 DEF Coded
        <5>4. Behind(w, ctr, <<>>) /\ fed = w \o partial
          BY <3>1 DEF WholeBlocks
        <5>5. (Padded(Raw(aad)) \o Padded(CodedFrom(dir, key, Message, 0, w)))
                 \o Padded(CodedFrom(dir, key, Message, ctr, partial))
                = Padded(Raw(aad)) \o Padded(CodedFrom(dir, key, Message, 0, w \o partial))
          BY <1>1, <1>2, <1>3, <5>4, HashGrows, Zenon
        <5>6. QED
          BY <1>2, <5>1, <5>2, <5>3, <5>4, <5>5, Zenon DEF Coded, Absorb
      <4>7. QED
        BY <4>5, <4>6
    <3>4. QED
      BY <3>2, <3>3
  <2>2. CASE ~multi
    <3>1. Flushed = ghash
      BY <2>2, Zenon DEF Flushed, WithAad
    <3>2. AadHashed = ha
      BY <2>2 DEF AadHashed
    <3>3. QED
      BY <2>2, <3>1, <3>2 DEF Hashing
  <2>3. QED
    BY <2>1, <2>2
<1>9. LengthBlock(addLen, dataLen) \in Seq(HashByte)
  <2>1. /\ [ks |-> <<"length">>, b |-> addLen] \in HashByte
        /\ [ks |-> <<"length">>, b |-> dataLen] \in HashByte
    BY <1>1 DEF TypeRest, HashByte
  <2>2. QED
    BY <2>1 DEF LengthBlock
<1>10. Closed = Flushed \o <<LengthBlock(addLen, dataLen)>>
  BY <1>2, Zenon DEF Closed, Absorb
<1>11. ha \o hc \in Seq(Seq(HashByte))
  <2> HIDE DEF ha, hc
  <2>1. QED
    BY <1>4
<1>12. Append(ha \o hc, LengthBlock(addLen, dataLen))
         = (ha \o hc) \o <<LengthBlock(addLen, dataLen)>>
  BY <1>9, <1>11, AppendBlock, Zenon
<1>13. QED
  BY <1>2, <1>6, <1>8, <1>10, <1>12, Zenon

(* The tag.                                                                *)
LEMMA GetTagHashes ==
  ASSUME IInv, TagInv, NEW given, GetTagComputed(given)
  PROVE  TagInv'
<1> DEFINE t == [start |-> start, folds |-> tagReg']
<1>1. /\ tagReg' = IF start = NoStart THEN <<>> ELSE Append(tagReg, Closed)
      /\ Counted(tagReg = <<>>)
      /\ UNCHANGED <<multi, key, iv, start, addLen, isEncrypt, aad, fed, dir>>
      /\ ret' = IF ~isEncrypt /\ given # t
                THEN [op |-> "get_tag", err |-> "TAG_MISMATCH",
                      tag |-> NoTag, given |-> given]
                ELSE [op |-> "get_tag", err |-> "NONE", tag |-> t, given |-> given]
  BY DEF GetTagComputed, ComputedTag, session
<1> HIDE DEF t
<1>2. TypeRest
  BY TypeParts DEF IInv
<1>3. CASE ~regular'
  BY <1>3 DEF TagInv, HashSoFar, TagIsGcm, OnlyGenuineAccepted
<1>4. CASE regular'
  <2>1. regular /\ tagReg = <<>> /\ start # NoStart
    BY <1>1, <1>2, <1>4, GcmAssumption DEF Counted, TypeRest, regular
  <2>2. Hashing /\ start = Message
    BY <2>1 DEF TagInv, HashSoFar, IInv, ReadyMeansKeyed
  <2>3. tagReg' = <<Closed>>
    BY <1>1, <2>1
  <2>4. HashSoFar'
    BY <2>3 DEF HashSoFar
  <2>5. AadCurrent' = AadCurrent
    BY <1>1 DEF AadCurrent
  <2>6. ASSUME AadCurrent
        PROVE  t = GenuineTag /\ GenuineTag' = GenuineTag
    <3> DEFINE c == IF dir = "decrypt" THEN Raw(fed) ELSE Masked(key, Message, 0, fed)
    <3>1. c = Coded(fed)
      BY DEF Coded, CodedFrom
    <3>2. Len(c) = Len(fed)
      <4>1. /\ key \in Keys \cup {NoKey} /\ Message \in Starts /\ 0 \in Nat
            /\ fed \in Seq(Nat)
        BY <1>2, <2>2 DEF TypeRest
      <4>2. QED
        BY <3>1, <4>1, CodedType DEF Coded
    <3>3. Closed = Append(Padded(Raw(aad)) \o Padded(c), LengthBlock(Len(aad), Len(c)))
      BY <2>1, <2>2, <2>6, <3>1, <3>2, ClosedIsGcm
    <3>4. GenuineTag = TagOf(Message, aad, c)
      BY DEF GenuineTag
    <3> HIDE DEF c
    <3>5. t = GenuineTag
      BY <2>2, <2>3, <3>3, <3>4 DEF t, TagOf
    <3>6. GenuineTag' = GenuineTag
      BY <1>1 DEF GenuineTag, Message
    <3>7. QED
      BY <3>5, <3>6
  <2>7. TagIsGcm'
    BY <1>1, <2>5, <2>6 DEF TagIsGcm, TagDelivered
  <2>8. OnlyGenuineAccepted'
    <3>1. SUFFICES ASSUME AadCurrent, dir = "decrypt"
                   PROVE  /\ ret'.err = "NONE" => ret'.given = GenuineTag
                          /\ ret'.err = "TAG_MISMATCH" => ret'.given # GenuineTag
      BY <1>1, <2>5, <2>6 DEF OnlyGenuineAccepted
    <3>2. ~isEncrypt
      BY <2>2, <3>1 DEF Hashing
    <3>3. t = GenuineTag
      BY <2>6, <3>1
    <3>4. QED
      BY <1>1, <3>2, <3>3
  <2>9. QED
    BY <2>4, <2>7, <2>8 DEF TagInv
<1>5. QED
  BY <1>3, <1>4

-----------------------------------------------------------------------------
(* Every step keeps it.                                                    *)
LEMMA NextHashes ==
  ASSUME IInv, IInv', TagInv, [Next]_vars
  PROVE  TagInv'
<1>1. CASE InitSession
  <2>1. PICK k \in Keys \cup BadKeys \cup {NoKey}, v \in Ivs \cup BadIvs \cup {NoIv} :
          InitBadKey(k) \/ InitBadIv(k, v) \/ InitGood(k, v)
    BY <1>1 DEF InitSession
  <2>2. CASE InitBadKey(k)
    BY <2>2, QuietHashes DEF InitBadKey, Returned
  <2>3. CASE InitBadIv(k, v)
    BY <2>3, InitBadIvHashes
  <2>4. CASE InitGood(k, v)
    BY <2>4, InitGoodHashes
  <2>5. QED
    BY <2>1, <2>2, <2>3, <2>4
<1>2. CASE SetAad
  <2>1. CASE SetAadRefused
    BY <2>1, QuietHashes DEF SetAadRefused, Returned
  <2>2. CASE \E n \in 1 .. MaxAad : SetAadAccepted(n)
    BY <2>2, SetAadHashes
  <2>3. QED
    BY <1>2, <2>1, <2>2 DEF SetAad
<1>3. CASE Crypt
  <2>1. PICK d \in {"encrypt", "decrypt"} :
          CryptRefused(d) \/ \E n \in 0 .. MaxText : CryptAccepted(d, n)
    BY <1>3 DEF Crypt
  <2>2. CASE CryptRefused(d)
    BY <2>2, CryptRefusedHashes
  <2>3. CASE \E n \in 0 .. MaxText : CryptAccepted(d, n)
    BY <2>3, CryptHashes
  <2>4. QED
    BY <2>1, <2>2, <2>3
<1>4. CASE \E n \in TagSizes : SetTagLength(n)
  BY <1>4, SetTagLengthHashes
<1>5. CASE GetTag
  <2>1. PICK n \in TagSizes :
          \/ GetTagRefused(n)
          \/ TagSizeOk(n) /\ \E given \in Received : GetTagComputed(given)
    BY <1>5 DEF GetTag
  <2>2. CASE GetTagRefused(n)
    BY <2>2, QuietHashes DEF GetTagRefused, Returned
  <2>3. CASE \E given \in Received : GetTagComputed(given)
    BY <2>3, GetTagHashes
  <2>4. QED
    BY <2>1, <2>2, <2>3
<1>6. CASE UNCHANGED vars
  BY <1>6, StutterHashes
<1>7. QED
  BY <1>1, <1>2, <1>3, <1>4, <1>5, <1>6 DEF Next

(* GHASH is what the message so far makes it, in every behaviour.          *)
THEOREM TagInvariant == Spec => []TagInv
<1>1. Init => TagInv
  BY InitHashes
<1>2. IInv /\ IInv' /\ TagInv /\ [Next]_vars => TagInv'
  BY NextHashes
<1>3. QED
  BY <1>1, <1>2, InductiveInvariant, PTL DEF Spec

(***************************************************************************)
(* However additional data and text arrived, the tag getTag delivers for a *)
(* message in order is SP 800-38D's, by both builds, both ways.            *)
(***************************************************************************)
THEOREM TagIsTheStandards == Spec => []TagIsGcm
<1>1. TagInv => TagIsGcm
  BY DEF TagInv
<1>2. QED
  BY <1>1, TagInvariant, PTL

(***************************************************************************)
(* Decryption of a message in order accepts the message's own tag and no   *)
(* other, whatever the session did before.                                 *)
(***************************************************************************)
THEOREM OnlyGenuineIsAccepted == Spec => []OnlyGenuineAccepted
<1>1. TagInv => OnlyGenuineAccepted
  BY DEF TagInv
<1>2. QED
  BY <1>1, TagInvariant, PTL
=============================================================================
