------------------------------ MODULE DrbgProofs ------------------------------
(***************************************************************************)
(* What holds of generators and entropy sources for all lengths, retries   *)
(* and bounds: sources are honest, seeds are whole and fresh, the past is  *)
(* safe, reseeding reaches the output, failures change nothing.  That      *)
(* calls return is left to TLC.                                            *)
(***************************************************************************)
EXTENDS Drbg, SequenceTheorems, TLAPS

\* The bytes of a request or of what was kept of one.
Bytes == UNION {[1 .. n -> Nat] : n \in Nat}

Mixed ==
  [kind : {"input", "seed", "reseed"}, ent : Bytes, nonce : Bytes, text : Inputs]

Op == [at : Nat, round : {0, 1}, data : Mixed]

KV == [base : {"zero", "ones"}, ops : Seq(Op), steps : Nat]

\* v is w after at least one new key.
Longer(v, w) ==
  /\ v \in KV
  /\ v.base = w.base
  /\ Len(v.ops) > Len(w.ops)
  /\ \A i \in 1 .. Len(w.ops) : v.ops[i] = w.ops[i]

\* ... and the first of them mixed in d at once.
Starts(v, w, d) ==
  /\ v.ops[Len(w.ops) + 1].data = d
  /\ v.ops[Len(w.ops) + 1].at = w.steps

-----------------------------------------------------------------------------
(* Blocks and sequences.                                                   *)

(* Division with remainder, as the C++ operators / and % compute it on     *)
(* unsigned operands.                                                      *)
LEMMA DivMod ==
  ASSUME NEW B \in Nat \ {0}, NEW n \in Nat
  PROVE  /\ n \div B \in Nat
         /\ n % B \in 0 .. (B - 1)
         /\ n = B * (n \div B) + (n % B)
BY SMT

(* A remainder is determined by any representation q*B + r of the number.  *)
LEMMA ModUnique ==
  ASSUME NEW B \in Nat \ {0}, NEW q \in Nat, NEW r \in 0 .. (B - 1)
  PROVE  (B * q + r) % B = r
BY SMT

(* Adding whole blocks does not change how far into a block one is.        *)
LEMMA ModAddBlocks ==
  ASSUME NEW B \in Nat \ {0}, NEW m \in Nat, NEW n \in Nat, m % B = 0
  PROVE  (m + n) % B = n % B
<1> DEFINE q == m \div B
           p == n \div B
           r == n % B
<1>1. q \in Nat /\ p \in Nat /\ r \in 0 .. (B - 1)
  BY DivMod
<1>2. m = B * q
  BY DivMod
<1>3. n = B * p + r
  BY DivMod
<1> HIDE DEF q, p, r
<1>4. m + n = B * (q + p) + r
  BY <1>1, <1>2, <1>3
<1>5. (B * (q + p) + r) % B = r
  BY <1>1, ModUnique
<1>6. QED
  BY <1>4, <1>5 DEF r

-----------------------------------------------------------------------------
(* Updating the working state.                                             *)

LEMMA TextIsMixed == ASSUME NEW d \in Inputs PROVE Text(d) \in Mixed
<1>1. Nothing \in [1 .. 0 -> Nat]
  BY DEF Nothing
<1>2. Nothing \in Bytes
  BY <1>1 DEF Bytes
<1> QED
  BY <1>2 DEF Text, Mixed

LEMMA KeyedLonger ==
  ASSUME NEW w \in KV, NEW round \in {0, 1}, NEW d \in Mixed, NEW n \in Nat
  PROVE  Longer(Keyed(w, round, d, n), w) /\ Starts(Keyed(w, round, d, n), w, d)
<1> DEFINE op == [at |-> w.steps, round |-> round, data |-> d]
<1>1. w.ops \in Seq(Op) /\ op \in Op /\ w.base \in {"zero", "ones"} /\ w.steps \in Nat
  BY DEF KV, Op
<1>2. /\ Append(w.ops, op) \in Seq(Op)
      /\ Len(Append(w.ops, op)) = Len(w.ops) + 1
      /\ Append(w.ops, op)[Len(w.ops) + 1] = op
      /\ \A i \in 1 .. Len(w.ops) : Append(w.ops, op)[i] = w.ops[i]
      /\ Len(w.ops) \in Nat
  <2> HIDE DEF op
  <2> QED BY <1>1
<1>3. Keyed(w, round, d, n) =
        [base |-> w.base, ops |-> Append(w.ops, op), steps |-> n]
  BY DEF Keyed
<1>4. op.data = d /\ op.at = w.steps
  OBVIOUS
<1> HIDE DEF op
<1> QED
  BY <1>1, <1>2, <1>3, <1>4 DEF Longer, Starts, KV

LEMMA LongerTransitive ==
  ASSUME NEW u, NEW v, NEW w, u.ops \in Seq(Op), v.ops \in Seq(Op), Longer(v, u),
         Longer(w, v)
  PROVE  Longer(w, u)
BY DEF Longer

LEMMA UpdatedLonger ==
  ASSUME NEW w \in KV, NEW d \in Mixed
  PROVE  Longer(Updated(w, d), w) /\ Starts(Updated(w, d), w, d)
<1> DEFINE v == Keyed(w, 0, d, 1)
<1>1. Longer(v, w) /\ Starts(v, w, d) /\ v \in KV
  BY KeyedLonger DEF Longer
<1>2. Longer(Keyed(v, 1, d, 1), v)
  BY <1>1, KeyedLonger
<1>3. Longer(Keyed(v, 1, d, 1), w)
  <2> HIDE DEF v
  <2> QED BY <1>1, <1>2, LongerTransitive DEF KV
<1>4. Starts(Keyed(v, 1, d, 1), w, d)
  <2>1. Len(w.ops) + 1 \in 1 .. Len(v.ops)
    BY <1>1 DEF Longer, KV
  <2> HIDE DEF v
  <2> QED BY <1>1, <1>2, <2>1 DEF Longer, Starts
<1>5. Longer(Keyed(w, 0, d, 0), w) /\ Starts(Keyed(w, 0, d, 0), w, d)
  BY KeyedLonger
<1> QED
  BY <1>1, <1>3, <1>4, <1>5 DEF Updated, HmacUpdate, CtrUpdate

LEMMA RestartedTyped ==
  /\ Restarted \in KV /\ Fresh \in KV
  /\ Restarted.ops = <<>> /\ Restarted.steps = 0
  /\ Len(Restarted.ops) = 0
BY DEF Restarted, Fresh, KV
-----------------------------------------------------------------------------
(* Entropy sources.                                                        *)

LEMMA SmallMod ==
  ASSUME NEW x \in Int, NEW m \in Nat \ {0}
  PROVE  /\ x \in 0 .. (m - 1) => x % m = x
         /\ x = -1 => x % m = m - 1
BY SMT

LEMMA NextStride ==
  ASSUME NEW x \in Nat, NEW m \in Nat \ {0}, x % m = 0
  PROVE  (x + m) % m = 0
<1>1. m % m = 0
  BY SMT
<1> QED
  BY <1>1, ModAddBlocks

LEMMA LastStride ==
  ASSUME NEW x \in Nat, NEW y \in Nat, NEW m \in Nat \ {0},
         x % m = 0, y % m = 0, x <= y, x + m > y
  PROVE  x = y
<1> DEFINE i == x \div m
           j == y \div m
<1>1. i \in Nat /\ j \in Nat /\ x = m * i /\ y = m * j
  BY DivMod
<1> HIDE DEF i, j
<1>2. CASE j >= i + 1
  <2>1. m * j >= m * (i + 1)
    BY <1>1, <1>2, SMT
  <2> QED BY <1>1, <2>1, SMT
<1>3. CASE j <= i
  <2>1. m * j <= m * i
    BY <1>1, <1>3, SMT
  <2> QED BY <1>1, <2>1
<1> QED
  BY <1>1, <1>2, <1>3

\* Bytes 1 to n of the request are entropy drawn for it.
FilledTo(n) == \A i \in 1 .. n : buf[i] = draws

(***************************************************************************)
(* What makes sources honest: the count never runs ahead of what was       *)
(* written, whatever failed; a count that underflowed is past any request, *)
(* and ends the loop as a failure.                                         *)
(***************************************************************************)
SourceTyped ==
  /\ src \in Sources
  /\ asked \in 0 .. MaxLen
  /\ out \in 0 .. (SizeMod - 1)
  /\ reads \in 0 .. (Retries + MaxLen + 1)
  /\ buf \in [1 .. asked -> Nat]
  /\ \A i \in 1 .. asked : buf[i] <= draws
  /\ status \in {"idle", "busy", "NONE", "NO_ENTROPY"}
  /\ draws \in Nat
  /\ played \in 0 .. 2

OsInv ==
  src = "os" =>
    /\ reads <= Retries + 1
    /\ status \in {"busy", "NONE"} => out <= asked /\ FilledTo(out)
    /\ status = "NONE" => out = asked

HwInv ==
  src = "hw" =>
    /\ out % Stride = 0
    /\ out <= asked
    /\ reads <= out + 1
    /\ status = "busy" => reads <= out
    /\ FilledTo(out)
    /\ status = "NONE" => out + Stride > asked

CustomInv ==
  src = "custom" =>
    /\ reads = 0
    /\ played <= draws
    /\ status = "busy" => played < draws
    /\ status = "NONE" /\ draws <= 2 => FilledTo(asked)

SourceInv == SourceTyped /\ OsInv /\ HwInv /\ CustomInv

LEMMA SourceInvTyped == SourceInv => SourceTypeOK
BY DEF SourceInv, SourceTyped, SourceTypeOK

LEMMA SourceInvHonest == SourceInv => SourceHonest
<1> SUFFICES ASSUME SourceInv, status = "NONE", Complete PROVE FilledTo(asked)
  BY DEF SourceHonest, Filled, FilledTo
<1> USE DEF SourceInv
<1>1. CASE src = "os"
  BY <1>1 DEF OsInv
<1>2. CASE src = "custom"
  BY <1>2 DEF CustomInv, Complete
<1>3. CASE src = "hw"
  <2>1. out = asked
    <3>1. out \in Nat /\ asked \in Nat /\ Stride \in Nat \ {0}
      BY EntropySourceAssumption DEF SourceTyped
    <3>2. out % Stride = 0 /\ asked % Stride = 0 /\ out <= asked /\ out + Stride > asked
      BY <1>3 DEF HwInv, Complete
    <3> QED BY <3>1, <3>2, LastStride
  <2> QED BY <1>3, <2>1 DEF HwInv
<1> QED
  BY <1>1, <1>2, <1>3 DEF SourceTyped, Sources

LEMMA SourceInitInv == SourceInit => SourceInv
<1> SUFFICES ASSUME SourceInit PROVE SourceInv
  OBVIOUS
<1>1. buf \in [1 .. 0 -> Nat]
  BY DEF SourceInit
<1>2. 0 % Stride = 0
  BY EntropySourceAssumption, SMT
<1> QED
  BY <1>1, <1>2, EntropySourceAssumption
     DEF SourceInit, SourceInv, SourceTyped, OsInv, HwInv, CustomInv, FilledTo

LEMMA AskInv ==
  ASSUME SourceInv, NEW n \in 0 .. MaxLen, Ask(n)
  PROVE  SourceInv'
<1>1. buf' \in [1 .. n -> Nat] /\ \A i \in 1 .. n : buf'[i] = 0
  BY DEF Ask
<1>2. 0 % Stride = 0
  BY EntropySourceAssumption, SMT
<1>3. SourceTyped'
  BY <1>1, EntropySourceAssumption DEF Ask, SourceInv, SourceTyped
<1> QED
  BY <1>2, <1>3, EntropySourceAssumption
     DEF Ask, SourceInv, SourceTyped, OsInv, HwInv, CustomInv, FilledTo

LEMMA TakenInv ==
  ASSUME SourceInv, Taken
  PROVE  SourceInv'
<1>1. buf' \in [1 .. 0 -> Nat]
  BY DEF Taken
<1>2. 0 % Stride = 0
  BY EntropySourceAssumption, SMT
<1> QED
  BY <1>1, <1>2, EntropySourceAssumption
     DEF Taken, SourceInv, SourceTyped, OsInv, HwInv, CustomInv, FilledTo

\* A write that begins where the count stands.
LEMMA WrittenFills ==
  ASSUME SourceInv, NEW p \in Nat, NEW n \in Nat, p + n <= asked, FilledTo(p),
         buf' = Written(p, n), UNCHANGED <<asked, draws>>
  PROVE  /\ buf' \in [1 .. asked -> Nat]
         /\ \A i \in 1 .. asked : buf'[i] <= draws
         /\ \A i \in 1 .. (p + n) : buf'[i] = draws'
BY DEF SourceInv, SourceTyped, Written, FilledTo

LEMMA OsReadInv ==
  ASSUME SourceInv, NEW n \in {-1} \cup 1 .. (asked - out), OsRead(n)
  PROVE  SourceInv'
<1>1. /\ src = "os" /\ status = "busy" /\ out <= asked /\ FilledTo(out)
      /\ out \in Nat /\ asked \in Nat /\ asked <= MaxLen /\ reads \in Nat
      /\ reads <= Retries + 1
  BY DEF OsRead, SourceInv, SourceTyped, OsInv
<1>2. UNCHANGED <<src, asked, draws, played>>
  BY DEF OsRead
<1>3. reads' \in Nat /\ reads' <= Retries + 1
  BY <1>1, EntropySourceAssumption DEF OsRead
<1>4. /\ out' = (out + n) % SizeMod
      /\ status' = OsStatus(out', reads')
      /\ buf' = IF n > 0 THEN Written(out, n) ELSE buf
  BY DEF OsRead
<1>5. status' \in {"busy", "NONE", "NO_ENTROPY"}
      /\ (status' = "NONE" => out' = asked) /\ (status' = "busy" => out' < asked)
  BY <1>4 DEF OsStatus
<1>6. CASE n > 0
  <2>1. n \in Nat /\ out + n <= asked /\ out' = out + n
    <3>1. n \in 1 .. (asked - out)
      BY <1>6
    <3>2. out + n \in 0 .. (SizeMod - 1)
      BY <1>1, <3>1, EntropySourceAssumption
    <3> QED BY <1>1, <1>4, <3>1, <3>2, SmallMod, EntropySourceAssumption
  <2>2. buf' = Written(out, n)
    BY <1>4, <1>6
  <2>3. /\ buf' \in [1 .. asked -> Nat]
        /\ \A i \in 1 .. asked : buf'[i] <= draws
        /\ \A i \in 1 .. (out + n) : buf'[i] = draws'
    BY <1>1, <1>2, <2>1, <2>2, WrittenFills
  <2>4. \A i \in 1 .. out' : buf'[i] = draws'
    BY <2>1, <2>3
  <2> QED
    BY <1>1, <1>2, <1>3, <1>5, <2>1, <2>3, <2>4, EntropySourceAssumption
       DEF SourceInv, SourceTyped, OsInv, HwInv, CustomInv, FilledTo, Sources
<1>7. CASE n = -1
  <2>1. buf' = buf
    BY <1>4, <1>7
  <2>2. CASE out = 0
    <3>1. out' = SizeMod - 1
      <4>1. out' = (-1) % SizeMod
        BY <1>4, <1>7, <2>2
      <4>2. -1 \in Int /\ SizeMod \in Nat \ {0}
        BY EntropySourceAssumption
      <4> QED BY <4>1, <4>2, SmallMod
    <3>2. out' > asked
      BY <1>1, <3>1, EntropySourceAssumption
    <3>3. status' = "NO_ENTROPY"
      BY <1>1, <1>5, <3>1, <3>2, EntropySourceAssumption
    <3> QED
      BY <1>1, <1>2, <1>3, <2>1, <3>1, <3>3, EntropySourceAssumption
         DEF SourceInv, SourceTyped, OsInv, HwInv, CustomInv, FilledTo, Sources
  <2>3. CASE out > 0
    <3>1. out + n \in 0 .. (SizeMod - 1)
      BY <1>1, <1>7, <2>3, EntropySourceAssumption
    <3>2. out' = out - 1
      <4>1. out' = (out + n) % SizeMod /\ out + n = out - 1
        BY <1>1, <1>4, <1>7
      <4>2. out + n \in Int /\ SizeMod \in Nat \ {0}
        BY <3>1, EntropySourceAssumption
      <4>3. (out + n) % SizeMod = out + n
        BY <3>1, <4>2, SmallMod
      <4> QED BY <4>1, <4>3
    <3> QED
      BY <1>1, <1>2, <1>3, <1>5, <2>1, <2>3, <3>2, EntropySourceAssumption
         DEF SourceInv, SourceTyped, OsInv, HwInv, CustomInv, FilledTo, Sources
  <2> QED BY <1>1, <2>2, <2>3
<1> QED
  BY <1>6, <1>7

LEMMA HwReadInv ==
  ASSUME SourceInv, NEW ok \in BOOLEAN, HwRead(ok)
  PROVE  SourceInv'
<1>1. /\ src = "hw" /\ status = "busy" /\ out + Stride <= asked /\ FilledTo(out)
      /\ out \in Nat /\ asked \in Nat /\ asked <= MaxLen /\ reads \in Nat
      /\ reads <= out /\ out % Stride = 0 /\ Stride \in Nat \ {0}
  BY EntropySourceAssumption DEF HwRead, SourceInv, SourceTyped, HwInv
<1>2. UNCHANGED <<src, asked, draws, played>> /\ reads' = reads + 1
  BY DEF HwRead
<1>3. CASE ok
  <2>1. buf' = Written(out, Stride) /\ out' = out + Stride /\ status' = status
    BY <1>3 DEF HwRead
  <2>2. out' % Stride = 0
    BY <1>1, <2>1, NextStride
  <2>3. /\ buf' \in [1 .. asked -> Nat]
        /\ \A i \in 1 .. asked : buf'[i] <= draws
        /\ \A i \in 1 .. (out + Stride) : buf'[i] = draws'
    BY <1>1, <1>2, <2>1, WrittenFills
  <2>4. \A i \in 1 .. out' : buf'[i] = draws'
    BY <2>1, <2>3
  <2> QED
    BY <1>1, <1>2, <2>1, <2>2, <2>3, <2>4, EntropySourceAssumption
       DEF SourceInv, SourceTyped, OsInv, HwInv, CustomInv, FilledTo, Sources
<1>4. CASE ~ok
  <2>1. UNCHANGED <<buf, out>> /\ status' = "NO_ENTROPY"
    BY <1>4 DEF HwRead
  <2> QED
    BY <1>1, <1>2, <2>1, EntropySourceAssumption
       DEF SourceInv, SourceTyped, OsInv, HwInv, CustomInv, FilledTo, Sources
<1> QED
  BY <1>3, <1>4

LEMMA HwDoneInv == SourceInv /\ HwDone => SourceInv'
BY DEF HwDone, SourceInv, SourceTyped, OsInv, HwInv, CustomInv, FilledTo

LEMMA CustomReadInv == SourceInv /\ CustomRead => SourceInv'
<1> SUFFICES ASSUME SourceInv, CustomRead PROVE SourceInv'
  OBVIOUS
<1>1. /\ UNCHANGED <<src, asked, out, reads, draws>> /\ status' = "NONE"
      /\ src = "custom" /\ status = "busy" /\ asked \in Nat /\ played < draws
  BY DEF CustomRead, SourceInv, SourceTyped, CustomInv
<1>2. CASE played < 2
  <2>1. buf' = Written(0, asked) /\ FilledTo(0) /\ played' = played + 1
    BY <1>2 DEF CustomRead, FilledTo
  <2>2. /\ buf' \in [1 .. asked -> Nat]
        /\ \A i \in 1 .. asked : buf'[i] <= draws
        /\ \A i \in 1 .. asked : buf'[i] = draws'
    <3>1. \A i \in 1 .. (0 + asked) : buf'[i] = draws'
      BY <1>1, <2>1, WrittenFills
    <3> QED BY <1>1, <2>1, <3>1, WrittenFills
  <2> QED
    BY <1>1, <1>2, <2>1, <2>2
       DEF SourceInv, SourceTyped, OsInv, HwInv, CustomInv, FilledTo
<1>3. CASE ~(played < 2)
  BY <1>1, <1>3
     DEF CustomRead, SourceInv, SourceTyped, OsInv, HwInv, CustomInv, FilledTo
<1> QED
  BY <1>2, <1>3

LEMMA SourceStepInv == SourceInv /\ SourceStep => SourceInv'
BY OsReadInv, HwReadInv, HwDoneInv, CustomReadInv DEF SourceStep

-----------------------------------------------------------------------------
(* Generation.                                                             *)

BlockSet == [base : {"zero", "ones"}, ops : Seq(Op), step : Nat]

\* A block of the present base is of an earlier key.
OfEarlierKey(b, v) ==
  b.base = v.base => Len(b.ops) < Len(v.ops)

PastInv ==
  /\ delivered \subseteq BlockSet
  /\ keyed \subseteq BlockSet
  /\ \A b \in delivered \cup keyed : OfEarlierKey(b, kv)
  /\ delivered \cap keyed = {}

\* w has come of v, by no update or by some.
From(w, v) == w = v \/ Longer(w, v)

Made(w, n) == {Block(w, w.steps + i) : i \in 1 .. n}

\* Blocks used up for keys on the way: of w before it became w1, or behind the
\* n blocks made of w1.
UsedUp(b, w, w1, n) ==
  /\ b \in BlockSet
  /\ b.base = w.base
  /\ \/ b.ops = w.ops /\ Len(w.ops) < Len(w1.ops)
     \/ b.ops = w1.ops /\ b.step > w1.steps + n

LEMMA KeyBlocksTyped ==
  ASSUME NEW w \in KV, NEW b \in KeyBlocks(w)
  PROVE  b \in BlockSet /\ b.base = w.base /\ b.ops = w.ops /\ b.step > w.steps
BY DrbgAssumption DEF KeyBlocks, Block, BlockSet, KV

LEMMA GenerateSteps ==
  ASSUME NEW w \in KV, NEW d \in Inputs, NEW n \in Nat, Generate(w, d, n)
  PROVE  \E w1 \in KV :
           /\ From(w1, w)
           /\ Longer(kv', w1)
           /\ delivered' = delivered \cup Made(w1, n)
           /\ \A b \in keyed' \ keyed : UsedUp(b, w, w1, n)
           /\ keyed \subseteq keyed'
<1> DEFINE w1 == IF d = "none" THEN w ELSE Updated(w, Text(d))
           w2 == [w1 EXCEPT !.steps = @ + n]
<1>1. /\ kv' = Updated(w2, Text(d))
      /\ delivered' = delivered \cup Made(w1, n)
      /\ keyed' = keyed \cup (IF d = "none" THEN {} ELSE KeyBlocks(w))
                        \cup KeyBlocks(w2)
  BY DEF Generate, Made
<1>2. d # "none" => Longer(w1, w)
  BY TextIsMixed, UpdatedLonger
<1>3. From(w1, w) /\ w1 \in KV
  BY <1>2 DEF From, Longer
<1>4. w1.base = w.base /\ (d # "none" => Len(w.ops) < Len(w1.ops))
  BY <1>2 DEF Longer, KV
<1> HIDE DEF w1
<1>5. /\ w2 \in KV /\ w2.base = w1.base /\ w2.ops = w1.ops
      /\ w2.steps = w1.steps + n
  BY <1>3 DEF KV
<1> HIDE DEF w2
<1>6. Longer(kv', w2)
  BY <1>1, <1>5, TextIsMixed, UpdatedLonger
<1>7. Longer(kv', w1)
  BY <1>5, <1>6 DEF Longer
<1>8. ASSUME NEW b \in keyed' \ keyed PROVE UsedUp(b, w, w1, n)
  <2>1. CASE d # "none" /\ b \in KeyBlocks(w)
    BY <1>4, <2>1, KeyBlocksTyped DEF UsedUp
  <2>2. CASE b \in KeyBlocks(w2)
    BY <1>4, <1>5, <2>2, KeyBlocksTyped DEF UsedUp
  <2> QED BY <1>1, <1>8, <2>1, <2>2
<1> QED
  BY <1>1, <1>3, <1>7, <1>8

\* What the caller was given and what keys were made of stay apart and behind.
LEMMA GeneratePast ==
  ASSUME PastInv, kv \in KV, NEW w \in KV, From(w, kv), NEW d \in Inputs,
         NEW n \in Nat, Generate(w, d, n)
  PROVE  PastInv' /\ Longer(kv', kv)
<1>1. PICK w1 \in KV :
        /\ From(w1, w)
        /\ Longer(kv', w1)
        /\ delivered' = delivered \cup Made(w1, n)
        /\ \A b \in keyed' \ keyed : UsedUp(b, w, w1, n)
        /\ keyed \subseteq keyed'
  BY GenerateSteps
<1>2. /\ w.base = kv.base /\ w1.base = kv.base
      /\ Len(kv.ops) <= Len(w.ops) /\ Len(w.ops) <= Len(w1.ops)
      /\ Len(kv.ops) \in Nat /\ Len(w.ops) \in Nat /\ Len(w1.ops) \in Nat
      /\ w1.steps \in Nat
  BY <1>1 DEF From, Longer, KV
<1>3. kv'.base = kv.base /\ Len(kv'.ops) \in Nat /\ Len(kv'.ops) > Len(w1.ops)
  BY <1>1, <1>2 DEF Longer, KV
<1>4. Longer(kv', kv)
  <2>1. From(w1, kv)
    <3>1. CASE w1 = w
      BY <3>1
    <3>2. CASE Longer(w1, w)
      BY <3>2, LongerTransitive DEF From, KV
    <3> QED BY <1>1, <3>1, <3>2 DEF From
  <2> QED BY <1>1, <2>1, LongerTransitive DEF From, KV
<1>5. ASSUME NEW b \in Made(w1, n)
      PROVE  /\ b \in BlockSet /\ b.base = kv.base /\ b.ops = w1.ops
             /\ b.step <= w1.steps + n
  BY <1>2, <1>5 DEF Made, Block, BlockSet, KV
<1>6. ASSUME NEW b \in keyed' \ keyed
      PROVE  /\ b \in BlockSet /\ b.base = kv.base
             /\ Len(b.ops) >= Len(kv.ops) /\ Len(b.ops) < Len(kv'.ops)
             /\ b \notin Made(w1, n)
  BY <1>1, <1>2, <1>3, <1>5, <1>6 DEF UsedUp, BlockSet
<1>7. ASSUME NEW b \in delivered \cup keyed
      PROVE  /\ OfEarlierKey(b, kv')
             /\ b.base = kv.base => Len(b.ops) < Len(kv.ops)
             /\ Len(b.ops) \in Nat
  <2>1. b.ops \in Seq(Op)
    BY <1>7 DEF PastInv, BlockSet
  <2>2. Len(b.ops) \in Nat
    BY <2>1, LenProperties
  <2>3. b.base = kv.base => Len(b.ops) < Len(kv.ops)
    BY <1>7 DEF PastInv, OfEarlierKey
  <2>4. OfEarlierKey(b, kv')
    BY <1>2, <1>3, <2>2, <2>3 DEF OfEarlierKey
  <2> QED BY <2>2, <2>3, <2>4
<1>8. delivered' \subseteq BlockSet /\ keyed' \subseteq BlockSet
  BY <1>1, <1>5, <1>6 DEF PastInv
<1>9. ASSUME NEW b \in delivered' \cup keyed' PROVE OfEarlierKey(b, kv')
  <2>1. CASE b \in delivered \cup keyed
    BY <1>7, <2>1
  <2>2. CASE b \in Made(w1, n)
    BY <1>3, <1>5, <2>2 DEF OfEarlierKey
  <2>3. CASE b \in keyed' \ keyed
    BY <1>6, <2>3 DEF OfEarlierKey
  <2> QED BY <1>1, <1>9, <2>1, <2>2, <2>3
<1>10. ASSUME NEW b \in delivered', b \in keyed' PROVE FALSE
  <2>1. CASE b \in delivered
    <3>1. b \notin keyed
      BY <2>1 DEF PastInv
    <3> QED BY <1>2, <1>6, <1>7, <1>10, <2>1, <3>1 DEF BlockSet
  <2>2. CASE b \in Made(w1, n)
    <3>1. b \in keyed
      BY <1>6, <1>10, <2>2
    <3>2. Len(b.ops) < Len(kv.ops)
      BY <1>5, <1>7, <2>2, <3>1
    <3> QED BY <1>2, <1>5, <2>2, <3>2
  <2> QED BY <1>1, <1>10, <2>1, <2>2
<1> QED
  BY <1>4, <1>8, <1>9, <1>10 DEF PastInv

-----------------------------------------------------------------------------
(* The inductive invariant.                                                *)

GeneratorTyped ==
  /\ mech \in Mechanisms
  /\ resist \in BOOLEAN
  /\ pc \in {"idle", "entropy", "nonce", "reseed", "random"}
  /\ (pc = "idle") <=> (status = "idle")
  /\ arg \in [data : Inputs, blocks : 0 .. MaxBlocks]
  /\ kv \in KV
  /\ seeded \in [draw : Nat, text : Inputs]
  /\ seeded.draw <= draws
  /\ calls \in 0 .. MaxCalls

\* What was asked for is what the call needs.
AskedFor ==
  /\ pc = "entropy" => asked = EntropyLen
  /\ pc = "nonce" => asked = NonceLen /\ NonceLen # 0
  /\ pc = "reseed" => asked = ReseedLen

\* The entropy that waits for its nonce is of the draw before, all of it.
EntropyKept ==
  pc = "nonce" =>
    /\ entropy \in [1 .. EntropyLen -> Nat]
    /\ (src = "hw" => EntropyLen % Stride = 0) /\ (src = "custom" => draws <= 2)
       => \A i \in 1 .. EntropyLen : entropy[i] = draws - 1

IInv ==
  SourceInv /\ GeneratorTyped /\ AskedFor /\ EntropyKept /\ SeedIsFresh /\ PastInv

LEMMA IInvImplies == IInv => TypeOK /\ SourceHonest /\ PastIsSafe
<1>1. IInv => SourceTypeOK /\ SourceHonest
  BY SourceInvTyped, SourceInvHonest DEF IInv
<1>2. IInv => PastIsSafe
  BY DEF IInv, PastInv, PastIsSafe, OfEarlierKey
<1>3. IInv => TypeOK
  BY <1>1 DEF IInv, GeneratorTyped, TypeOK, KV, SourceInv, SourceTyped
<1> QED
  BY <1>1, <1>2, <1>3

\* A seed is not lost by what is mixed in after it.
LEMMA SeedStays ==
  ASSUME SeedIsFresh, GeneratorTyped, Longer(kv', kv), UNCHANGED <<seeded, src, mech>>
  PROVE  SeedIsFresh'
<1>1. kv.ops # <<>> => 1 \in 1 .. Len(kv.ops)
  BY DEF GeneratorTyped, KV
<1>2. kv.ops # <<>> => kv'.ops # <<>> /\ kv'.ops[1] = kv.ops[1]
  BY <1>1 DEF Longer, GeneratorTyped, KV
<1>3. kv'.base = kv.base
  BY DEF Longer
<1>4. TooLong(seeded.text)' <=> TooLong(seeded.text)
  BY DEF TooLong
<1>5. Restarted' = Restarted
  BY DEF Restarted
<1> QED
  BY <1>2, <1>3, <1>4, <1>5 DEF SeedIsFresh

LEMMA SeedUnchanged ==
  SeedIsFresh /\ UNCHANGED <<kv, seeded, src, mech>> => SeedIsFresh'
BY DEF SeedIsFresh, TooLong, Restarted

LEMMA PastUnchanged == PastInv /\ UNCHANGED <<kv, delivered, keyed>> => PastInv'
BY DEF PastInv

\* An answer, or none, to a call that is over: nothing of it stays.
LEMMA DoneRest ==
  ASSUME IInv, NEW op, NEW err, Done(op, err), UNCHANGED <<mech, resist, calls>>,
         kv' \in KV, seeded' \in [draw : Nat, text : Inputs], seeded'.draw <= draws
  PROVE  SourceInv' /\ GeneratorTyped' /\ AskedFor' /\ EntropyKept'
<1>1. SourceInv'
  BY TakenInv DEF IInv, Done
<1>2. pc' = "idle" /\ status' = "idle" /\ arg' = NoArg /\ draws' = draws
  BY DEF Done, Taken
<1>3. NoArg \in [data : Inputs, blocks : 0 .. MaxBlocks]
  BY DrbgAssumption DEF NoArg, Inputs
<1> QED
  BY <1>1, <1>2, <1>3 DEF IInv, GeneratorTyped, AskedFor, EntropyKept

LEMMA FailedInv ==
  ASSUME IInv, NEW op, Failed(op)
  PROVE  IInv'
<1>1. Done(op, "NO_ENTROPY") /\ UNCHANGED <<mech, resist, kv, seeded, delivered, keyed, calls>>
  BY DEF Failed
<1>2. SourceInv' /\ GeneratorTyped' /\ AskedFor' /\ EntropyKept'
  <2>1. kv' \in KV /\ seeded' \in [draw : Nat, text : Inputs] /\ seeded'.draw <= draws
    BY <1>1 DEF IInv, GeneratorTyped
  <2> QED BY <1>1, <2>1, DoneRest
<1>3. src' = src
  BY <1>1 DEF Done, Taken
<1> QED
  BY <1>1, <1>2, <1>3, SeedUnchanged, PastUnchanged DEF IInv

\* A call begins to wait and leaves all else alone.
LEMMA WaitRest ==
  ASSUME IInv, NEW what \in {"entropy", "nonce", "reseed", "random"},
         NEW n \in 0 .. MaxLen, Wait(what, n),
         UNCHANGED <<mech, resist, kv, seeded, delivered, keyed>>,
         arg' \in [data : Inputs, blocks : 0 .. MaxBlocks], calls' \in 0 .. MaxCalls
  PROVE  SourceInv' /\ GeneratorTyped' /\ SeedIsFresh' /\ PastInv'
<1>1. SourceInv' /\ src' = src /\ pc' = what /\ status' = "busy" /\ draws' = draws + 1
  BY AskInv DEF Wait, Ask, IInv
<1>2. draws \in Nat
  BY DEF IInv, SourceInv, SourceTyped
<1>3. GeneratorTyped'
  BY <1>1, <1>2 DEF IInv, GeneratorTyped
<1> QED
  BY <1>1, <1>3, SeedUnchanged, PastUnchanged DEF IInv

\* e and n are the draws of this call, as far as the source is one that fills.
LEMMA InstantiateInv ==
  ASSUME IInv, NEW e \in [1 .. EntropyLen -> Nat], NEW n \in Bytes, Instantiate(e, n),
         DOMAIN n = 1 .. NonceLen,
         /\ src = "hw" => EntropyLen % Stride = 0 /\ NonceLen % Stride = 0
         /\ src = "custom" => draws <= 2
         => /\ \A i \in 1 .. EntropyLen : e[i] = draws - (IF NonceLen = 0 THEN 0 ELSE 1)
            /\ \A i \in 1 .. NonceLen : n[i] = draws
  PROVE  IInv'
<1> DEFINE d == SeedMaterial(e, n, arg.data)
<1>1. /\ kv' = Instantiated(e, n, arg.data)
      /\ seeded' = [draw |-> draws, text |-> arg.data]
      /\ delivered' = {}
      /\ keyed' = IF TooLong(arg.data) THEN {} ELSE KeyBlocks(Restarted)
      /\ Done("initialize", "NONE")
      /\ UNCHANGED <<mech, resist, calls>>
  BY DEF Instantiate
<1>2. d \in Mixed
  <2>1. EntropyLen \in Nat /\ e \in Bytes
    BY DrbgAssumption DEF Bytes
  <2>2. Nothing \in Bytes
    <3>1. Nothing \in [1 .. 0 -> Nat]
      BY DEF Nothing
    <3> QED BY <3>1 DEF Bytes
  <2>3. arg.data \in Inputs
    BY DEF IInv, GeneratorTyped
  <2> QED BY <2>1, <2>2, <2>3 DEF SeedMaterial, Mixed
<1>3. ~TooLong(arg.data) => /\ Longer(kv', Restarted)
                            /\ Starts(kv', Restarted, d)
  BY <1>1, <1>2, UpdatedLonger, RestartedTyped DEF Instantiated
<1>4. kv' \in KV
  BY <1>1, <1>3, RestartedTyped DEF Instantiated, Longer
<1>5. SourceInv' /\ GeneratorTyped' /\ AskedFor' /\ EntropyKept'
  <2>1. draws \in Nat /\ arg.data \in Inputs
    BY DEF IInv, SourceInv, SourceTyped, GeneratorTyped
  <2>2. seeded' \in [draw : Nat, text : Inputs] /\ seeded'.draw <= draws
    BY <1>1, <2>1
  <2> QED BY <1>1, <1>4, <2>2, DoneRest
<1>6. PastInv'
  <2>1. CASE TooLong(arg.data)
    BY <1>1, <2>1 DEF PastInv
  <2>2. CASE ~TooLong(arg.data)
    <3>1. \A b \in KeyBlocks(Restarted) : b \in BlockSet /\ b.ops = <<>>
      BY KeyBlocksTyped, RestartedTyped
    <3>2. Len(kv'.ops) > 0
      BY <1>3, <2>2, RestartedTyped DEF Longer
    <3> QED BY <1>1, <2>2, <3>1, <3>2 DEF PastInv, OfEarlierKey
  <2> QED BY <2>1, <2>2
<1>7. SeedIsFresh'
  <2> SUFFICES ASSUME ~TooLong(arg.data),
                      src = "hw" => EntropyLen % Stride = 0 /\ NonceLen % Stride = 0,
                      src = "custom" => draws <= 2
               PROVE  /\ kv'.base = Restarted.base
                      /\ kv'.ops # <<>>
                      /\ kv'.ops[1].at = 0
                      /\ kv'.ops[1].data.kind = "seed"
                      /\ kv'.ops[1].data.text = arg.data
                      /\ DOMAIN kv'.ops[1].data.ent = 1 .. EntropyLen
                      /\ \A i \in 1 .. EntropyLen :
                           kv'.ops[1].data.ent[i] =
                             draws - (IF NonceLen = 0 THEN 0 ELSE 1)
                      /\ mech # "ctr" => DOMAIN kv'.ops[1].data.nonce = 1 .. NonceLen
                      /\ \A i \in DOMAIN kv'.ops[1].data.nonce :
                           kv'.ops[1].data.nonce[i] = draws
    <3>1. src' = src /\ mech' = mech
      BY <1>1 DEF Done, Taken
    <3>2. Restarted' = Restarted /\ (TooLong(seeded.text)' <=> TooLong(arg.data))
      BY <1>1, <3>1 DEF Restarted, TooLong
    <3>3. seeded'.draw = draws /\ seeded'.text = arg.data
      BY <1>1
    <3> QED BY <3>1, <3>2, <3>3 DEF SeedIsFresh
  <2>1. kv'.base = Restarted.base /\ Len(kv'.ops) > 0 /\ kv'.ops \in Seq(Op)
    BY <1>3, RestartedTyped DEF Longer, KV
  <2>2. kv'.ops[1].at = 0 /\ kv'.ops[1].data = d
    BY <1>3, RestartedTyped DEF Starts
  <2>3. /\ d.kind = "seed" /\ d.text = arg.data /\ d.ent = e
        /\ d.nonce = IF mech = "ctr" THEN Nothing ELSE n
    BY DEF SeedMaterial
  <2>4. DOMAIN Nothing = {}
    BY DEF Nothing
  <2>5. kv'.ops # <<>>
    BY <2>1
  <2> HIDE DEF d
  <2> QED
    BY <2>1, <2>2, <2>3, <2>4, <2>5
<1> QED
  BY <1>5, <1>6, <1>7 DEF IInv

LEMMA InitInv == Init => IInv
<1> SUFFICES ASSUME Init PROVE IInv
  OBVIOUS
<1>1. SourceInv /\ draws = 0 /\ status = "idle"
  BY SourceInitInv DEF Init, SourceInit
<1>2. GeneratorTyped
  <2>1. kv \in KV
    BY RestartedTyped DEF Init
  <2>2. arg \in [data : Inputs, blocks : 0 .. MaxBlocks]
    BY DrbgAssumption DEF Init, NoArg, Inputs
  <2>3. seeded \in [draw : Nat, text : Inputs] /\ seeded.draw = 0
    BY DEF Init, Inputs
  <2>4. calls \in 0 .. MaxCalls
    BY DrbgAssumption DEF Init
  <2>5. mech \in Mechanisms /\ resist \in BOOLEAN
    BY DEF Init
  <2>6. pc = "idle" /\ status = "idle"
    BY <1>1 DEF Init
  <2>7. seeded.draw <= draws
    BY <1>1, <2>3
  <2> QED BY ONLY <2>1, <2>2, <2>3, <2>4, <2>5, <2>6, <2>7 DEF GeneratorTyped
<1> QED
  BY <1>1, <1>2 DEF Init, IInv, AskedFor, EntropyKept, SeedIsFresh, PastInv

LEMMA LengthsTyped ==
  /\ EntropyLen \in 0 .. MaxLen /\ NonceLen \in 0 .. MaxLen /\ ReseedLen \in 0 .. MaxLen
  /\ 1 .. MaxLen \subseteq 0 .. MaxLen /\ EntropyLen \in Nat
BY DrbgAssumption, EntropySourceAssumption

LEMMA CallInv ==
  ASSUME IInv, CallAny
  PROVE  IInv'
<1>0. calls \in Nat /\ MaxCalls \in Nat /\ draws \in Nat
  BY DrbgAssumption DEF IInv, GeneratorTyped, SourceInv, SourceTyped
<1>1. ASSUME NEW p \in Inputs, Initialize(p) PROVE IInv'
  <2>1. /\ Wait("entropy", EntropyLen) /\ calls' \in 0 .. MaxCalls
        /\ UNCHANGED <<mech, resist, kv, seeded, delivered, keyed>>
    BY <1>0, <1>1 DEF Initialize, Call
  <2>2. arg' \in [data : Inputs, blocks : 0 .. MaxBlocks]
    BY <1>1, DrbgAssumption DEF Initialize
  <2>3. SourceInv' /\ GeneratorTyped' /\ SeedIsFresh' /\ PastInv'
    BY <2>1, <2>2, WaitRest, LengthsTyped
  <2> QED BY <2>1, <2>3 DEF IInv, AskedFor, EntropyKept, Wait, Ask
<1>2. ASSUME NEW d \in Inputs \ {"long"}, NEW n \in 0 .. MaxBlocks, Randomize(d, n)
      PROVE  IInv'
  <2>1. /\ Generate(kv, d, n) /\ calls' \in 0 .. MaxCalls
        /\ UNCHANGED <<src, asked, out, reads, buf, status, draws, played,
                       mech, resist, pc, arg, entropy, seeded>>
    BY <1>0, <1>2 DEF Randomize, Call
  <2>2. n \in Nat /\ kv \in KV /\ From(kv, kv) /\ PastInv
    BY <1>2, DrbgAssumption DEF IInv, GeneratorTyped, From
  <2>3. PastInv' /\ Longer(kv', kv)
    BY <2>1, <2>2, GeneratePast
  <2>4. SeedIsFresh'
    BY <2>1, <2>3, SeedStays DEF IInv
  <2>5. SourceInv'
    BY <2>1 DEF IInv, SourceInv, SourceTyped, OsInv, HwInv, CustomInv, FilledTo
  <2>6. GeneratorTyped'
    BY <2>1, <2>3 DEF IInv, GeneratorTyped, Longer
  <2> QED BY <2>1, <2>3, <2>4, <2>5, <2>6 DEF IInv, AskedFor, EntropyKept
<1>3. ASSUME NEW d \in Inputs \ {"long"}, NEW n \in 0 .. MaxBlocks,
             RandomizeResisting(d, n)
      PROVE  IInv'
  <2>1. /\ Wait("reseed", ReseedLen) /\ calls' \in 0 .. MaxCalls
        /\ UNCHANGED <<mech, resist, kv, seeded, delivered, keyed>>
        /\ arg' = [data |-> d, blocks |-> n]
    BY <1>0, <1>3 DEF RandomizeResisting, Call
  <2>2. SourceInv' /\ GeneratorTyped' /\ SeedIsFresh' /\ PastInv'
    BY <2>1, WaitRest, LengthsTyped
  <2> QED BY <2>1, <2>2 DEF IInv, AskedFor, EntropyKept, Wait, Ask
<1>4. ASSUME NEW b \in BOOLEAN, SetPredictionResistance(b) PROVE IInv'
  <2>1. UNCHANGED <<src, asked, out, reads, buf, status, draws, played,
                    mech, pc, arg, entropy, kv, seeded, delivered, keyed, calls>>
        /\ resist' \in BOOLEAN
    BY <1>4 DEF SetPredictionResistance
  <2>2. SourceInv'
    BY <2>1 DEF IInv, SourceInv, SourceTyped, OsInv, HwInv, CustomInv, FilledTo
  <2> QED
    BY <2>1, <2>2, SeedUnchanged, PastUnchanged
       DEF IInv, GeneratorTyped, AskedFor, EntropyKept
<1>5. ASSUME NEW n \in 1 .. MaxLen, GenRandom(n) PROVE IInv'
  <2>1. /\ Wait("random", n) /\ calls' \in 0 .. MaxCalls
        /\ UNCHANGED <<mech, resist, arg, kv, seeded, delivered, keyed>>
    BY <1>0, <1>5 DEF GenRandom, Call
  <2>2. arg' \in [data : Inputs, blocks : 0 .. MaxBlocks]
    BY <2>1 DEF IInv, GeneratorTyped
  <2>3. SourceInv' /\ GeneratorTyped' /\ SeedIsFresh' /\ PastInv'
    BY <2>1, <2>2, WaitRest, LengthsTyped
  <2> QED BY <2>1, <2>3 DEF IInv, AskedFor, EntropyKept, Wait, Ask
<1> QED
  BY <1>1, <1>2, <1>3, <1>4, <1>5 DEF CallAny

\* The entropy for a reseed is all there when the source says so.
LEMMA Arrived ==
  ASSUME IInv, NEW what \in {"entropy", "nonce", "reseed"}, Answered(what)
  PROVE  /\ buf \in [1 .. asked -> Nat]
         /\ Complete => \A i \in 1 .. asked : buf[i] = draws
BY SourceInvHonest DEF IInv, SourceInv, SourceTyped, Answered, SourceHonest, Filled

LEMMA ReseedArrivesInv ==
  ASSUME IInv, ReseedArrives
  PROVE  IInv'
<1> DEFINE data == [kind |-> "reseed", ent |-> buf, nonce |-> Nothing, text |-> arg.data]
           w == Reseeded(kv, buf, arg.data)
<1>1. kv \in KV /\ arg.data \in Inputs /\ arg.blocks \in Nat /\ asked \in Nat
  BY DrbgAssumption DEF IInv, GeneratorTyped, SourceInv, SourceTyped
<1>2. data \in Mixed
  <2>1. buf \in Bytes
    BY <1>1 DEF IInv, SourceInv, SourceTyped, Bytes
  <2>2. Nothing \in Bytes
    <3>1. Nothing \in [1 .. 0 -> Nat]
      BY DEF Nothing
    <3> QED BY <3>1 DEF Bytes
  <2> QED BY <1>1, <2>1, <2>2 DEF Mixed
<1>3. From(w, kv) /\ w \in KV
  BY <1>1, <1>2, UpdatedLonger DEF From, Reseeded, Longer
<1>4. /\ Generate(w, arg.data, arg.blocks) /\ Done("randomize", "NONE")
      /\ UNCHANGED <<mech, resist, seeded, calls>>
  BY DEF ReseedArrives
<1> HIDE DEF data, w
<1>5. PastInv' /\ Longer(kv', kv)
  BY <1>1, <1>3, <1>4, GeneratePast DEF IInv
<1>6. SourceInv' /\ GeneratorTyped' /\ AskedFor' /\ EntropyKept'
  <2>1. kv' \in KV /\ seeded' \in [draw : Nat, text : Inputs] /\ seeded'.draw <= draws
    BY <1>4, <1>5 DEF IInv, GeneratorTyped, Longer
  <2> QED BY <1>4, <2>1, DoneRest
<1>7. SeedIsFresh'
  BY <1>4, <1>5, SeedStays DEF IInv, Done, Taken
<1> QED
  BY <1>5, <1>6, <1>7 DEF IInv

\* HMAC's internalReseed begins a new key with the entropy that arrived.
LEMMA ReseedMixes ==
  ASSUME IInv, Answered("reseed"), mech = "hmac", Complete
  PROVE  LET w == Reseeded(kv, buf, arg.data)
             d == w.ops[Len(kv.ops) + 1].data
         IN /\ w \in KV /\ Longer(w, kv)
            /\ d.kind = "reseed"
            /\ \A j \in 1 .. ReseedLen : d.ent[j] = draws
<1> DEFINE data == [kind |-> "reseed", ent |-> buf, nonce |-> Nothing, text |-> arg.data]
           w == Reseeded(kv, buf, arg.data)
<1>1. kv \in KV /\ arg.data \in Inputs /\ asked = ReseedLen /\ asked \in Nat
  BY DEF IInv, GeneratorTyped, SourceInv, SourceTyped, AskedFor, Answered
<1>2. data \in Mixed
  <2>1. buf \in Bytes
    BY <1>1 DEF IInv, SourceInv, SourceTyped, Bytes
  <2>2. Nothing \in Bytes
    <3>1. Nothing \in [1 .. 0 -> Nat]
      BY DEF Nothing
    <3> QED BY <3>1 DEF Bytes
  <2> QED BY <1>1, <2>1, <2>2 DEF Mixed
<1>3. w = Updated(kv, data)
  BY DEF Reseeded
<1>4. Longer(w, kv) /\ Starts(w, kv, data)
  BY <1>1, <1>2, <1>3, UpdatedLonger
<1>5. data.kind = "reseed" /\ data.ent = buf
  OBVIOUS
<1>6. \A j \in 1 .. ReseedLen : buf[j] = draws
  BY <1>1, Arrived
<1> HIDE DEF data, w
<1>7. w \in KV /\ w.ops[Len(kv.ops) + 1].data = data
  BY <1>4 DEF Longer, Starts
<1> QED
  BY <1>4, <1>5, <1>6, <1>7 DEF w

\* What was mixed into w is in every block that generate makes of it.
LEMMA BlocksRemember ==
  ASSUME NEW v \in KV, NEW w \in KV, Longer(w, v), NEW d \in Inputs, NEW n \in Nat,
         Generate(w, d, n), NEW b \in delivered' \ delivered
  PROVE  /\ Len(v.ops) + 1 \in DOMAIN b.ops
         /\ b.ops[Len(v.ops) + 1] = w.ops[Len(v.ops) + 1]
<1>1. PICK w1 \in KV : From(w1, w) /\ delivered' = delivered \cup Made(w1, n)
  BY GenerateSteps
<1>2. b.ops = w1.ops
  BY <1>1 DEF Made, Block
<1>3. /\ Len(v.ops) \in Nat /\ Len(w.ops) \in Nat /\ Len(w1.ops) \in Nat
      /\ Len(w.ops) > Len(v.ops) /\ Len(w1.ops) >= Len(w.ops)
      /\ DOMAIN w1.ops = 1 .. Len(w1.ops)
  BY <1>1 DEF From, Longer, KV
<1>4. Len(v.ops) + 1 \in 1 .. Len(w.ops) /\ Len(v.ops) + 1 \in 1 .. Len(w1.ops)
  BY <1>3
<1>5. w1.ops[Len(v.ops) + 1] = w.ops[Len(v.ops) + 1]
  BY <1>1, <1>4 DEF From, Longer
<1> QED
  BY <1>2, <1>3, <1>4, <1>5

LEMMA ReseedArrivesReaches ==
  ASSUME IInv, ReseedArrives, mech = "hmac", Complete, NEW b \in delivered' \ delivered
  PROVE  \E i \in DOMAIN b.ops :
           /\ b.ops[i].data.kind = "reseed"
           /\ \A j \in 1 .. ReseedLen : b.ops[i].data.ent[j] = draws
<1> DEFINE w == Reseeded(kv, buf, arg.data)
           i == Len(kv.ops) + 1
<1>1. /\ w \in KV /\ Longer(w, kv)
      /\ w.ops[i].data.kind = "reseed"
      /\ \A j \in 1 .. ReseedLen : w.ops[i].data.ent[j] = draws
  BY ReseedMixes DEF ReseedArrives
<1>2. Generate(w, arg.data, arg.blocks)
  BY DEF ReseedArrives
<1>3. kv \in KV /\ arg.data \in Inputs /\ arg.blocks \in Nat
  BY DrbgAssumption DEF IInv, GeneratorTyped
<1> HIDE DEF w
<1>4. i \in DOMAIN b.ops /\ b.ops[i] = w.ops[i]
  BY <1>1, <1>2, <1>3, BlocksRemember
<1> HIDE DEF i
<1> QED
  BY <1>1, <1>4

LEMMA ProceedInv ==
  ASSUME IInv, Proceed
  PROVE  IInv'
<1>1. CASE EntropyFails \/ NonceFails \/ ReseedFails
  BY <1>1, FailedInv DEF EntropyFails, NonceFails, ReseedFails
<1>2. CASE EntropyArrives
  <2>1. pc = "entropy" /\ asked = EntropyLen /\ Answered("entropy")
    BY <1>2 DEF EntropyArrives, Answered, IInv, AskedFor
  <2>2. /\ buf \in [1 .. EntropyLen -> Nat]
        /\ Complete => \A i \in 1 .. EntropyLen : buf[i] = draws
    BY <2>1, Arrived
  <2>3. CASE NonceLen = 0
    <3>1. Instantiate(buf, Nothing)
      BY <1>2, <2>3 DEF EntropyArrives
    <3>2. Nothing \in [1 .. NonceLen -> Nat] /\ DOMAIN Nothing = 1 .. NonceLen
      BY <2>3 DEF Nothing
    <3>3. Nothing \in Bytes
      BY <2>3, <3>2 DEF Bytes
    <3>4. /\ src = "hw" => EntropyLen % Stride = 0 /\ NonceLen % Stride = 0
          /\ src = "custom" => draws <= 2
          => /\ \A i \in 1 .. EntropyLen :
                  buf[i] = draws - (IF NonceLen = 0 THEN 0 ELSE 1)
             /\ \A i \in 1 .. NonceLen : Nothing[i] = draws
      <4>1. draws \in Nat /\ draws - 0 = draws
        BY DEF IInv, SourceInv, SourceTyped
      <4> QED BY <2>1, <2>2, <2>3, <4>1 DEF Complete
    <3> QED BY <2>2, <2>3, <3>1, <3>2, <3>3, <3>4, InstantiateInv
  <2>4. CASE NonceLen # 0
    <3>1. /\ entropy' = buf /\ Wait("nonce", NonceLen)
          /\ UNCHANGED <<mech, resist, arg, kv, seeded, delivered, keyed, calls>>
      BY <1>2, <2>4 DEF EntropyArrives
    <3>2. /\ arg' \in [data : Inputs, blocks : 0 .. MaxBlocks]
          /\ calls' \in 0 .. MaxCalls /\ draws \in Nat
      BY <3>1 DEF IInv, GeneratorTyped, SourceInv, SourceTyped
    <3>3. SourceInv' /\ GeneratorTyped' /\ SeedIsFresh' /\ PastInv'
      BY <3>1, <3>2, WaitRest, LengthsTyped
    <3>4. pc' = "nonce" /\ asked' = NonceLen /\ draws' = draws + 1 /\ src' = src
      BY <3>1 DEF Wait, Ask
    <3>5. EntropyKept'
      BY <2>1, <2>2, <3>1, <3>2, <3>4 DEF EntropyKept, Complete
    <3> QED BY <2>4, <3>3, <3>4, <3>5 DEF IInv, AskedFor
  <2> QED BY <2>3, <2>4
<1>3. CASE NonceArrives
  <2>1. /\ pc = "nonce" /\ asked = NonceLen /\ NonceLen # 0
        /\ Answered("nonce") /\ Instantiate(entropy, buf)
    BY <1>3 DEF NonceArrives, Answered, IInv, AskedFor
  <2>2. /\ buf \in [1 .. NonceLen -> Nat]
        /\ Complete => \A i \in 1 .. NonceLen : buf[i] = draws
    BY <2>1, Arrived
  <2>3. /\ entropy \in [1 .. EntropyLen -> Nat]
        /\ (src = "hw" => EntropyLen % Stride = 0) /\ (src = "custom" => draws <= 2)
           => \A i \in 1 .. EntropyLen : entropy[i] = draws - 1
    BY <2>1 DEF IInv, EntropyKept
  <2>4. buf \in Bytes
    BY <2>2, DrbgAssumption DEF Bytes
  <2>5. /\ src = "hw" => EntropyLen % Stride = 0 /\ NonceLen % Stride = 0
        /\ src = "custom" => draws <= 2
        => /\ \A i \in 1 .. EntropyLen : entropy[i] = draws - (IF NonceLen = 0 THEN 0 ELSE 1)
           /\ \A i \in 1 .. NonceLen : buf[i] = draws
    BY <2>1, <2>2, <2>3 DEF Complete
  <2> QED BY <2>1, <2>2, <2>3, <2>4, <2>5, InstantiateInv
<1>4. CASE ReseedArrives
  BY <1>4, ReseedArrivesInv
<1>5. CASE GenRandomReturns
  <2>1. /\ Done("gen_random", "NONE")
        /\ UNCHANGED <<mech, resist, kv, seeded, delivered, keyed, calls>>
    BY <1>5 DEF GenRandomReturns
  <2>2. kv' \in KV /\ seeded' \in [draw : Nat, text : Inputs] /\ seeded'.draw <= draws
    BY <2>1 DEF IInv, GeneratorTyped
  <2>3. SourceInv' /\ GeneratorTyped' /\ AskedFor' /\ EntropyKept'
    BY <2>1, <2>2, DoneRest
  <2> QED
    BY <2>1, <2>3, SeedUnchanged, PastUnchanged DEF IInv, Done, Taken
<1> QED
  BY <1>1, <1>2, <1>3, <1>4, <1>5 DEF Proceed

LEMMA AnswerInv ==
  ASSUME IInv, Answer
  PROVE  IInv'
<1>1. /\ SourceStep
      /\ UNCHANGED <<mech, resist, pc, arg, entropy, kv, seeded, delivered, keyed, calls>>
  BY DEF Answer
<1>2. SourceInv'
  BY <1>1, SourceStepInv DEF IInv
<1>3. UNCHANGED <<src, asked, draws>> /\ status = "busy" /\ status' # "idle"
  BY <1>1 DEF SourceStep, OsRead, HwRead, HwDone, CustomRead, OsStatus
<1>4. GeneratorTyped'
  BY <1>1, <1>2, <1>3 DEF IInv, GeneratorTyped
<1> QED
  BY <1>1, <1>2, <1>3, <1>4, SeedUnchanged, PastUnchanged
     DEF IInv, AskedFor, EntropyKept

LEMMA NextInv == IInv /\ [Next]_vars => IInv'
<1> SUFFICES ASSUME IInv, [Next]_vars PROVE IInv'
  OBVIOUS
<1>1. CASE UNCHANGED vars
  <2>1. SourceInv'
    BY <1>1 DEF vars, IInv, SourceInv, SourceTyped, OsInv, HwInv, CustomInv, FilledTo
  <2> QED
    BY <1>1, <2>1, SeedUnchanged, PastUnchanged
       DEF vars, IInv, GeneratorTyped, AskedFor, EntropyKept
<1> QED
  BY <1>1, CallInv, ProceedInv, AnswerInv DEF Next

LEMMA Invariance == Spec => []IInv
BY InitInv, NextInv, PTL DEF Spec

-----------------------------------------------------------------------------
(***************************************************************************)
(* Every variable of a generator and its source stays in its set, for all  *)
(* lengths, numbers of retries, strides and size_t widths.                 *)
(***************************************************************************)
THEOREM TypeCorrect == Spec => []TypeOK
BY Invariance, IInvImplies, PTL

(***************************************************************************)
(* Success of a source means that every byte is entropy of this request    *)
(* (system_rng.cc:98-117), whatever number of retries is compiled in.      *)
(***************************************************************************)
THEOREM SourcesAreHonest == Spec => []SourceHonest
BY Invariance, IInvImplies, PTL

(***************************************************************************)
(* An initialised generator holds a whole and fresh seed until it is       *)
(* initialised again, however much was generated since (drbg.cc:62-76).    *)
(***************************************************************************)
THEOREM SeedStaysFresh == Spec => []SeedIsFresh
BY Invariance, PTL DEF IInv

(***************************************************************************)
(* No delivered block can be computed from the state kept, nor was a key   *)
(* made of one (drbg_hmac.cc:506, drbg_ctr_avx2.cc:214).                   *)
(***************************************************************************)
THEOREM ThePastIsSafe == Spec => []PastIsSafe
BY Invariance, IInvImplies, PTL

(***************************************************************************)
(* Every block an HMAC generator delivers under prediction resistance is   *)
(* made of a key that all of the entropy of this request went into         *)
(* (drbg.cc:126-138, drbg_hmac.cc:526-543).                                *)
(***************************************************************************)
THEOREM ReseedReachesOutput == Spec => ReseedReaches
<1> DEFINE A ==
      pc = "reseed" /\ pc' = "idle" /\ mech = "hmac" /\ Complete
      => \A b \in delivered' \ delivered :
           \E i \in DOMAIN b.ops :
             /\ b.ops[i].data.kind = "reseed"
             /\ \A j \in 1 .. ReseedLen : b.ops[i].data.ent[j] = draws
<1>1. ASSUME IInv, Next PROVE A
  <2>1. CASE CallAny
    BY <2>1 DEF CallAny, Initialize, Randomize, RandomizeResisting,
                SetPredictionResistance, GenRandom, Call
  <2>2. CASE EntropyFails \/ NonceFails \/ ReseedFails
    BY <2>2 DEF EntropyFails, NonceFails, ReseedFails, Failed
  <2>3. CASE EntropyArrives \/ NonceArrives \/ GenRandomReturns
    BY <2>3 DEF EntropyArrives, NonceArrives, GenRandomReturns, Answered
  <2>4. CASE ReseedArrives
    BY <1>1, <2>4, ReseedArrivesReaches
  <2>5. CASE Answer
    BY <2>5 DEF Answer
  <2> QED BY <1>1, <2>1, <2>2, <2>3, <2>4, <2>5 DEF Next, Proceed
<1>2. IInv /\ [Next]_vars => [A]_vars
  BY <1>1
<1> QED
  BY <1>2, Invariance, PTL DEF Spec, ReseedReaches
=============================================================================
