----------------------------- MODULE MultiBuffer -----------------------------
(***************************************************************************)
(* The object Sha2MB: a batch of equally long messages is staged by flush  *)
(* and hashed by dequeue, many at once when the batch is large enough.     *)
(* The operators give the state of an object after each member function;   *)
(* Sha2MB drives one object from a digest handle, HmacMB from a MAC.       *)
(*                                                                         *)
(* A digest is what went into it: the bytes compressed, in order, and the  *)
(* number of bits the padding claims.  How the padding is laid out is the  *)
(* subject of module Sha2.                                                 *)
(***************************************************************************)
EXTENDS Integers, Sequences

CONSTANTS
  BlockLen,         (* bytes in a block: 64 in the code                    *)
  MaxBuffers,       (* MAX_BUFFERS: 128 in the code                        *)
  VectorMin,        (* fewest buffers the AVX512 kernel takes, 6 in the    *)
                    (* code; above MaxBuffers without AVX512               *)
  LenLimit,         (* lengths flush refuses start here: UINT64_MAX / 8    *)
  Beyond            (* a byte that lies behind the end of a message        *)

ASSUME MultiBufferAssumption ==
  /\ BlockLen \in Nat \ {0}
  /\ MaxBuffers \in Nat \ {0}
  /\ VectorMin \in Nat \ {0}
  /\ LenLimit \in Nat \ {0}

-----------------------------------------------------------------------------
\* UINT64_MAX in m_blocks: no number of blocks has been set.
Unset == -1

Hash(m) == [data |-> m, bits |-> 8 * Len(m)]

\* An object on which init has been called.
FreshObject == [hash |-> <<>>, src |-> <<>>, len |-> 0, num |-> 0, blocks |-> Unset]

SetState(mb, h) == [mb EXCEPT !.hash = h]

SetBlocks(mb, b) == [mb EXCEPT !.blocks = b]

\* Variant of FlushAllowed: a comparison off by one.
FlushAllowedOneMore(num, len) ==
  num \in 1 .. (MaxBuffers + 1) /\ len < LenLimit

FlushAllowed(num, len) == num \in 1 .. MaxBuffers /\ len < LenLimit

\* A number of blocks that is already there is taken for a caller's choice.
Flushed(mb, src, num, len) ==
  [mb EXCEPT !.src = src,
             !.num = num,
             !.len = len,
             !.blocks = IF @ = Unset THEN len \div BlockLen ELSE @]

DequeueAllowed(mb, n) == n \in 1 .. mb.num

\* n bytes of message m behind the first k, in memory or past its end.
Read(m, k, n) ==
  [j \in 1 .. n |-> IF k + j <= Len(m) THEN m[k + j] ELSE Beyond]

\* The kernel goes on from m_hash: m_blocks whole blocks, then what the total
\* length leaves over.
VectorDigest(mb, i) ==
  LET whole == mb.blocks * BlockLen
      rest == mb.len % BlockLen
  IN [data |-> (mb.hash \o Read(mb.src[i], 0, whole))
                 \o Read(mb.src[i], whole, rest),
      bits |-> 8 * mb.len]

\* A small batch goes through one Sha2 object, which looks at neither.
ScalarDigest(mb, i) == Hash(Read(mb.src[i], 0, mb.len))

Digests(mb, n) ==
  [i \in 1 .. n |->
     IF n >= VectorMin THEN VectorDigest(mb, i) ELSE ScalarDigest(mb, i)]

\* Variant of Dequeued: m_blocks is not reset.
DequeuedKeepsBlocks(mb) == mb

Dequeued(mb) == SetBlocks(mb, Unset)
=============================================================================
