-------------------------------- MODULE HmacMB --------------------------------
(***************************************************************************)
(* A multi-buffer HMAC handle, from alcp_mac_init on: HmacMB with the      *)
(* multi-buffer digest object it owns.  A large batch is hashed twice by   *)
(* that object, from chaining values computed at init; a small one goes,   *)
(* message by message, through a single-buffer Hmac that reads the key     *)
(* again where the caller keeps it.                                        *)
(***************************************************************************)
EXTENDS MultiBuffer

CONSTANTS
  KeyTexts,         (* contents of the caller's key buffer                 *)
  DigestLen,        (* m_digest_size_bytes, less than a block              *)
  Batches,          (* names of the caller's arrays of messages            *)
  MaxLen            (* bound: bytes one message may have                   *)

ASSUME HmacMBAssumption ==
  /\ DigestLen \in Nat
  /\ DigestLen < BlockLen
  /\ BlockLen + DigestLen < LenLimit
  /\ MaxLen \in Nat

VARIABLES
  keyMem,           (* what the caller's key buffer holds, at m_key        *)
  padKey,           (* the key m_hash_after_ipad and _opad were made of    *)
  mb,               (* m_digest_mb                                         *)
  src,              (* the messages m_buffers points to                    *)
  len,              (* m_msg_len                                           *)
  num,              (* m_num_buffers                                       *)
  macs,             (* the MACs the last dequeue wrote                     *)
  last              (* what the last call was and returned                 *)

batchVars == <<keyMem, padKey, mb, src, len, num, macs, last>>

staged == <<src, len, num>>

LastWas(op, err) == last' = [op |-> op, err |-> err]

-----------------------------------------------------------------------------
\* The block K0 ^ ipad or K0 ^ opad.
Padded(pad, k) == [j \in 1 .. BlockLen |-> <<pad, k, j>>]

\* The bytes of a digest, as they lie in a buffer.
Bytes(d) == [j \in 1 .. DigestLen |-> <<d, j>>]

\* The HMAC of FIPS 198-1.
MacOf(k, m) == Hash(Padded("opad", k) \o Bytes(Hash(Padded("ipad", k) \o m)))

Batch(b, n, l) == [i \in 1 .. n |-> [j \in 1 .. l |-> <<b, i, j>>]]

-----------------------------------------------------------------------------
BatchInit ==
  /\ keyMem \in KeyTexts
  /\ padKey = keyMem
  /\ mb = FreshObject
  /\ src = <<>>
  /\ len = 0
  /\ num = 0
  /\ macs = <<>>
  /\ last = [op |-> "init", err |-> "NONE"]

\* A new digest object; what was staged stays staged.
InitAgain(k) ==
  /\ keyMem' = k
  /\ padKey' = k
  /\ mb' = FreshObject
  /\ LastWas("init", "NONE")
  /\ UNCHANGED <<staged, macs>>

\* The caller writes something else over the key, of which init kept the
\* address.
KeyRewritten(k) ==
  /\ keyMem' = k
  /\ LastWas("rewrite", "NONE")
  /\ UNCHANGED <<padKey, mb, staged, macs>>

FlushRefused(n, l) ==
  /\ ~FlushAllowed(n, l)
  /\ LastWas("flush", "INVALID_ARG")
  /\ UNCHANGED <<keyMem, padKey, mb, staged, macs>>

FlushStages(b, n, l) ==
  /\ FlushAllowed(n, l)
  /\ src' = Batch(b, n, l)
  /\ len' = l
  /\ num' = n
  /\ LastWas("flush", "NONE")
  /\ UNCHANGED <<keyMem, padKey, mb, macs>>

Flush(b, n, l) == FlushRefused(n, l) \/ FlushStages(b, n, l)

-----------------------------------------------------------------------------
\* Variant of Loaded: the block of the key is not taken off.
LoadedWithoutSetBlocks(o, state, batch, n, l) ==
  Flushed(SetState(o, state), batch, n, BlockLen + l)

\* The digest object loaded with a chaining value that has one block behind
\* it, and a batch of l more bytes.
Loaded(o, state, batch, n, l) ==
  SetBlocks(Flushed(SetState(o, state), batch, n, BlockLen + l),
            (BlockLen + l) \div BlockLen - 1)

\* H((K0 ^ ipad) || message), left in the caller's output buffers ...
InnerHash(n) == Loaded(mb, Padded("ipad", padKey), src, n, len)

InnerDigests(n) == Digests(InnerHash(n), n)

\* ... and H((K0 ^ opad) || what is in them).
OuterHash(n) ==
  Loaded(Dequeued(InnerHash(n)), Padded("opad", padKey),
         [i \in 1 .. n |-> Bytes(InnerDigests(n)[i])], n, DigestLen)

DequeueRefused(n) ==
  /\ n \notin 1 .. num
  /\ LastWas("dequeue", "INVALID_ARG")
  /\ UNCHANGED <<keyMem, padKey, mb, staged, macs>>

DequeueVector(n) ==
  /\ n \in 1 .. num
  /\ n >= VectorMin
  /\ FlushAllowed(n, BlockLen + len)
  /\ macs' = Digests(OuterHash(n), n)
  /\ mb' = Dequeued(OuterHash(n))
  /\ LastWas("dequeue", "NONE")
  /\ UNCHANGED <<keyMem, padKey, staged>>

\* The length HmacMB::flush took is too long once the key's block is added.
DequeueTooLong(n) ==
  /\ n \in 1 .. num
  /\ n >= VectorMin
  /\ ~FlushAllowed(n, BlockLen + len)
  /\ mb' = SetState(mb, Padded("ipad", padKey))
  /\ LastWas("dequeue", "INVALID_ARG")
  /\ UNCHANGED <<keyMem, padKey, staged, macs>>

DequeueSingle(n) ==
  /\ n \in 1 .. num
  /\ n < VectorMin
  /\ macs' = [i \in 1 .. n |-> MacOf(keyMem, SubSeq(src[i], 1, len))]
  /\ LastWas("dequeue", "NONE")
  /\ UNCHANGED <<keyMem, padKey, mb, staged>>

Dequeue(n) ==
  DequeueRefused(n) \/ DequeueVector(n) \/ DequeueTooLong(n) \/ DequeueSingle(n)

-----------------------------------------------------------------------------
BatchNext ==
  \/ \E k \in KeyTexts : InitAgain(k) \/ KeyRewritten(k)
  \/ \E b \in Batches, n \in 1 .. (MaxBuffers + 1), l \in 0 .. MaxLen :
       Flush(b, n, l)
  \/ \E n \in 1 .. (MaxBuffers + 1) : Dequeue(n)

BatchSpec == BatchInit /\ [][BatchNext]_batchVars

-----------------------------------------------------------------------------
(* Keys, lengths and results stay in the sets declared for them.           *)
BatchTypeOK ==
  /\ {keyMem, padKey} \subseteq KeyTexts
  /\ mb.blocks = Unset
  /\ num \in 0 .. MaxBuffers
  /\ Len(src) = num
  /\ len \in 0 .. (LenLimit - 1)
  /\ Len(macs) <= MaxBuffers
  /\ last \in [op : {"init", "rewrite", "flush", "dequeue"},
              err : {"NONE", "INVALID_ARG"}]

(***************************************************************************)
(* Every batch a dequeue delivers holds the HMACs of the messages of the   *)
(* last flush, whichever path computes them and whatever was staged,       *)
(* refused or dequeued before: the two hashings by the digest object start *)
(* from the right chaining value and number of blocks each time.  On the   *)
(* single-buffer path the key is the one in the caller's buffer at that    *)
(* time, on the vector path the one given to init.                         *)
(***************************************************************************)
BatchAuthenticated ==
  last = [op |-> "dequeue", err |-> "NONE"] =>
    \A i \in 1 .. Len(macs) :
      macs[i] = MacOf(IF Len(macs) < VectorMin THEN keyMem ELSE padKey, src[i])
=============================================================================
