-------------------------------- MODULE Cmac --------------------------------
(***************************************************************************)
(* One AES-CMAC session: the class alcp::mac::Cmac behind the wrappers     *)
(* that alcp_mac_init / update / finalize / reset call.                    *)
(*                                                                         *)
(* The CBC chaining value m_buffEnc is determined by the key and the bytes *)
(* that went through it, in order, so `enc' is that sequence of bytes; the *)
(* first m_buff_offset bytes of m_buff are the sequence `buff'.  The       *)
(* expanded key and both subkeys are functions of the key: `key' stands    *)
(* for m_encrypt_keys, m_k1 and m_k2, and NoKey for the null pointer.      *)
(***************************************************************************)
EXTENDS Aes, Integers, Sequences

CONSTANTS
  BadKeys,          (* keys of other sizes than 16, 24 and 32 bytes        *)
  Byte,             (* the bytes messages are made of, 0 and 128 included  *)
  NoData,           (* a null message pointer                              *)
  NoTag,            (* nothing delivered for the current message           *)
  BlockCountLimit,  (* one call's block count is cast to Uint32: 2^32      *)
  MaxMsg            (* bound: bytes one message may have                   *)

ASSUME CmacAssumption ==
  /\ Block \in Nat \ {0}
  /\ BlockCountLimit \in Nat
  /\ MaxMsg \in Nat
  /\ MaxMsg < Block * BlockCountLimit
  /\ {0, 128} \subseteq Byte
  /\ Keys \cap BadKeys = {}
  /\ NoKey \notin Keys \cup BadKeys

ASSUME NoDataIsNoData == NoData \notin Seq(Byte)

VARIABLES
  key,              (* the key the subkeys and round keys come from        *)
  enc,              (* bytes encrypted into the chaining value             *)
  buff,             (* bytes waiting in m_buff                             *)
  finalized,        (* m_finalized                                         *)
  fed,              (* history: the bytes update took for this message     *)
  out,              (* the MAC written to the caller for this message      *)
  ret               (* what the last call was and returned                 *)

vars == <<key, enc, buff, finalized, fed, out, ret>>

-----------------------------------------------------------------------------
\* The unused part of the last block: a one bit, then zeros.
Padding(n) == <<128>> \o [i \in 1 .. (Block - 1 - n) |-> 0]

(***************************************************************************)
(* AES-CMAC (NIST SP 800-38B): every byte goes through the chain, the last *)
(* block masked with K1 when it is complete, padded and masked with K2     *)
(* when it is not.                                                         *)
(***************************************************************************)
CmacOf(k, m) ==
  IF m # <<>> /\ Len(m) % Block = 0
  THEN [key |-> k, stream |-> m, mask |-> "k1"]
  ELSE [key |-> k, stream |-> m \o Padding(Len(m) % Block), mask |-> "k2"]

Returned(op, err, k) == ret' = [op |-> op, err |-> err, key |-> k]

-----------------------------------------------------------------------------
Init ==
  /\ key = NoKey
  /\ enc = <<>>
  /\ buff = <<>>
  /\ finalized = FALSE
  /\ fed = <<>>
  /\ out = NoTag
  /\ ret = [op |-> "request", err |-> "NONE", key |-> NoKey]

\* Variant of Cleared: m_buff_offset is not reset.
ClearedKeepsBuffer ==
  /\ enc' = <<>>
  /\ finalized' = FALSE
  /\ fed' = <<>>
  /\ out' = NoTag
  /\ UNCHANGED buff

\* reset(): zeroes both buffers, keeps the key.
Cleared ==
  /\ enc' = <<>>
  /\ buff' = <<>>
  /\ finalized' = FALSE
  /\ fed' = <<>>
  /\ out' = NoTag

Reset ==
  /\ Cleared
  /\ Returned("reset", "NONE", NoKey)
  /\ UNCHANGED key

\* init with a key of a legal size expands it and clears the session.
InitKey(k) ==
  /\ key' = k
  /\ Cleared
  /\ Returned("init", "NONE", k)

\* Variant of InitBadKey: the size of the key is not checked.
InitAnyKey(k) ==
  /\ key' = k
  /\ Cleared
  /\ Returned("init", "NONE", k)

\* A key of another size is refused by Cmac::init before it changes anything,
\* but the wrapper drops that error and reports success.
InitBadKey(k) ==
  /\ Returned("init", "NONE", k)
  /\ UNCHANGED <<key, enc, buff, finalized, fed, out>>

-----------------------------------------------------------------------------
\* The order of update's early returns: finished, null data, no key, no bytes.
UpdateRefused(d) ==
  /\ finalized \/ (d # NoData /\ key = NoKey)
  /\ Returned("update", "BAD_STATE", NoKey)
  /\ UNCHANGED <<key, enc, buff, finalized, fed, out>>

UpdateNothing(d) ==
  /\ ~finalized
  /\ d = NoData \/ (key # NoKey /\ d = <<>>)
  /\ Returned("update", "NONE", NoKey)
  /\ UNCHANGED <<key, enc, buff, finalized, fed, out>>

Absorbing(d) ==
  /\ ~finalized
  /\ key # NoKey
  /\ d \notin {NoData, <<>>}
  /\ Len(fed) + Len(d) <= MaxMsg
  /\ fed' = fed \o d

\* A full block stays in the buffer: it may turn out to be the last one.
UpdateBuffered(d) ==
  /\ Absorbing(d)
  /\ Len(buff) + Len(d) <= Block
  /\ buff' = buff \o d
  /\ Returned("update", "NONE", NoKey)
  /\ UNCHANGED <<key, enc, finalized, out>>

\* Variant of HeldBack: a block that ends the data is encrypted at once.
HeldBackNoBlock(rem) == rem % Block

\* Of the `rem' bytes left once the buffer is full, the bytes that stay for the
\* next call: a whole block when rem is a multiple of the block size.
HeldBack(rem) == IF rem % Block = 0 THEN Block ELSE rem % Block

\* The full blocks of those bytes that are encrypted now.
BlocksOf(rem) == (rem - HeldBack(rem)) \div Block

UpdateProcessed(d) ==
  /\ Absorbing(d)
  /\ Len(buff) + Len(d) > Block
  /\ LET fill == Block - Len(buff)
         blocks == BlocksOf(Len(d) - fill)
         now == fill + Block * (blocks % BlockCountLimit)
         next == fill + Block * blocks
     IN /\ enc' = (enc \o buff) \o SubSeq(d, 1, now)
        /\ buff' = SubSeq(d, next + 1, next + HeldBack(Len(d) - fill))
  /\ Returned("update", "NONE", NoKey)
  /\ UNCHANGED <<key, finalized, out>>

Update(d) ==
  \/ UpdateRefused(d)
  \/ UpdateNothing(d)
  \/ UpdateBuffered(d)
  \/ UpdateProcessed(d)

-----------------------------------------------------------------------------
FinalizeRefused ==
  /\ finalized \/ key = NoKey
  /\ Returned("finalize", "BAD_STATE", NoKey)
  /\ UNCHANGED <<key, enc, buff, finalized, fed, out>>

\* The masked last block goes through the chain, which then holds the MAC.
\* The code pads m_buff in place; nothing reads it before the next reset.
FinalizeWith(block, mask) ==
  /\ ~finalized
  /\ key # NoKey
  /\ enc' = enc \o block
  /\ out' = [key |-> key, stream |-> enc', mask |-> mask]
  /\ finalized' = TRUE
  /\ Returned("finalize", "NONE", NoKey)
  /\ UNCHANGED <<key, buff, fed>>

\* Variant of FinalizeFull: the wrong subkey.
FinalizeFullWithK2 ==
  /\ Len(buff) = Block
  /\ FinalizeWith(buff, "k2")

FinalizeFull ==
  /\ Len(buff) = Block
  /\ FinalizeWith(buff, "k1")

FinalizePadded ==
  /\ Len(buff) # Block
  /\ FinalizeWith(buff \o Padding(Len(buff)), "k2")

Finalize == FinalizeRefused \/ FinalizeFull \/ FinalizePadded

-----------------------------------------------------------------------------
\* Whatever the caller passes to update: a null pointer or some bytes.
Data == {NoData} \cup UNION {[1..n -> Byte] : n \in 0..MaxMsg}

Next ==
  \/ Reset
  \/ \E k \in Keys : InitKey(k)
  \/ \E k \in BadKeys : InitBadKey(k)
  \/ \E d \in Data : Update(d)
  \/ Finalize

Spec == Init /\ [][Next]_vars

-----------------------------------------------------------------------------
Rets == [op : {"request", "init", "update", "finalize", "reset"},
         err : {"NONE", "BAD_STATE"},
         key : Keys \cup BadKeys \cup {NoKey}]

Tags == [key : Keys, stream : Seq(Byte), mask : {"k1", "k2"}]

(* Every variable stays in the set its declaration in cmac.hh gives it.    *)
TypeOK ==
  /\ key \in Keys \cup {NoKey}
  /\ enc \in Seq(Byte)
  /\ buff \in Seq(Byte)
  /\ finalized \in BOOLEAN
  /\ fed \in Seq(Byte)
  /\ out \in Tags \cup {NoTag}
  /\ ret \in Rets

(***************************************************************************)
(* While a message is being absorbed, only whole blocks have been          *)
(* encrypted, at most one block waits in the buffer, and whenever anything *)
(* was absorbed at least one byte still waits: the block that may be the   *)
(* last of the message is never encrypted without its mask.  Without a key *)
(* nothing is absorbed.                                                    *)
(***************************************************************************)
LastBlockHeldBack ==
  ~finalized =>
    /\ Len(enc) % Block = 0
    /\ Len(buff) <= Block
    /\ buff = <<>> => enc = <<>>
    /\ key = NoKey => buff = <<>>

(***************************************************************************)
(* No byte is lost, repeated or reordered on the way through the buffer,   *)
(* wherever the calls to update cut the message: what was encrypted and    *)
(* what waits are together exactly the bytes handed over, in order.        *)
(***************************************************************************)
NoByteLost == ~finalized => enc \o buff = fed

(***************************************************************************)
(* An init that reports success has set the key it was given: "Set key and *)
(* initialize MAC session", "ALC_ERROR_NONE on success" (mac.h:154, 165).  *)
(* The session after it is one under that key, whatever was in place.      *)
(***************************************************************************)
InitSetsTheKey == ret.op = "init" /\ ret.err = "NONE" => key = ret.key

(***************************************************************************)
(* The session implements MacSession: the MAC delivered is AES-CMAC, as    *)
(* NIST defines it on whole messages, of the bytes handed over since the   *)
(* last init or reset, under the key the session holds.                    *)
(***************************************************************************)
MS == INSTANCE MacSession WITH
        Data <- Data \ {NoData},
        msg <- fed,
        done <- finalized,
        tag <- out,
        MacOf <- CmacOf

ImplementsMacSession == MS!Spec
=============================================================================
