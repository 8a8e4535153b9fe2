-------------------------------- MODULE Sha2 --------------------------------
(***************************************************************************)
(* One SHA-2 session: the class Sha2 (SHA-224, SHA-256) or Sha2_512        *)
(* (SHA-384, SHA-512, SHA-512/t) behind alcp_digest_init / update /        *)
(* finalize, from the first init on.  The two classes absorb data alike    *)
(* and differ in which calls they refuse and in the order finalize checks  *)
(* its arguments: `wide' tells which one this is, for good.                *)
(*                                                                         *)
(* The chaining value m_hash is determined by the bytes compressed into    *)
(* it, in order, so `comp' is that sequence; the first m_idx bytes of      *)
(* m_buffer are the sequence `buf'.  Each byte of the message length at    *)
(* the end of the last block is the number 256 + the length in bits: what  *)
(* matters is which length it encodes and that it is not message data.     *)
(***************************************************************************)
EXTENDS Integers, Sequences

CONSTANTS
  Chunk,            (* cChunkSize: 128 or 64 bytes in the code             *)
  LenBytes,         (* bytes of the length field: 16 or 8                  *)
  BitCountLimit,    (* m_msg_len * 8 is computed in a Uint64: 2^64         *)
  Byte,             (* the bytes messages are made of, 0 and 128 included  *)
  NoData,           (* a null message pointer                              *)
  NoDigest,         (* nothing delivered for the current message           *)
  MaxMsg            (* bound: bytes one message may have                   *)

ASSUME Sha2Assumption ==
  /\ Chunk \in Nat
  /\ LenBytes \in Nat
  /\ LenBytes < Chunk
  /\ MaxMsg \in Nat
  /\ BitCountLimit \in Nat
  /\ 8 * MaxMsg < BitCountLimit
  /\ {0, 128} \subseteq Byte
  /\ Byte \subseteq 0 .. 255
  /\ NoData \notin Seq(Byte)

VARIABLES
  wide,             (* TRUE for Sha2_512, FALSE for Sha2                   *)
  comp,             (* bytes compressed into the hash                      *)
  buf,              (* bytes waiting in m_buffer                           *)
  msgLen,           (* m_msg_len                                           *)
  finished,         (* m_finished                                          *)
  fed,              (* history: the bytes update took since init           *)
  spoiled,          (* history: a finalize failed after it padded          *)
  out,              (* the digest written to the caller since init         *)
  ret               (* what the last call was and returned                 *)

vars == <<wide, comp, buf, msgLen, finished, fed, spoiled, out, ret>>

-----------------------------------------------------------------------------
Zeros(n) == [i \in 1 .. n |-> 0]

LengthField(bits) == [i \in 1 .. LenBytes |-> 256 + bits]

(***************************************************************************)
(* The hash of a message as FIPS 180-4 pads it (section 5.1): a one bit,   *)
(* the smallest number of zeros that leaves room for the length at the end *)
(* of a block, and the length in bits.                                     *)
(***************************************************************************)
ZeroCount(n) ==
  CHOOSE k \in 0 .. (Chunk - 1) : (n + 1 + k + LenBytes) % Chunk = 0

HashOf(m) ==
  ((m \o <<128>>) \o Zeros(ZeroCount(Len(m)))) \o LengthField(8 * Len(m))

Returned(op, err) == ret' = [op |-> op, err |-> err]

-----------------------------------------------------------------------------
Init ==
  /\ wide \in BOOLEAN
  /\ comp = <<>>
  /\ buf = <<>>
  /\ msgLen = 0
  /\ finished = FALSE
  /\ fed = <<>>
  /\ spoiled = FALSE
  /\ out = NoDigest
  /\ ret = [op |-> "init", err |-> "NONE"]

\* Variant of InitSession: m_idx is not reset.
InitSessionKeepsBuffer ==
  /\ comp' = <<>>
  /\ msgLen' = 0
  /\ finished' = FALSE
  /\ fed' = <<>>
  /\ spoiled' = FALSE
  /\ out' = NoDigest
  /\ Returned("init", "NONE")
  /\ UNCHANGED <<wide, buf>>

\* init() loads the IV again; what m_buffer holds stays but is out of use.
InitSession ==
  /\ comp' = <<>>
  /\ buf' = <<>>
  /\ msgLen' = 0
  /\ finished' = FALSE
  /\ fed' = <<>>
  /\ spoiled' = FALSE
  /\ out' = NoDigest
  /\ Returned("init", "NONE")
  /\ UNCHANGED wide

-----------------------------------------------------------------------------
\* Sha2 looks at m_finished before the size, Sha2_512 after it.
UpdateRefused(d) ==
  /\ d = NoData \/ (finished /\ (wide => d # <<>>))
  /\ Returned("update", "INVALID_ARG")
  /\ UNCHANGED <<wide, comp, buf, msgLen, finished, fed, spoiled, out>>

UpdateNothing(d) ==
  /\ d = <<>>
  /\ wide \/ ~finished
  /\ Returned("update", "NONE")
  /\ UNCHANGED <<wide, comp, buf, msgLen, finished, fed, spoiled, out>>

Absorbing(d) ==
  /\ ~finished
  /\ d \notin {NoData, <<>>}
  /\ Len(fed) + Len(d) <= MaxMsg
  /\ fed' = fed \o d
  /\ msgLen' = msgLen + Len(d)
  /\ Returned("update", "NONE")
  /\ UNCHANGED <<wide, finished, spoiled, out>>

UpdateBuffered(d) ==
  /\ Absorbing(d)
  /\ Len(d) + Len(buf) < Chunk
  /\ buf' = buf \o d
  /\ UNCHANGED comp

\* Bytes of d that complete the chunk in the buffer.
Fill(d) == IF buf = <<>> THEN 0 ELSE Chunk - Len(buf)

\* Bytes of d that are compressed by this call: those, and every whole chunk
\* that follows.
Compressed(d) == Fill(d) + Chunk * ((Len(d) - Fill(d)) \div Chunk)

UpdateProcessed(d) ==
  /\ Absorbing(d)
  /\ Len(d) + Len(buf) >= Chunk
  /\ comp' = (comp \o buf) \o SubSeq(d, 1, Compressed(d))
  /\ buf' = SubSeq(d, Compressed(d) + 1, Len(d))

Update(d) ==
  \/ UpdateRefused(d)
  \/ UpdateNothing(d)
  \/ UpdateBuffered(d)
  \/ UpdateProcessed(d)

-----------------------------------------------------------------------------
\* Variant of FinalSize: a comparison off by one.
FinalSizeStrict(idx) == IF idx < Chunk - LenBytes THEN Chunk ELSE 2 * Chunk

\* One chunk when the length still fits behind the one bit, else two.
FinalSize(idx) == IF idx <= Chunk - LenBytes THEN Chunk ELSE 2 * Chunk

\* Everything that has been compressed once the padded buffer has been, too.
Padded ==
  LET idx == Len(buf) + 1
  IN (((comp \o buf) \o <<128>>) \o Zeros(FinalSize(idx) - idx - LenBytes))
       \o LengthField((8 * msgLen) % BitCountLimit)

\* Variant of FinalizeDelivers: m_idx still counts the padding.
FinalizeKeepsPadding ==
  /\ ~finished
  /\ out' = Padded
  /\ comp' = comp
  /\ buf' = (buf \o <<128>>) \o LengthField(8 * msgLen)
  /\ finished' = TRUE
  /\ Returned("finalize", "NONE")
  /\ UNCHANGED <<wide, msgLen, fed, spoiled>>

FinalizeDelivers ==
  /\ ~finished
  /\ out' = Padded
  /\ comp' \in {Padded, comp}          (* SHA-NI writes no hash back       *)
  /\ wide => comp' = Padded
  /\ buf' = <<>>
  /\ finished' = TRUE
  /\ Returned("finalize", "NONE")
  /\ UNCHANGED <<wide, msgLen, fed, spoiled>>

\* Success is reported again and nothing is written.
FinalizeAgain(fits) ==
  /\ finished
  /\ wide \/ fits
  /\ Returned("finalize", "NONE")
  /\ UNCHANGED <<wide, comp, buf, msgLen, finished, fed, spoiled, out>>

\* Sha2 checks the caller's buffer before it touches anything.
FinalizeRefused(fits) ==
  /\ ~wide
  /\ ~fits
  /\ Returned("finalize", "INVALID_ARG")
  /\ UNCHANGED <<wide, comp, buf, msgLen, finished, fed, spoiled, out>>

\* Sha2_512 checks it after the padded buffer has been compressed.  Bound: the
\* guard on `spoiled' lets this happen once for each message.
FinalizeSpoils(fits) ==
  /\ wide
  /\ ~fits
  /\ ~finished
  /\ ~spoiled
  /\ comp' = Padded
  /\ buf' = buf \o <<128>>
  /\ spoiled' = TRUE
  /\ Returned("finalize", "INVALID_ARG")
  /\ UNCHANGED <<wide, msgLen, finished, fed, out>>

\* fits: the caller's buffer is not null and its size is the digest size.
Finalize(fits) ==
  \/ fits /\ FinalizeDelivers
  \/ FinalizeAgain(fits)
  \/ FinalizeRefused(fits)
  \/ FinalizeSpoils(fits)

-----------------------------------------------------------------------------
\* Whatever the caller passes to update: a null pointer or some bytes.
Data == {NoData} \cup UNION {[1..n -> Byte] : n \in 0..MaxMsg}

Next ==
  \/ InitSession
  \/ \E d \in Data : Update(d)
  \/ \E fits \in BOOLEAN : Finalize(fits)

Spec == Init /\ [][Next]_vars

-----------------------------------------------------------------------------
Stream == Seq(Nat)

Rets == [op : {"init", "update", "finalize"}, err : {"NONE", "INVALID_ARG"}]

(* Every variable stays in the set its declaration gives it.               *)
TypeOK ==
  /\ wide \in BOOLEAN
  /\ comp \in Stream
  /\ buf \in Seq(Byte)
  /\ msgLen \in Nat
  /\ finished \in BOOLEAN
  /\ fed \in Seq(Byte)
  /\ spoiled \in BOOLEAN
  /\ out \in Stream \cup {NoDigest}
  /\ ret \in Rets

(***************************************************************************)
(* While a message is being absorbed and no finalize has failed, whole     *)
(* chunks have been compressed, less than a chunk waits, the two together  *)
(* are the bytes handed over, in order, and m_msg_len counts them: neither *)
(* the buffered nor the direct path loses, repeats or reorders a byte.     *)
(***************************************************************************)
MessageAccounted ==
  ~finished /\ ~spoiled =>
    /\ comp \o buf = fed
    /\ Len(comp) % Chunk = 0
    /\ Len(buf) < Chunk
    /\ msgLen = Len(fed)

(***************************************************************************)
(* A digest delivered when no finalize of this message failed is the hash  *)
(* of the message, padded as FIPS 180-4 says: the choice between one and   *)
(* two final chunks, the zeros and the length agree with the standard for  *)
(* every number of bytes left over.                                        *)
(***************************************************************************)
CleanDigest == out # NoDigest /\ ~spoiled => out = HashOf(fed)


(***************************************************************************)
(* The session implements DigestSession, refused calls included.  A        *)
(* finalize of Sha2_512 that fails after it padded (sha512.cc:314) loses   *)
(* the message: to the contract it is a new start, and what the session    *)
(* absorbs and delivers after it, until the next init, is outside of it.   *)
(***************************************************************************)
DS == INSTANCE DigestSession WITH
        Data <- Data \ {NoData},
        msg <- IF spoiled THEN <<>> ELSE fed,
        done <- finished /\ ~spoiled,
        digest <- IF spoiled THEN NoDigest ELSE out

ImplementsDigestSession == DS!Spec
=============================================================================
