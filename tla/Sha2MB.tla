-------------------------------- MODULE Sha2MB --------------------------------
(***************************************************************************)
(* A multi-buffer digest handle, from alcp_digest_init on: any order of    *)
(* alcp_digest_init, alcp_digest_flush and alcp_digest_dequeue.            *)
(*                                                                         *)
(* The j-th byte of the i-th message of a batch b is <<b, i, j>>: the code *)
(* looks at no byte, only at where it lies.  The caller leaves the staged  *)
(* buffers alone until they are dequeued.                                  *)
(***************************************************************************)
EXTENDS MultiBuffer

CONSTANTS
  Batches,          (* names of the caller's arrays of messages            *)
  MaxLen            (* bound: bytes one message may have                   *)

ASSUME Sha2MBAssumption == MaxLen \in Nat

VARIABLES
  mb,               (* the object behind the handle                        *)
  flushes,          (* history: flushes since a dequeue succeeded, 2 and   *)
                    (* more counted as 2                                   *)
  digests,          (* the digests the last dequeue wrote                  *)
  last              (* what the last call was, returned, and whether its   *)
                    (* batch was flushed once                              *)

batchVars == <<mb, flushes, digests, last>>

LastWas(op, err) == last' = [op |-> op, err |-> err, once |-> flushes = 1]

Batch(b, num, len) == [i \in 1 .. num |-> [j \in 1 .. len |-> <<b, i, j>>]]

\* The process reads memory far behind its buffers and cannot go on.
Running == last.err # "OVERRUN"

-----------------------------------------------------------------------------
BatchInit ==
  /\ mb = FreshObject
  /\ flushes = 0
  /\ digests = <<>>
  /\ last = [op |-> "init", err |-> "NONE", once |-> FALSE]

\* init() loads the initial hash value; the staged batch and the number of
\* blocks stay as they are.
InitAgain ==
  /\ Running
  /\ mb' = SetState(mb, <<>>)
  /\ LastWas("init", "NONE")
  /\ UNCHANGED <<flushes, digests>>

-----------------------------------------------------------------------------
FlushRefused(num, len) ==
  /\ Running
  /\ ~FlushAllowed(num, len)
  /\ LastWas("flush", "INVALID_ARG")
  /\ UNCHANGED <<mb, flushes, digests>>

FlushStages(b, num, len) ==
  /\ Running
  /\ FlushAllowed(num, len)
  /\ mb' = Flushed(mb, Batch(b, num, len), num, len)
  /\ flushes' = IF flushes = 0 THEN 1 ELSE 2
  /\ LastWas("flush", "NONE")
  /\ UNCHANGED digests

Flush(b, num, len) == FlushRefused(num, len) \/ FlushStages(b, num, len)

-----------------------------------------------------------------------------
\* fits: digestLen is the length of the digest.
DequeueRefused(n, fits) ==
  /\ Running
  /\ ~DequeueAllowed(mb, n) \/ ~fits
  /\ LastWas("dequeue", "INVALID_ARG")
  /\ UNCHANGED <<mb, flushes, digests>>

DequeueDelivers(n) ==
  /\ Running
  /\ DequeueAllowed(mb, n)
  /\ n >= VectorMin => mb.blocks # Unset
  /\ digests' = Digests(mb, n)
  /\ mb' = Dequeued(mb)
  /\ flushes' = 0
  /\ LastWas("dequeue", "NONE")

\* The batch has been dequeued before: the kernel is told to compress
\* UINT64_MAX blocks.
DequeueOverruns(n) ==
  /\ Running
  /\ DequeueAllowed(mb, n)
  /\ n >= VectorMin
  /\ mb.blocks = Unset
  /\ LastWas("dequeue", "OVERRUN")
  /\ UNCHANGED <<mb, flushes, digests>>

Dequeue(n, fits) ==
  \/ DequeueRefused(n, fits)
  \/ fits /\ DequeueDelivers(n)
  \/ fits /\ DequeueOverruns(n)

-----------------------------------------------------------------------------
\* One buffer more than allowed is offered, and lengths up to the bound.
BatchNext ==
  \/ InitAgain
  \/ \E b \in Batches, num \in 1 .. (MaxBuffers + 1), len \in 0 .. MaxLen :
       Flush(b, num, len)
  \/ \E n \in 1 .. (MaxBuffers + 1), fits \in BOOLEAN : Dequeue(n, fits)

BatchSpec == BatchInit /\ [][BatchNext]_batchVars

-----------------------------------------------------------------------------
(* The object and the calls' results stay in the sets declared for them.   *)
BatchTypeOK ==
  /\ mb.hash = <<>>
  /\ mb.num \in 0 .. MaxBuffers
  /\ Len(mb.src) = mb.num
  /\ mb.len \in 0 .. (LenLimit - 1)
  /\ mb.blocks \in Nat \cup {Unset}
  /\ flushes \in 0 .. 2
  /\ Len(digests) <= MaxBuffers
  /\ last \in [op : {"init", "flush", "dequeue"},
              err : {"NONE", "INVALID_ARG", "OVERRUN"},
              once : BOOLEAN]

Dequeues == last.op = "dequeue" /\ last.err = "NONE"

StagedDigests ==
  \A i \in 1 .. Len(digests) : digests[i] = Hash(mb.src[i])

(***************************************************************************)
(* A batch that was flushed once since the last successful dequeue is      *)
(* digested message by message, whichever of the two paths hashes it, and  *)
(* whatever was refused or initialised in between; on the single-buffer    *)
(* path that holds after any number of flushes, and of dequeues of the     *)
(* same batch.  The kernel is only ever started without a number of blocks *)
(* on a batch that was dequeued already: no order of the other calls       *)
(* leaves a flushed batch behind with m_blocks at UINT64_MAX.              *)
(***************************************************************************)
BatchDigested ==
  /\ Dequeues /\ (last.once \/ Len(digests) < VectorMin) => StagedDigests
  /\ last.err = "OVERRUN" => flushes = 0

=============================================================================
