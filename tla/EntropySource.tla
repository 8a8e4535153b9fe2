---------------------------- MODULE EntropySource ----------------------------
(***************************************************************************)
(* The three classes behind IRng::randomize: SystemRng (getrandom),        *)
(* HardwareRng (RDRAND) and the CustomRng that plays back what the caller  *)
(* of the generator supplied.  One request is in progress at a time.  The  *)
(* operating system and the processor answer as they like: a getrandom     *)
(* may be short or fail, an RDRAND may fail.                               *)
(*                                                                         *)
(* A byte of the requested buffer is 0 until the source writes it, and     *)
(* then the number of the request that wrote it: what matters is whether   *)
(* it is entropy, and whether it is the entropy of another request.        *)
(***************************************************************************)
EXTENDS Integers

CONSTANTS
  Retries,        (* getrandom is tried again this often: 10 in the code   *)
  SizeMod,        (* size_t counts modulo this: 2^64 in the code           *)
  Stride,         (* bytes of one RDRAND: 2                                *)
  MaxLen          (* bound: bytes asked for at once                        *)

ASSUME EntropySourceAssumption ==
  /\ Retries \in Nat
  /\ Stride \in Nat \ {0}
  /\ MaxLen \in Nat \ {0}
  /\ SizeMod \in Nat
  /\ SizeMod > MaxLen + 1

VARIABLES
  src,            (* the class that answers: "os", "hw" or "custom"        *)
  asked,          (* length of the request                                 *)
  out,            (* bytes the loop believes written, a size_t             *)
  reads,          (* answers of the system during the request              *)
  buf,            (* the bytes of the request                              *)
  status,         (* "idle", "busy", or what randomize returns             *)
  draws,          (* requests made so far                                  *)
  played          (* m_call_count of CustomRng, which has two things       *)

sourceVars == <<src, asked, out, reads, buf, status, draws, played>>

Sources == {"os", "hw", "custom"}

-----------------------------------------------------------------------------
SourceInit ==
  /\ src \in Sources
  /\ asked = 0
  /\ out = 0
  /\ reads = 0
  /\ buf = [i \in {} |-> 0]
  /\ status = "idle"
  /\ draws = 0
  /\ played = 0

\* The caller's buffer comes zeroed: the vectors of Drbg::initialize and
\* Drbg::randomize, and by this model's choice the buffer of a caller.
Ask(n) ==
  /\ asked' = n
  /\ out' = 0
  /\ reads' = 0
  /\ buf' = [i \in 1 .. n |-> 0]
  /\ status' = "busy"
  /\ draws' = draws + 1
  /\ UNCHANGED <<src, played>>

\* What a request leaves to its caller is taken and forgotten.
Taken ==
  /\ asked' = 0
  /\ out' = 0
  /\ reads' = 0
  /\ buf' = [i \in {} |-> 0]
  /\ status' = "idle"
  /\ UNCHANGED <<src, draws, played>>

\* The bytes from position p on that an answer of n bytes writes.
Written(p, n) ==
  [i \in 1 .. asked |-> IF i \in (p + 1) .. (p + n) THEN draws ELSE buf[i]]

\* Variant of OsStatus: a short count is taken for success.
OsStatusAny(o, n) ==
  IF o < asked /\ n <= Retries THEN "busy"
  ELSE IF o > 0 THEN "NONE" ELSE "NO_ENTROPY"

\* Variant of OsStatus: failures are tried again for ever.
OsStatusUnbounded(o, n) ==
  IF o < asked THEN "busy" ELSE IF o = asked THEN "NONE" ELSE "NO_ENTROPY"

\* Where the loop stands after n answers that add up to o.
OsStatus(o, n) ==
  IF o < asked /\ n <= Retries THEN "busy"
  ELSE IF o = asked THEN "NONE" ELSE "NO_ENTROPY"

\* Variant of OsRead: the count is a signed one.
OsReadSigned(n) ==
  /\ src = "os"
  /\ status = "busy"
  /\ out' = out + n
  /\ reads' = IF reads <= Retries THEN reads + 1 ELSE reads
  /\ buf' = IF n > 0 THEN Written(out, n) ELSE buf
  /\ status' = OsStatus(out', reads')
  /\ UNCHANGED <<src, asked, draws, played>>

\* One getrandom that writes n bytes, n = -1 when it fails: the result is
\* added to an unsigned count.  Bound: `reads' stops counting after the loop's
\* last turn.
OsRead(n) ==
  /\ src = "os"
  /\ status = "busy"
  /\ out' = (out + n) % SizeMod
  /\ reads' = IF reads <= Retries THEN reads + 1 ELSE reads
  /\ buf' = IF n > 0 THEN Written(out, n) ELSE buf
  /\ status' = OsStatus(out', reads')
  /\ UNCHANGED <<src, asked, draws, played>>

\* One RDRAND, ok if it delivered.  Only whole strides are asked for: an odd
\* byte at the end of the request stays as it was.
HwRead(ok) ==
  /\ src = "hw"
  /\ status = "busy"
  /\ out + Stride <= asked
  /\ reads' = reads + 1
  /\ IF ok THEN /\ buf' = Written(out, Stride)
                /\ out' = out + Stride
                /\ UNCHANGED status
           ELSE /\ status' = "NO_ENTROPY"
                /\ UNCHANGED <<buf, out>>
  /\ UNCHANGED <<src, asked, draws, played>>

HwDone ==
  /\ src = "hw"
  /\ status = "busy"
  /\ out + Stride > asked
  /\ status' = "NONE"
  /\ UNCHANGED <<src, asked, out, reads, buf, draws, played>>

\* The first request gets the entropy, the second the nonce, later ones
\* nothing; all are reported as successes.
CustomRead ==
  /\ src = "custom"
  /\ status = "busy"
  /\ buf' = IF played < 2 THEN Written(0, asked) ELSE buf
  /\ played' = IF played < 2 THEN played + 1 ELSE played
  /\ status' = "NONE"
  /\ UNCHANGED <<src, asked, out, reads, draws>>

SourceStep ==
  \/ \E n \in {-1} \cup 1 .. (asked - out) : OsRead(n)
  \/ \E ok \in BOOLEAN : HwRead(ok)
  \/ HwDone
  \/ CustomRead

-----------------------------------------------------------------------------
SourceTypeOK ==
  /\ src \in Sources
  /\ asked \in 0 .. MaxLen
  /\ out \in 0 .. (SizeMod - 1)
  /\ reads \in 0 .. (Retries + MaxLen + 1)
  /\ DOMAIN buf = 1 .. asked
  /\ \A i \in 1 .. asked : buf[i] \in 0 .. draws
  /\ status \in {"idle", "busy", "NONE", "NO_ENTROPY"}
  /\ draws \in Nat
  /\ played \in 0 .. 2

\* Every byte of the request is entropy drawn for it.
Filled == \A i \in 1 .. asked : buf[i] = draws
=============================================================================
